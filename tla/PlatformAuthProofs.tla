------------------------- MODULE PlatformAuthProofs -------------------------
(***************************************************************************)
(* Proofs about the router's side of authorization, whoever its clients    *)
(* are and however many of their requests it handles at a time.            *)
(*                                                                         *)
(* The invariant says of each installation where it is in its life, of its *)
(* tokens which one is left, and of each request what its first look at    *)
(* the tables has shown and cannot be undone.                              *)
(***************************************************************************)
EXTENDS PlatformAuth, FiniteSetTheorems, TLAPS

USE PlatformAssumption

(* The life of an installation and of its authorization.                   *)
Life(i) ==
  /\ auth[i] = "none" <=> inst[i] = "none"
  /\ auth[i] = "pending" => inst[i] = "pending"
  /\ auth[i] = "gone" => inst[i] = "gone"
  /\ auth[i] \in {"none", "pending", "approved"} =>
       issued[i] = 0 /\ grants[i] = 0 /\ family[i] = "none"
  /\ grants[i] <= 1
  /\ issued[i] > 0 => family[i] # "none"
  /\ family[i] = "active" => inst[i] = "active"
  /\ inst[i] = "active" => owner[i] # NoOne /\ owner[i] = resolver[i]

(* One token of a family is left, and what was exchanged is marked.        *)
Left(i, k) == k \notin used[i] /\ k \notin revoked[i]

Tokens(i) ==
  /\ used[i] \subseteq 1 .. issued[i]
  /\ \A j, k \in 1 .. issued[i] : Left(i, j) /\ Left(i, k) => j = k
  /\ \A k \in 1 .. MaxTokens : <<i, k>> \in exchanged => k \in used[i]
  /\ i \in replayed => family[i] = "revoked"

(* What a request has seen stays true.                                     *)
Asked(s) ==
  req[s].at # "idle" =>
    /\ req[s].of \in Installations
    /\ req[s].kind = "refresh" /\ req[s].at \in {"found", "reuse"} =>
         req[s].tok \in 1 .. issued[req[s].of]
    /\ req[s].at = "reuse" => req[s].tok \in used[req[s].of]
    /\ req[s].kind = "cancel" => auth[req[s].of] # "none"
    /\ req[s].kind = "cancel" /\ req[s].at = "answered" /\ req[s].answer = "done" =>
         inst[req[s].of] \in {"gone", "revoked"}
    /\ req[s].at = "answered" /\ req[s].answer = "granted" =>
         req[s].tok \in 1 .. issued[req[s].of]

TablesOK ==
  /\ auth \in [Installations -> {"none", "pending", "approved", "consumed", "expired", "gone"}]
  /\ late \subseteq Installations
  /\ resolver \in [Installations -> Users \cup {NoOne}]
  /\ inst \in [Installations -> {"none", "pending", "active", "revoked", "gone"}]
  /\ owner \in [Installations -> Users \cup {NoOne}]
  /\ grants \in [Installations -> Nat]
  /\ family \in [Installations -> {"none", "active", "revoked"}]
  /\ issued \in [Installations -> 0 .. MaxTokens]
  /\ used \in [Installations -> SUBSET (1 .. MaxTokens)]
  /\ revoked \in [Installations -> SUBSET (1 .. MaxTokens)]
  /\ eligible \subseteq Users
  /\ exchanged \subseteq Installations \X (1 .. MaxTokens)
  /\ replayed \subseteq Installations

Tables == TablesOK /\ \A i \in Installations : Life(i) /\ Tokens(i)

RequestsInv == req \in [Slots -> Requests] /\ \A s \in Slots : Asked(s)

ServerInv == Tables /\ RequestsInv

(* What no step takes back.                                                *)
Later ==
  \A i \in Installations :
    /\ issued[i] <= issued'[i]
    /\ used[i] \subseteq used'[i]
    /\ auth[i] # "none" => auth'[i] # "none"
    /\ inst[i] \in {"gone", "revoked"} => inst'[i] \in {"gone", "revoked"}

-----------------------------------------------------------------------------
(* The two ways in which a handler moves its own request.                  *)
Moved(s) ==
  /\ req' \in [Slots -> Requests]
  /\ req'[s].kind = req[s].kind
  /\ req'[s].of = req[s].of
  /\ \A r \in Slots \ {s} : req'[r] = req[r]

LEMMA GoesMoves ==
  ASSUME NEW s \in Slots, NEW at \in {"idle", "sent", "found", "reuse", "answered"},
         req \in [Slots -> Requests], Goes(s, at)
  PROVE  Moved(s) /\ req'[s].at = at /\ req'[s].tok = req[s].tok
BY DEF Goes, Moved, Requests, Kinds

LEMMA AnswerMoves ==
  ASSUME NEW s \in Slots, NEW k \in 0 .. MaxTokens,
         NEW answer \in {"none", "granted", "pending", "refused", "done", "failed"},
         req \in [Slots -> Requests], Answer(s, answer, k)
  PROVE  Moved(s) /\ req'[s].at = "answered" /\ req'[s].answer = answer /\ req'[s].tok = k
BY DEF Answer, Moved, Requests, Kinds

(* What every handler of the request s does.                               *)
Handled(s) == ServerInv' /\ Later /\ Moved(s) /\ req'[s].at # "idle"

(* The other requests keep what they know.                                 *)
LEMMA OthersKnow ==
  ASSUME NEW s \in Slots, TablesOK, TablesOK', RequestsInv, Later, Moved(s), Asked(s)'
  PROVE  RequestsInv'
<1>1. ASSUME NEW r \in Slots \ {s} PROVE Asked(r)'
  <2>1. req'[r] = req[r] BY DEF Moved
  <2>2. Asked(r) BY DEF RequestsInv
  <2>3. req[r].at # "idle" => req[r].of \in Installations BY <2>2 DEF Asked
  <2>4. req[r] \in Requests BY DEF RequestsInv
  <2> DEFINE i == req[r].of
  <2>5. CASE req[r].at = "idle" BY <2>1, <2>5 DEF Asked
  <2>6. CASE req[r].at # "idle"
    <3>1. i \in Installations BY <2>3, <2>6
    <3>2. /\ issued[i] <= issued'[i] /\ used[i] \subseteq used'[i]
          /\ auth[i] # "none" => auth'[i] # "none"
          /\ inst[i] \in {"gone", "revoked"} => inst'[i] \in {"gone", "revoked"}
      BY <3>1 DEF Later
    <3>3. issued[i] \in Nat /\ issued'[i] \in Nat BY <3>1 DEF TablesOK
    <3> QED BY <2>1, <2>2, <2>6, <3>1, <3>2, <3>3 DEF Asked
  <2> QED BY <2>5, <2>6
<1> QED BY <1>1 DEF RequestsInv, Moved

(* A step that leaves the tables alone.                                    *)
LEMMA TablesStay ==
  ASSUME Tables, UNCHANGED tables
  PROVE  Tables' /\ Later
BY DEF Tables, TablesOK, Later, Life, Tokens, Left, tables, enrolmentVars, tokenVars, familyVars

-----------------------------------------------------------------------------
(* The transactions, each for the installation i it is about.              *)
LEMMA CreateKeeps ==
  ASSUME NEW i \in Installations, Tables, CreateAuthorization(i)
  PROVE  Tables' /\ Later
<1> USE DEF CreateAuthorization, tokenVars
<1>1. TablesOK' BY DEF Tables, TablesOK
<1>2. ASSUME NEW j \in Installations PROVE Life(j)' /\ Tokens(j)'
  <2>1. Life(j) /\ Tokens(j) BY DEF Tables
  <2> QED BY <2>1 DEF Tables, TablesOK, Life, Tokens, Left
<1>3. Later BY DEF Tables, TablesOK, Life, Later
<1> QED BY <1>1, <1>2, <1>3 DEF Tables

(* One exchange of the token k: it was the one that was left.              *)
LEMMA RotationKeeps ==
  ASSUME NEW i \in Installations, NEW k \in 1 .. issued[i], Tables,
         Left(i, k), issued[i] < MaxTokens,
         used' = [used EXCEPT ![i] = @ \cup {k}],
         issued' = [issued EXCEPT ![i] = @ + 1],
         Completed(i, k),
         UNCHANGED <<enrolmentVars, familyVars, owner, eligible>>
  PROVE  Tables' /\ Later
<1> USE DEF enrolmentVars, familyVars
<1>1. /\ issued[i] \in 0 .. MaxTokens /\ used[i] \subseteq 1 .. MaxTokens
      /\ Life(i) /\ Tokens(i)
  BY DEF Tables, TablesOK
<1>2. k \in 1 .. MaxTokens BY <1>1
<1>3. <<i, k>> \notin exchanged BY <1>1, <1>2 DEF Tokens, Left
<1>4. exchanged' = exchanged \cup {<<i, k>>} /\ replayed' = replayed BY <1>3 DEF Completed
<1>5. issued'[i] = issued[i] + 1 /\ used'[i] = used[i] \cup {k} BY DEF Tables, TablesOK
<1>6. TablesOK' BY <1>1, <1>2, <1>4 DEF Tables, TablesOK
<1>7. ASSUME NEW j \in Installations PROVE Life(j)' /\ Tokens(j)'
  <2>1. Life(j) /\ Tokens(j) BY DEF Tables
  <2>2. CASE j # i
    BY <1>4, <2>1, <2>2 DEF Tables, TablesOK, Life, Tokens, Left
  <2>3. CASE j = i
    <3>1. Life(i)' BY <1>1, <1>5 DEF Life
    <3>2. used'[i] \subseteq 1 .. issued'[i] BY <1>1, <1>5 DEF Tokens
    <3>3. \A m \in 1 .. issued'[i] : Left(i, m)' => m = issued'[i]
      BY <1>1, <1>5 DEF Tokens, Left
    <3>4. \A m \in 1 .. MaxTokens : <<i, m>> \in exchanged' => m \in used'[i]
      BY <1>1, <1>4, <1>5 DEF Tokens
    <3>5. i \in replayed' => family'[i] = "revoked" BY <1>1, <1>4 DEF Tokens
    <3> QED BY <2>3, <3>1, <3>2, <3>3, <3>4, <3>5 DEF Tokens
  <2> QED BY <2>2, <2>3
<1>8. Later BY <1>1, <1>5 DEF Tables, TablesOK, Later
<1> QED BY <1>6, <1>7, <1>8 DEF Tables

LEMMA ReuseKeeps ==
  ASSUME NEW i \in Installations, NEW k \in used[i], Tables,
         RevokeFamily(i), Completed(i, k),
         UNCHANGED <<enrolmentVars, issued, used, inst, owner, eligible>>
  PROVE  Tables' /\ Later
<1> USE DEF enrolmentVars, RevokeFamily
<1>1. /\ issued[i] \in 0 .. MaxTokens /\ used[i] \subseteq 1 .. MaxTokens
      /\ Life(i) /\ Tokens(i)
  BY DEF Tables, TablesOK
<1>2. k \in 1 .. MaxTokens /\ issued[i] > 0 BY <1>1 DEF Tokens
<1>3. family'[i] = "revoked" BY <1>1, <1>2 DEF Tables, TablesOK, Life
<1>4. /\ exchanged' = exchanged \cup {<<i, k>>}
      /\ replayed' \subseteq replayed \cup {i}
  BY DEF Completed
<1>5. TablesOK'
  <2>1. revoked' \in [Installations -> SUBSET (1 .. MaxTokens)]
    BY <1>1 DEF Tables, TablesOK
  <2> QED BY <1>2, <1>4, <2>1 DEF Tables, TablesOK
<1>6. ASSUME NEW j \in Installations PROVE Life(j)' /\ Tokens(j)'
  <2>1. Life(j) /\ Tokens(j) BY DEF Tables
  <2>2. revoked[j] \subseteq revoked'[j] BY DEF Tables, TablesOK
  <2>3. family'[j] = family[j] \/ (j = i /\ family'[j] = "revoked") BY <1>3 DEF Tables, TablesOK
  <2>4. Life(j)' BY <2>1, <2>3 DEF Life
  <2>5. \A m \in 1 .. MaxTokens : <<j, m>> \in exchanged' => m \in used'[j]
    BY <1>4, <2>1 DEF Tokens
  <2>6. j \in replayed' => family'[j] = "revoked" BY <1>3, <1>4, <2>1, <2>3 DEF Tokens
  <2> QED BY <2>1, <2>2, <2>4, <2>5, <2>6 DEF Tokens, Left
<1>7. Later BY DEF Tables, TablesOK, Later
<1> QED BY <1>5, <1>6, <1>7 DEF Tables

LEMMA RevocationKeeps ==
  ASSUME NEW i \in Installations, Tables, inst[i] = "active", RevokeInstallation(i),
         UNCHANGED <<enrolmentVars, tokenVars, owner, eligible>>
  PROVE  Tables' /\ Later /\ inst'[i] = "revoked"
<1> USE DEF enrolmentVars, tokenVars, RevokeInstallation, RevokeFamily
<1>1. Life(i) /\ Tokens(i) /\ issued[i] \in 0 .. MaxTokens BY DEF Tables, TablesOK
<1>2. TablesOK'
  <2>1. revoked' \in [Installations -> SUBSET (1 .. MaxTokens)]
    BY <1>1 DEF Tables, TablesOK
  <2> QED BY <2>1 DEF Tables, TablesOK
<1>3. ASSUME NEW j \in Installations PROVE Life(j)' /\ Tokens(j)'
  <2>1. Life(j) /\ Tokens(j) BY DEF Tables
  <2>2. revoked[j] \subseteq revoked'[j] BY DEF Tables, TablesOK
  <2>3. /\ family'[j] = IF j = i /\ family[j] # "none" THEN "revoked" ELSE family[j]
        /\ inst'[j] = IF j = i THEN "revoked" ELSE inst[j]
    BY DEF Tables, TablesOK
  <2>4. Life(j)' BY <2>1, <2>3 DEF Life
  <2>5. j \in replayed' => family'[j] = "revoked" BY <2>1, <2>3 DEF Tokens
  <2> QED BY <2>1, <2>2, <2>4, <2>5 DEF Tokens, Left
<1>4. Later /\ inst'[i] = "revoked" BY DEF Tables, TablesOK, Later
<1> QED BY <1>2, <1>3, <1>4 DEF Tables

(* An installation that is not active yet is given up.                     *)
LEMMA DeletionKeeps ==
  ASSUME NEW i \in Installations, Tables, inst[i] = "pending",
         auth' = [auth EXCEPT ![i] = "gone"], inst' = [inst EXCEPT ![i] = "gone"],
         UNCHANGED <<late, resolver, grants, tokenVars, family, revoked, owner, eligible>>
  PROVE  Tables' /\ Later /\ inst'[i] = "gone"
<1> USE DEF tokenVars
<1>1. TablesOK' BY DEF Tables, TablesOK
<1>2. ASSUME NEW j \in Installations PROVE Life(j)' /\ Tokens(j)'
  <2>1. Life(j) /\ Tokens(j) BY DEF Tables
  <2>2. /\ auth'[j] = IF j = i THEN "gone" ELSE auth[j]
        /\ inst'[j] = IF j = i THEN "gone" ELSE inst[j]
    BY DEF Tables, TablesOK
  <2>3. Life(j)' BY <2>1, <2>2 DEF Life
  <2> QED BY <2>1, <2>3 DEF Tokens, Left
<1>3. Later /\ inst'[i] = "gone" BY DEF Tables, TablesOK, Later
<1> QED BY <1>1, <1>2, <1>3 DEF Tables

LEMMA ApprovalKeeps ==
  ASSUME NEW i \in Installations, NEW u \in Users, Tables, Approve(u, i)
  PROVE  Tables' /\ Later
<1> USE DEF Approve, tokenVars
<1>1. TablesOK' BY DEF Tables, TablesOK
<1>2. ASSUME NEW j \in Installations PROVE Life(j)' /\ Tokens(j)'
  <2>1. Life(j) /\ Tokens(j) BY DEF Tables
  <2>2. /\ auth'[j] = IF j = i THEN "approved" ELSE auth[j]
        /\ inst'[j] = IF j = i THEN "active" ELSE inst[j]
        /\ owner'[j] = IF j = i THEN u ELSE owner[j]
    BY DEF Tables, TablesOK
  <2>3. Life(j)' BY <2>1, <2>2 DEF Life
  <2> QED BY <2>1, <2>3 DEF Tokens, Left
<1>3. Later BY DEF Tables, TablesOK, Later, Life
<1> QED BY <1>1, <1>2, <1>3 DEF Tables

(* The first family of an approved authorization.                          *)
LEMMA GrantKeeps ==
  ASSUME NEW i \in Installations, Tables, auth[i] = "approved", inst[i] = "active", Grant(i),
         UNCHANGED <<late, resolver, used, exchanged, replayed, inst, revoked, owner, eligible>>
  PROVE  Tables' /\ Later /\ issued'[i] = 1
<1> USE DEF Grant
<1>1. TablesOK' BY DEF Tables, TablesOK
<1>2. ASSUME NEW j \in Installations PROVE Life(j)' /\ Tokens(j)'
  <2>1. Life(j) /\ Tokens(j) /\ Life(i) BY DEF Tables
  <2>2. /\ auth'[j] = IF j = i THEN "consumed" ELSE auth[j]
        /\ family'[j] = IF j = i THEN "active" ELSE family[j]
        /\ grants'[j] = IF j = i THEN 1 ELSE grants[j]
        /\ issued'[j] = IF j = i THEN 1 ELSE issued[j]
    BY <2>1 DEF Tables, TablesOK, Life
  <2>3. Life(j)' BY <2>1, <2>2 DEF Life
  <2>4. j \in replayed' => j # i BY <2>1 DEF Tokens, Life
  <2>5. used[j] \subseteq 1 .. issued'[j] BY <2>1, <2>2 DEF Tokens, Life
  <2>6. \A l, k \in 1 .. issued'[j] : Left(j, l)' /\ Left(j, k)' => l = k
    BY <2>1, <2>2 DEF Tokens, Left
  <2> QED BY <2>1, <2>2, <2>3, <2>4, <2>5, <2>6 DEF Tokens
<1>3. Later BY DEF Tables, TablesOK, Later, Life
<1>4. issued'[i] = 1 BY DEF Tables, TablesOK, Life
<1> QED BY <1>1, <1>2, <1>3, <1>4 DEF Tables

(* An authorization that a poll finds past its time.                       *)
LEMMA ExpiryKeeps ==
  ASSUME NEW i \in Installations, Tables, Exists(i),
         auth' = [auth EXCEPT ![i] = IF @ \in {"pending", "approved"} THEN "expired" ELSE @],
         UNCHANGED <<late, resolver, grants, tokenVars, familyVars, owner, eligible>>
  PROVE  Tables' /\ Later
<1> USE DEF tokenVars, familyVars, Exists
<1>1. TablesOK' BY DEF Tables, TablesOK
<1>2. ASSUME NEW j \in Installations PROVE Life(j)' /\ Tokens(j)'
  <2>1. Life(j) /\ Tokens(j) BY DEF Tables
  <2>2. auth'[j] = auth[j] \/ (auth[j] \in {"pending", "approved"} /\ auth'[j] = "expired")
    BY DEF Tables, TablesOK
  <2>3. Life(j)' BY <2>1, <2>2 DEF Life
  <2> QED BY <2>1, <2>3 DEF Tokens, Left
<1>3. Later BY DEF Tables, TablesOK, Later
<1> QED BY <1>1, <1>2, <1>3 DEF Tables

(* Steps that touch only who resolved, what is late or who is eligible.    *)
LEMMA ResolutionKeeps ==
  ASSUME NEW i \in Installations, NEW u \in Users, Tables, Resolve(u, i)
  PROVE  Tables' /\ Later
<1> USE DEF Resolve, tokenVars, familyVars
<1>1. TablesOK' BY DEF Tables, TablesOK
<1>2. ASSUME NEW j \in Installations PROVE Life(j)' /\ Tokens(j)'
  <2>1. Life(j) /\ Tokens(j) BY DEF Tables
  <2>2. j # i => resolver'[j] = resolver[j] BY DEF Tables, TablesOK
  <2>3. Life(j)' BY <2>1, <2>2 DEF Life
  <2> QED BY <2>1, <2>3 DEF Tokens, Left
<1>3. Later BY DEF Tables, TablesOK, Later
<1> QED BY <1>1, <1>2, <1>3 DEF Tables

LEMMA QuietKeeps ==
  ASSUME Tables, late' \subseteq Installations, eligible' \subseteq Users,
         UNCHANGED <<auth, resolver, grants, tokenVars, familyVars, owner>>
  PROVE  Tables' /\ Later
BY DEF Tables, TablesOK, Later, Life, Tokens, Left, tokenVars, familyVars

-----------------------------------------------------------------------------
(* The handlers.                                                           *)
LEMMA RequestFacts ==
  ASSUME NEW s \in Slots, ServerInv, req[s].at # "idle"
  PROVE  /\ req[s].of \in Installations /\ req[s].tok \in 0 .. MaxTokens
         /\ Life(req[s].of) /\ Tokens(req[s].of) /\ Asked(s)
         /\ TablesOK /\ RequestsInv /\ req \in [Slots -> Requests]
<1>1. Asked(s) /\ req[s] \in Requests BY DEF ServerInv, RequestsInv
<1>2. req[s].of \in Installations BY <1>1 DEF Asked
<1> QED BY <1>1, <1>2 DEF ServerInv, RequestsInv, Tables, Requests

LEMMA LookRefreshKeeps ==
  ASSUME NEW s \in Slots, ServerInv, LookRefresh(s)
  PROVE  Handled(s)
<1> DEFINE i == req[s].of
           k == req[s].tok
<1>1. req[s].kind = "refresh" /\ req[s].at = "sent" BY DEF LookRefresh, Is
<1>2. /\ i \in Installations /\ k \in 0 .. MaxTokens /\ Tokens(i)
      /\ TablesOK /\ RequestsInv /\ req \in [Slots -> Requests]
  BY <1>1, RequestFacts
<1>3. Tables' /\ Later BY TablesStay DEF LookRefresh, ServerInv
<1>4. UNCHANGED <<used, issued>> BY DEF LookRefresh, tables, tokenVars
<1>5. Moved(s) /\ req'[s].at # "idle" /\ Asked(s)'
  <2>1. CASE k \in used[i] /\ Goes(s, "reuse")
    <3>1. Moved(s) /\ req'[s].at = "reuse" /\ req'[s].tok = k BY <1>2, <2>1, GoesMoves
    <3>2. k \in 1 .. issued[i] BY <1>2, <2>1 DEF Tokens
    <3> QED BY <1>1, <1>2, <1>4, <2>1, <3>1, <3>2 DEF Asked, Moved
  <2>2. CASE Usable(i, k) /\ Goes(s, "found")
    <3>1. Moved(s) /\ req'[s].at = "found" /\ req'[s].tok = k BY <1>2, <2>2, GoesMoves
    <3> QED BY <1>1, <1>2, <1>4, <2>2, <3>1 DEF Asked, Moved, Usable
  <2>3. CASE Answer(s, "refused", k)
    <3>1. Moved(s) /\ req'[s].at = "answered" /\ req'[s].answer = "refused" BY <1>2, <2>3, AnswerMoves
    <3> QED BY <1>1, <1>2, <3>1 DEF Asked, Moved
  <2> QED BY <2>1, <2>2, <2>3 DEF LookRefresh
<1> QED BY <1>2, <1>3, <1>5, OthersKnow DEF Handled, ServerInv, Tables

LEMMA RotateKeeps ==
  ASSUME NEW s \in Slots, ServerInv, Rotate(s)
  PROVE  Handled(s)
<1> DEFINE i == req[s].of
           k == req[s].tok
<1>1. req[s].kind = "refresh" /\ req[s].at = "found" BY DEF Rotate, Is
<1>2. /\ i \in Installations /\ k \in 0 .. MaxTokens /\ k \in 1 .. issued[i]
      /\ TablesOK /\ RequestsInv /\ req \in [Slots -> Requests] /\ Tables
  BY <1>1, RequestFacts DEF Asked, ServerInv
<1>3. CASE k \in used[i] /\ Goes(s, "reuse") /\ UNCHANGED tokenVars
  <2>1. UNCHANGED tables BY <1>3 DEF Rotate, tables
  <2>2. Tables' /\ Later BY <1>2, <2>1, TablesStay
  <2>3. Moved(s) /\ req'[s].at = "reuse" /\ req'[s].tok = k BY <1>2, <1>3, GoesMoves
  <2>4. Asked(s)' BY <1>1, <1>2, <1>3, <2>1, <2>3 DEF Asked, Moved, tables, tokenVars
  <2> QED BY <1>2, <2>2, <2>3, <2>4, OthersKnow DEF Handled, ServerInv, Tables
<1>4. CASE Answer(s, "refused", k) /\ UNCHANGED tokenVars
  <2>1. UNCHANGED tables BY <1>4 DEF Rotate, tables
  <2>2. Tables' /\ Later BY <1>2, <2>1, TablesStay
  <2>3. Moved(s) /\ req'[s].at = "answered" /\ req'[s].answer = "refused"
    BY <1>2, <1>4, AnswerMoves
  <2>4. Asked(s)' BY <1>1, <1>2, <2>3 DEF Asked, Moved
  <2> QED BY <1>2, <2>2, <2>3, <2>4, OthersKnow DEF Handled, ServerInv, Tables
<1>5. CASE /\ k \notin used[i] \cup revoked[i]
           /\ issued[i] < MaxTokens
           /\ used' = [used EXCEPT ![i] = @ \cup {k}]
           /\ issued' = [issued EXCEPT ![i] = @ + 1]
           /\ Completed(i, k)
           /\ Answer(s, "granted", issued[i] + 1)
  <2>1. Tables' /\ Later
    <3>1. UNCHANGED <<enrolmentVars, familyVars, owner, eligible>> BY DEF Rotate
    <3>2. Left(i, k) BY <1>5 DEF Left
    <3> QED BY <1>2, <1>5, <3>1, <3>2, RotationKeeps
  <2>2. issued[i] + 1 \in 0 .. MaxTokens BY <1>2, <1>5 DEF TablesOK
  <2>3. Moved(s) /\ req'[s].at = "answered" /\ req'[s].tok = issued[i] + 1
    BY <1>2, <1>5, <2>2, AnswerMoves
  <2>4. issued[i] \in Nat /\ issued'[i] = issued[i] + 1 BY <1>2, <1>5 DEF TablesOK
  <2>5. Asked(s)' BY <1>1, <1>2, <2>3, <2>4 DEF Asked, Moved
  <2> QED BY <1>2, <2>1, <2>3, <2>5, OthersKnow DEF Handled, ServerInv, Tables
<1> QED BY <1>3, <1>4, <1>5 DEF Rotate

LEMMA RevokeReusedKeeps ==
  ASSUME NEW s \in Slots, ServerInv, RevokeReused(s)
  PROVE  Handled(s)
<1> DEFINE i == req[s].of
           k == req[s].tok
<1>1. req[s].kind = "refresh" /\ req[s].at = "reuse" BY DEF RevokeReused, Is
<1>2. /\ i \in Installations /\ k \in 0 .. MaxTokens /\ k \in used[i]
      /\ TablesOK /\ RequestsInv /\ req \in [Slots -> Requests] /\ Tables
  BY <1>1, RequestFacts DEF Asked, ServerInv
<1>3. Tables' /\ Later BY <1>2, ReuseKeeps DEF RevokeReused
<1>4. Moved(s) /\ req'[s].at = "answered" /\ req'[s].answer = "refused"
  BY <1>2, AnswerMoves DEF RevokeReused
<1>5. Asked(s)' BY <1>1, <1>2, <1>4 DEF Asked, Moved
<1> QED BY <1>2, <1>3, <1>4, <1>5, OthersKnow DEF Handled, ServerInv, Tables

LEMMA LookPollKeeps ==
  ASSUME NEW s \in Slots, ServerInv, LookPoll(s)
  PROVE  Handled(s)
<1>1. req[s].kind = "poll" /\ req[s].at = "sent" BY DEF LookPoll, Is
<1>2. /\ req[s].of \in Installations
      /\ TablesOK /\ RequestsInv /\ req \in [Slots -> Requests] /\ Tables
  BY <1>1, RequestFacts DEF ServerInv
<1>3. Tables' /\ Later BY <1>2, TablesStay DEF LookPoll
<1>4. Moved(s) /\ (req'[s].at = "found" \/ (req'[s].at = "answered" /\ req'[s].answer = "refused"))
  BY <1>2, GoesMoves, AnswerMoves DEF LookPoll
<1>5. Asked(s)' BY <1>1, <1>2, <1>4 DEF Asked, Moved
<1> QED BY <1>2, <1>3, <1>4, <1>5, OthersKnow DEF Handled, ServerInv, Tables

LEMMA RedeemKeeps ==
  ASSUME NEW s \in Slots, ServerInv, Redeem(s)
  PROVE  Handled(s)
<1> DEFINE i == req[s].of
<1>1. req[s].kind = "poll" /\ req[s].at = "found" BY DEF Redeem, Is
<1>2. /\ i \in Installations
      /\ TablesOK /\ RequestsInv /\ req \in [Slots -> Requests] /\ Tables
  BY <1>1, RequestFacts DEF ServerInv
<1>3. /\ Tables' /\ Later
      /\ \/ \E answer \in {"pending", "refused", "failed"} : Answer(s, answer, 0)
         \/ Answer(s, "granted", 1) /\ issued'[i] = 1
  <2>0. UNCHANGED <<late, resolver, used, exchanged, replayed, inst, revoked, owner, eligible>>
    BY DEF Redeem
  <2>1. CASE /\ UNCHANGED <<auth, grants, family, issued>>
             /\ \E answer \in {"pending", "refused", "failed"} : Answer(s, answer, 0)
    <3>1. UNCHANGED tables
      BY <2>0, <2>1 DEF tables, enrolmentVars, tokenVars, familyVars
    <3> QED BY <1>2, <2>1, <3>1, TablesStay
  <2>2. CASE /\ Exists(i)
             /\ auth' = [auth EXCEPT ![i] = IF @ \in {"pending", "approved"} THEN "expired" ELSE @]
             /\ Answer(s, "refused", 0)
             /\ UNCHANGED <<grants, family, issued>>
    <3>1. UNCHANGED <<late, resolver, grants, tokenVars, familyVars, owner, eligible>>
      BY <2>0, <2>2 DEF tokenVars, familyVars
    <3>2. Tables' /\ Later BY <1>2, <2>2, <3>1, ExpiryKeeps
    <3> QED BY <2>2, <3>2
  <2>3. CASE /\ auth[i] = "approved" /\ inst[i] = "active"
             /\ Grant(i)
             /\ Answer(s, "granted", issued'[i])
    BY <1>2, <2>0, <2>3, GrantKeeps
  <2> QED BY <2>1, <2>2, <2>3 DEF Redeem
<1>4. /\ Moved(s) /\ req'[s].at = "answered"
      /\ \/ req'[s].answer \in {"pending", "refused", "failed"}
         \/ req'[s].tok = 1 /\ issued'[i] = 1
  <2>1. CASE \E answer \in {"pending", "refused", "failed"} : Answer(s, answer, 0)
    <3>1. PICK answer \in {"pending", "refused", "failed"} : Answer(s, answer, 0) BY <2>1
    <3>2. /\ answer \in {"none", "granted", "pending", "refused", "done", "failed"}
          /\ 0 \in 0 .. MaxTokens
      OBVIOUS
    <3>3. Moved(s) /\ req'[s].at = "answered" /\ req'[s].answer = answer
      BY <1>2, <3>1, <3>2, AnswerMoves
    <3> QED BY <3>3
  <2>2. CASE Answer(s, "granted", 1) /\ issued'[i] = 1
    BY <1>2, <2>2, AnswerMoves
  <2> QED BY <1>3, <2>1, <2>2
<1>5. Asked(s)' BY <1>1, <1>2, <1>4 DEF Asked, Moved
<1> QED BY <1>2, <1>3, <1>4, <1>5, OthersKnow DEF Handled, ServerInv, Tables

LEMMA LookCancelKeeps ==
  ASSUME NEW s \in Slots, ServerInv, LookCancel(s)
  PROVE  Handled(s)
<1> DEFINE i == req[s].of
<1>1. req[s].kind = "cancel" /\ req[s].at = "sent" BY DEF LookCancel, Is
<1>2. /\ i \in Installations /\ Life(i) /\ auth[i] # "none"
      /\ TablesOK /\ RequestsInv /\ req \in [Slots -> Requests] /\ Tables
  BY <1>1, RequestFacts DEF ServerInv, Asked
<1>3. Tables' /\ Later BY <1>2, TablesStay DEF LookCancel
<1>4. UNCHANGED <<auth, inst>> BY DEF LookCancel, tables, enrolmentVars, familyVars
<1>5. Moved(s) /\ \/ req'[s].at = "found"
                  \/ req'[s].at = "answered" /\ req'[s].answer = "done" /\ inst[i] = "gone"
  <2>1. Exists(i) => Goes(s, "found") BY DEF LookCancel
  <2>2. ~Exists(i) => Answer(s, "done", 0) /\ inst[i] = "gone"
    BY <1>2 DEF LookCancel, Exists, Life
  <2> QED BY <1>2, <2>1, <2>2, GoesMoves, AnswerMoves
<1>6. Asked(s)' BY <1>1, <1>2, <1>4, <1>5 DEF Asked, Moved
<1> QED BY <1>2, <1>3, <1>5, <1>6, OthersKnow DEF Handled, ServerInv, Tables

LEMMA WithdrawKeeps ==
  ASSUME NEW s \in Slots, ServerInv, Withdraw(s)
  PROVE  Handled(s)
<1> DEFINE i == req[s].of
<1>1. req[s].kind = "cancel" /\ req[s].at = "found" BY DEF Withdraw, Is
<1>2. /\ i \in Installations /\ auth[i] # "none"
      /\ TablesOK /\ RequestsInv /\ req \in [Slots -> Requests] /\ Tables
  BY <1>1, RequestFacts DEF ServerInv, Asked
<1>3. Tables' /\ Later /\ inst'[i] \in {"gone", "revoked"}
  <2>0. UNCHANGED <<late, resolver, grants, tokenVars, owner, eligible>> BY DEF Withdraw
  <2>1. CASE inst[i] = "active" /\ RevokeInstallation(i) /\ UNCHANGED auth
    <3>1. UNCHANGED <<enrolmentVars, tokenVars, owner, eligible>>
      BY <2>0, <2>1 DEF enrolmentVars
    <3> QED BY <1>2, <2>1, <3>1, RevocationKeeps
  <2>2. CASE /\ inst[i] = "pending"
             /\ auth' = [auth EXCEPT ![i] = "gone"]
             /\ inst' = [inst EXCEPT ![i] = "gone"]
             /\ UNCHANGED <<family, revoked>>
    BY <1>2, <2>0, <2>2, DeletionKeeps
  <2>3. CASE inst[i] \in {"revoked", "gone"} /\ UNCHANGED <<auth, familyVars>>
    <3>1. UNCHANGED tables BY <2>0, <2>3 DEF tables, enrolmentVars
    <3> QED BY <1>2, <2>3, <3>1, TablesStay DEF familyVars
  <2> QED BY <2>1, <2>2, <2>3 DEF Withdraw
<1>4. Moved(s) /\ req'[s].at = "answered" /\ req'[s].answer = "done"
  BY <1>2, AnswerMoves DEF Withdraw
<1>5. Asked(s)' BY <1>1, <1>2, <1>3, <1>4 DEF Asked, Moved, TablesOK, Later
<1> QED BY <1>2, <1>3, <1>4, <1>5, OthersKnow DEF Handled, ServerInv, Tables

LEMMA FailureKeeps ==
  ASSUME NEW s \in Slots, ServerInv, RequestFails(s)
  PROVE  Handled(s)
<1>1. req[s].at # "idle" BY DEF RequestFails
<1>2. /\ req[s].of \in Installations /\ req[s].tok \in 0 .. MaxTokens /\ Asked(s)
      /\ TablesOK /\ RequestsInv /\ req \in [Slots -> Requests] /\ Tables
  BY <1>1, RequestFacts DEF ServerInv
<1>3. Tables' /\ Later BY <1>2, TablesStay DEF RequestFails
<1>4. Moved(s) /\ req'[s].at = "answered" /\ req'[s].answer = "failed"
  BY <1>2, AnswerMoves DEF RequestFails
<1>5. Asked(s)'
  BY <1>1, <1>2, <1>4 DEF Asked, Moved, RequestFails, tables, enrolmentVars
<1> QED BY <1>2, <1>3, <1>4, <1>5, OthersKnow DEF Handled, ServerInv, Tables

-----------------------------------------------------------------------------
(* What a client may do with the requests, whoever it is: it forgets       *)
(* answered ones and sends new ones about what exists.                     *)
ClientMoves ==
  /\ req' \in [Slots -> Requests]
  /\ \A s \in Slots :
       \/ req'[s] = req[s]
       \/ req'[s].at = "idle"
       \/ /\ req'[s].at = "sent" /\ req'[s].of \in Installations
          /\ req'[s].kind = "cancel" => auth[req'[s].of] # "none"

LEMMA ClientsKeep ==
  ASSUME ServerInv, UNCHANGED tables, ClientMoves
  PROVE  ServerInv'
<1>1. Tables' BY TablesStay DEF ServerInv
<1>2. ASSUME NEW s \in Slots PROVE Asked(s)'
  <2>1. Asked(s) BY DEF ServerInv, RequestsInv
  <2> QED BY <2>1 DEF ClientMoves, Asked, tables, enrolmentVars, tokenVars, familyVars
<1> QED BY <1>1, <1>2 DEF ServerInv, RequestsInv, ClientMoves

(* Steps that leave the requests alone.                                    *)
LEMMA TablesMove ==
  ASSUME ServerInv, Tables', Later, UNCHANGED req
  PROVE  ServerInv'
<1>1. ASSUME NEW s \in Slots PROVE Asked(s)'
  <2>1. Asked(s) BY DEF ServerInv, RequestsInv
  <2> DEFINE i == req[s].of
  <2>2. CASE req[s].at = "idle" BY <2>2 DEF Asked
  <2>3. CASE req[s].at # "idle"
    <3>1. i \in Installations BY <2>1, <2>3 DEF Asked
    <3>2. /\ issued[i] <= issued'[i] /\ used[i] \subseteq used'[i]
          /\ auth[i] # "none" => auth'[i] # "none"
          /\ inst[i] \in {"gone", "revoked"} => inst'[i] \in {"gone", "revoked"}
      BY <3>1 DEF Later
    <3>3. issued[i] \in Nat /\ issued'[i] \in Nat BY <3>1 DEF ServerInv, Tables, TablesOK
    <3> QED BY <2>1, <2>3, <3>1, <3>2, <3>3 DEF Asked
  <2> QED BY <2>2, <2>3
<1> QED BY <1>1 DEF ServerInv, RequestsInv

LEMMA AnyClientKeeps ==
  ASSUME NEW s \in Slots, NEW i \in Installations, ServerInv, AnyClientSends(s, i)
  PROVE  ServerInv'
<1>1. CASE CreateAuthorization(i) /\ UNCHANGED req
  BY <1>1, CreateKeeps, TablesMove DEF ServerInv
<1>2. CASE /\ \E kind \in Kinds, k \in 0 .. MaxTokens :
                (kind = "cancel" => auth[i] # "none") /\ Send(s, kind, i, k)
           /\ UNCHANGED tables
  <2>1. PICK kind \in Kinds, k \in 0 .. MaxTokens :
               (kind = "cancel" => auth[i] # "none") /\ Send(s, kind, i, k)
    BY <1>2
  <2> DEFINE asked == [NoRequest EXCEPT !.kind = kind, !.of = i, !.tok = k, !.at = "sent"]
  <2>2. NoRequest \in Requests BY DEF NoRequest, Requests
  <2>3. asked \in Requests /\ asked.at = "sent" /\ asked.of = i /\ asked.kind = kind
    BY <2>2 DEF Requests, Kinds
  <2>4. req' = [req EXCEPT ![s] = asked] BY <2>1 DEF Send
  <2>5. req \in [Slots -> Requests] BY DEF ServerInv, RequestsInv
  <2> HIDE DEF asked
  <2>6. req' \in [Slots -> Requests] /\ \A r \in Slots : req'[r] = req[r] \/ req'[r] = asked
    BY <2>3, <2>4, <2>5
  <2>8. ClientMoves BY <2>1, <2>3, <2>6 DEF ClientMoves
  <2> QED BY <1>2, <2>8, ClientsKeep
<1>3. issued[i] \in 0 .. MaxTokens BY DEF ServerInv, Tables, TablesOK
<1>4. 1 .. issued[i] \subseteq 0 .. MaxTokens BY <1>3
<1> QED BY <1>1, <1>2, <1>4 DEF AnyClientSends, Kinds

LEMMA HearingKeeps ==
  ASSUME NEW s \in Slots, ServerInv, AnyClientHears(s)
  PROVE  ServerInv'
BY ClientsKeep
   DEF AnyClientHears, ClientMoves, NoRequest, Requests, Kinds, ServerInv, RequestsInv

LEMMA HandlersKeep ==
  ASSUME NEW s \in Slots, ServerInv, Handle(s) \/ RequestFails(s)
  PROVE  Handled(s)
BY LookRefreshKeeps, RotateKeeps, RevokeReusedKeeps, LookPollKeeps, RedeemKeeps,
   LookCancelKeeps, WithdrawKeeps, FailureKeeps DEF Handle

LEMMA ConsoleKeeps ==
  ASSUME ServerInv, Console
  PROVE  ServerInv' /\ Later /\ UNCHANGED req
<1>0. Tables BY DEF ServerInv
<1>1. ASSUME NEW u \in Users, NEW i \in Installations, Resolve(u, i) PROVE ServerInv' /\ Later /\ UNCHANGED req
  BY <1>0, <1>1, ResolutionKeeps, TablesMove DEF Resolve
<1>2. ASSUME NEW u \in Users, NEW i \in Installations, Approve(u, i) PROVE ServerInv' /\ Later /\ UNCHANGED req
  BY <1>0, <1>2, ApprovalKeeps, TablesMove DEF Approve
<1>3. ASSUME NEW u \in Users, NEW i \in Installations, Deny(u, i) PROVE ServerInv' /\ Later /\ UNCHANGED req
  <2>1. inst[i] = "pending" BY <1>0, <1>3 DEF Deny, Tables, Life
  <2> QED BY <1>0, <1>3, <2>1, DeletionKeeps, TablesMove DEF Deny
<1>4. ASSUME NEW i \in Installations, Revoke(i) PROVE ServerInv' /\ Later /\ UNCHANGED req
  BY <1>0, <1>4, RevocationKeeps, TablesMove DEF Revoke
<1>5. ASSUME NEW i \in Installations, Expire(i) PROVE ServerInv' /\ Later /\ UNCHANGED req
  <2>1. late' \subseteq Installations BY <1>0, <1>5 DEF Expire, Tables, TablesOK
  <2>2. eligible' \subseteq Users BY <1>0, <1>5 DEF Expire, Tables, TablesOK
  <2> QED BY <1>0, <1>5, <2>1, <2>2, QuietKeeps, TablesMove DEF Expire
<1>6. ASSUME NEW u \in Users, SetAccount(u) PROVE ServerInv' /\ Later /\ UNCHANGED req
  <2>1. late' \subseteq Installations /\ eligible' \subseteq Users
    BY <1>0, <1>6 DEF SetAccount, Tables, TablesOK, enrolmentVars
  <2>2. UNCHANGED <<auth, resolver, grants, tokenVars, familyVars, owner, req>>
    BY <1>6 DEF SetAccount, enrolmentVars
  <2> QED BY <1>0, <2>1, <2>2, QuietKeeps, TablesMove
<1> QED BY <1>1, <1>2, <1>3, <1>4, <1>5, <1>6 DEF Console

LEMMA ServerStarts == ServerInit => ServerInv
<1> SUFFICES ASSUME ServerInit PROVE ServerInv OBVIOUS
<1> USE DEF ServerInit
<1>1. PICK u \in Users :
        resolver = [i \in Installations |-> IF i \in Connected THEN u ELSE NoOne]
  OBVIOUS
<1>2. TablesOK BY <1>1 DEF TablesOK
<1>3. ASSUME NEW i \in Installations PROVE Life(i) /\ Tokens(i)
  BY <1>1 DEF Life, Tokens, Left
<1>4. RequestsInv BY DEF RequestsInv, NoRequest, Requests, Kinds, Asked
<1> QED BY <1>2, <1>3, <1>4 DEF ServerInv, Tables

-----------------------------------------------------------------------------
(* What the invariant says in the words of the properties.                 *)
LEMMA InvImplies ==
  ASSUME ServerInv
  PROVE  /\ PlatformTypeOK /\ OneUsableToken /\ ReuseEndsFamily /\ GrantedOnce /\ CancelIsFinal
<1> USE DEF ServerInv, Tables
<1>1. PlatformTypeOK BY DEF TablesOK, RequestsInv, PlatformTypeOK
<1>2. OneUsableToken
  <2> SUFFICES ASSUME NEW i \in Installations
               PROVE  Cardinality((1 .. issued[i]) \ (used[i] \cup revoked[i])) <= 1
    BY DEF OneUsableToken
  <2> DEFINE L == (1 .. issued[i]) \ (used[i] \cup revoked[i])
  <2>1. \A j, k \in L : j = k BY DEF Tokens, Left
  <2>2. CASE L = {}
    <3>1. Cardinality({}) = 0 BY FS_EmptySet
    <3> QED BY <2>2, <3>1
  <2>3. CASE L # {}
    <3>1. PICK k \in L : TRUE BY <2>3
    <3>2. L = {k} BY <2>1, <3>1
    <3>3. Cardinality({k}) = 1 BY FS_Singleton
    <3> QED BY <3>2, <3>3
  <2> QED BY <2>2, <2>3
<1>3. ReuseEndsFamily BY DEF TablesOK, Tokens, ReuseEndsFamily
<1>4. GrantedOnce BY DEF Life, GrantedOnce
<1>5. CancelIsFinal BY DEF RequestsInv, Asked, CancelIsFinal, Is
<1> QED BY <1>1, <1>2, <1>3, <1>4, <1>5

LEMMA ServerKeeps == ServerInv /\ [ServerNext]_serverVars => ServerInv'
<1> SUFFICES ASSUME ServerInv, [ServerNext]_serverVars PROVE ServerInv' OBVIOUS
<1>1. CASE UNCHANGED serverVars
  <2>1. UNCHANGED tables /\ UNCHANGED req BY <1>1 DEF serverVars
  <2> QED BY <2>1, TablesStay, TablesMove DEF ServerInv
<1>2. CASE ServerNext
  BY <1>2, HandlersKeep, HearingKeeps, AnyClientKeeps, ConsoleKeeps DEF ServerNext, Handled
<1> QED BY <1>1, <1>2

THEOREM ServerCorrect == ServerSpec => []ServerInv
BY ServerStarts, ServerKeeps, PTL DEF ServerSpec

(* handleRefreshGrant() leaves at most one token of a family to exchange,  *)
(* for any number of clients, tokens and overlapping requests.             *)
THEOREM OneTokenLeft == ServerSpec => []OneUsableToken
BY ServerCorrect, InvImplies, PTL

(* revokeReusedFamily() ends every family of which a token was exchanged   *)
(* twice.                                                                  *)
THEOREM ReuseDetected == ServerSpec => []ReuseEndsFamily
BY ServerCorrect, InvImplies, PTL

(* handleDeviceGrant() redeems an authorization once, for the user who     *)
(* resolved and approved it.                                               *)
THEOREM AuthorizationsRedeemedOnce == ServerSpec => []GrantedOnce
BY ServerCorrect, InvImplies, PTL

(* Whoever is told that a cancellation is done has no installation left.   *)
THEOREM CancellationsFinal == ServerSpec => []CancelIsFinal
BY ServerCorrect, InvImplies, PTL
=============================================================================
