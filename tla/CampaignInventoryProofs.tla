---------------------- MODULE CampaignInventoryProofs ----------------------
(***************************************************************************)
(* A router's copy of the inventory is one version of it and never goes    *)
(* back, for any number of routers, campaigns and changes.                 *)
(***************************************************************************)
EXTENDS CampaignInventory, TLAPS

(* The types the arguments need.                                           *)
RefreshShapes ==
  [step : Steps, attempt : Nat, before : Nat, next : SUBSET Campaigns, after : Nat]

ShapeOK ==
  /\ content \in Seq(SUBSET Campaigns) /\ Version # 0
  /\ mode \in [Routers -> {"down", "starting", "serving", "stopping"}]
  /\ applied \in [Routers -> Nat]
  /\ cache \in [Routers -> SUBSET Campaigns]
  /\ refresh \in [Routers -> [Refreshes -> RefreshShapes]]

(* What a refresh has read: its copy is the inventory at some moment       *)
(* between its two reads of the version.                                   *)
ReadSound(state) ==
  /\ state.step \in {"listing", "rereading", "comparing"} =>
       state.before # 0 /\ state.before <= Version
  /\ state.step = "rereading" =>
       \E v \in state.before..Version : state.next = content[v]
  /\ state.step = "comparing" =>
       /\ state.before <= state.after /\ state.after <= Version
       /\ \E v \in state.before..state.after : state.next = content[v]

RefreshSound == \A p \in Routers : \A f \in Refreshes : ReadSound(refresh[p][f])

CacheInv == ShapeOK /\ RefreshSound /\ CacheIsOneVersion

LEMMA CacheInit == Init => CacheInv
<1> SUFFICES ASSUME Init PROVE CacheInv
  OBVIOUS
<1>1. PICK listed \in SUBSET Campaigns : content = <<listed>>
  BY DEF Init
<1>2. content \in Seq(SUBSET Campaigns) /\ Version = 1
  BY <1>1 DEF Version
<1>3. ShapeOK
  BY <1>2 DEF Init, ShapeOK, RefreshShapes, Idle, Steps
<1>4. RefreshSound
  BY DEF Init, RefreshSound, ReadSound, Idle
<1>5. CacheIsOneVersion
  BY DEF Init, CacheIsOneVersion
<1>6. QED
  BY <1>3, <1>4, <1>5 DEF CacheInv

(* Only a change touches the versions, and it leaves the old ones alone.   *)
LEMMA ChangeAppends ==
  ASSUME ShapeOK, NEW c \in Campaigns, NEW by, ChangeInventory(c, by)
  PROVE  /\ content' \in Seq(SUBSET Campaigns)
         /\ Version' = Version + 1
         /\ \A v \in 1..Version : content'[v] = content[v]
<1>1. PICK listed \in SUBSET Campaigns : content' = Append(content, listed)
  <2>1. content[Version] \in SUBSET Campaigns
    BY DEF ShapeOK, Version
  <2>2. QED
    BY <2>1 DEF ChangeInventory
<1>2. QED
  BY <1>1 DEF ShapeOK, Version

LEMMA ForgetKeepsCacheInv ==
  ASSUME CacheInv, NEW p \in Routers, Forget(p)
  PROVE  CacheInv'
BY DEF CacheInv, ShapeOK, RefreshShapes, RefreshSound, ReadSound, CacheIsOneVersion,
       Forget, Idle, Steps, Version

(* It is enough that the one refresh that moves has read soundly.          *)
LEMMA RefreshMoves ==
  ASSUME ShapeOK, RefreshSound, NEW p \in Routers, NEW f \in Refreshes,
         NEW state \in RefreshShapes, ReadSound(state), Becomes(p, f, state),
         UNCHANGED content
  PROVE  /\ RefreshSound'
         /\ refresh' \in [Routers -> [Refreshes -> RefreshShapes]]
<1>1. refresh' \in [Routers -> [Refreshes -> RefreshShapes]]
  BY DEF ShapeOK, Becomes
<1>2. ASSUME NEW q \in Routers, NEW g \in Refreshes
      PROVE  ReadSound(refresh[q][g])'
  <2>1. refresh'[q][g] = state \/ refresh'[q][g] = refresh[q][g]
    BY DEF ShapeOK, Becomes
  <2>2. ReadSound(refresh[q][g])
    BY DEF RefreshSound
  <2>3. QED
    BY <2>1, <2>2 DEF ReadSound, Version
<1>3. QED
  BY <1>1, <1>2 DEF RefreshSound

LEMMA IdleIsSound == Idle \in RefreshShapes /\ ReadSound(Idle)
BY DEF Idle, RefreshShapes, ReadSound, Steps

LEMMA ReadingIsSound ==
  ASSUME NEW n \in Nat
  PROVE  LET state == [Idle EXCEPT !.step = "reading", !.attempt = n] IN
         state \in RefreshShapes /\ ReadSound(state)
BY DEF Idle, RefreshShapes, ReadSound, Steps

LEMMA BeginMoves ==
  ASSUME ShapeOK, RefreshSound, NEW p \in Routers, NEW f \in Refreshes,
         Begin(p, f), UNCHANGED content
  PROVE  /\ RefreshSound'
         /\ refresh' \in [Routers -> [Refreshes -> RefreshShapes]]
<1> DEFINE state == [Idle EXCEPT !.step = "reading"]
<1>1. state \in RefreshShapes /\ ReadSound(state)
  BY DEF Idle, RefreshShapes, ReadSound, Steps
<1>2. Becomes(p, f, state)
  BY DEF Begin, Becomes
<1>3. QED
  BY <1>1, <1>2, RefreshMoves

(* Reading moves the refresh on with what the database holds now.          *)
LEMMA ReadMoves ==
  ASSUME ShapeOK, RefreshSound, NEW p \in Routers, NEW f \in Refreshes,
         ReadVersion(p, f) \/ ListCampaigns(p, f) \/ RereadVersion(p, f)
  PROVE  /\ RefreshSound'
         /\ refresh' \in [Routers -> [Refreshes -> RefreshShapes]]
<1> DEFINE old == refresh[p][f]
<1>1. /\ old \in RefreshShapes /\ ReadSound(old)
      /\ Version \in Nat /\ Version # 0 /\ content[Version] \in SUBSET Campaigns
  BY DEF ShapeOK, RefreshSound, Version
<1>2. UNCHANGED content
  BY DEF ReadVersion, ListCampaigns, RereadVersion
<1>3. CASE ReadVersion(p, f)
  <2> DEFINE state == [old EXCEPT !.step = "listing", !.before = Version]
  <2>1. state \in RefreshShapes /\ state.step = "listing" /\ state.before = Version
    BY <1>1 DEF RefreshShapes, Steps
  <2>2. Becomes(p, f, state)
    BY <1>3 DEF ReadVersion
  <2> HIDE DEF state
  <2>3. ReadSound(state)
    BY <1>1, <2>1 DEF ReadSound
  <2>4. QED
    BY <1>2, <2>1, <2>2, <2>3, RefreshMoves
<1>4. CASE ListCampaigns(p, f)
  <2> DEFINE state == [old EXCEPT !.step = "rereading", !.next = content[Version]]
  <2>1. state \in RefreshShapes /\ state.before \in Nat /\ state.before # 0
    BY <1>1, <1>4 DEF RefreshShapes, Steps, ListCampaigns, At, ReadSound
  <2>2. state.before <= Version /\ Version \in state.before..Version
    BY <1>1, <1>4, <2>1 DEF RefreshShapes, ListCampaigns, At, ReadSound
  <2>3. state.step = "rereading" /\ state.next = content[Version]
    BY <1>1 DEF RefreshShapes
  <2>4. ReadSound(state)
    BY <2>1, <2>2, <2>3 DEF ReadSound
  <2>5. Becomes(p, f, state)
    BY <1>4 DEF ListCampaigns
  <2>6. QED
    BY <1>2, <2>1, <2>4, <2>5, RefreshMoves
<1>5. CASE RereadVersion(p, f)
  <2> DEFINE state == [old EXCEPT !.step = "comparing", !.after = Version]
  <2>1. /\ state \in RefreshShapes /\ state.step = "comparing" /\ state.after = Version
        /\ state.before = old.before /\ state.next = old.next
    BY <1>1 DEF RefreshShapes, Steps
  <2>2. /\ old.before # 0 /\ old.before <= Version
        /\ \E v \in old.before..Version : old.next = content[v]
    BY <1>1, <1>5 DEF ReadSound, RereadVersion, At
  <2>3. Becomes(p, f, state)
    BY <1>5 DEF RereadVersion
  <2> HIDE DEF state, old
  <2>4. ReadSound(state)
    BY <1>1, <2>1, <2>2 DEF ReadSound
  <2>5. QED
    BY <1>2, <2>1, <2>3, <2>4, RefreshMoves
<1>6. QED
  BY <1>3, <1>4, <1>5

LEMMA CacheStep == CacheInv /\ [Next]_vars => CacheInv'
<1> SUFFICES ASSUME CacheInv, [Next]_vars PROVE CacheInv'
  OBVIOUS
<1>0. ShapeOK /\ RefreshSound /\ CacheIsOneVersion
  BY DEF CacheInv
<1>00. ASSUME UNCHANGED <<content, cache, applied>>,
              mode' \in [Routers -> {"down", "starting", "serving", "stopping"}],
              RefreshSound', refresh' \in [Routers -> [Refreshes -> RefreshShapes]]
       PROVE  CacheInv'
  BY <1>0, <1>00 DEF CacheInv, ShapeOK, CacheIsOneVersion, Version
<1>1. ASSUME NEW c \in Campaigns, NEW by, ChangeInventory(c, by) PROVE CacheInv'
  <2>1. /\ content' \in Seq(SUBSET Campaigns)
        /\ Version' = Version + 1
        /\ \A v \in 1..Version : content'[v] = content[v]
    BY <1>0, <1>1, ChangeAppends
  <2>2. Version \in Nat /\ Version # 0 /\ UNCHANGED <<mode, cache, applied, refresh>>
    BY <1>0, <1>1 DEF ChangeInventory, ShapeOK, Version
  <2>3. ShapeOK'
    BY <1>0, <2>1, <2>2 DEF ShapeOK
  <2>4. CacheIsOneVersion'
    BY <1>0, <2>1, <2>2 DEF ShapeOK, CacheIsOneVersion
  <2>5. ASSUME NEW p \in Routers, NEW f \in Refreshes
        PROVE  ReadSound(refresh[p][f])'
    <3>1. ReadSound(refresh[p][f]) /\ refresh'[p][f] = refresh[p][f]
      BY <1>0, <2>2 DEF RefreshSound
    <3>2. refresh[p][f].before \in Nat /\ refresh[p][f].after \in Nat
      BY <1>0 DEF ShapeOK, RefreshShapes
    <3>3. QED
      BY <2>1, <2>2, <3>1, <3>2 DEF ReadSound
  <2>6. QED
    BY <2>3, <2>4, <2>5 DEF CacheInv, RefreshSound
<1>2. ASSUME NEW p \in Routers, NEW f \in Refreshes,
             ReadVersion(p, f) \/ ListCampaigns(p, f) \/ RereadVersion(p, f)
      PROVE  CacheInv'
  <2>1. UNCHANGED <<content, mode, cache, applied>>
    BY <1>2 DEF ReadVersion, ListCampaigns, RereadVersion
  <2>2. QED
    BY <1>0, <1>00, <1>2, <2>1, ReadMoves DEF ShapeOK
<1>3. ASSUME NEW p \in Routers, NEW f \in Refreshes, Apply(p, f) PROVE CacheInv'
  <2>1. ReadSound(refresh[p][f]) /\ refresh[p][f] \in RefreshShapes
    BY <1>0 DEF RefreshSound, ShapeOK
  <2>2. /\ refresh[p][f].after \in Nat /\ refresh[p][f].next \in SUBSET Campaigns
        /\ refresh[p][f].after <= Version
        /\ refresh[p][f].next = content[refresh[p][f].after]
    BY <1>3, <2>1 DEF Apply, At, Agree, ReadSound, RefreshShapes
  <2>3. RefreshSound' /\ refresh' \in [Routers -> [Refreshes -> RefreshShapes]]
    BY <1>0, <1>3, IdleIsSound, RefreshMoves DEF Apply
  <2>4. ShapeOK'
    BY <1>0, <1>3, <2>2, <2>3 DEF Apply, ShapeOK, Version
  <2>5. CacheIsOneVersion'
    BY <1>0, <1>3, <2>2 DEF Apply, ShapeOK, CacheIsOneVersion, Version
  <2>6. QED
    BY <2>3, <2>4, <2>5 DEF CacheInv
<1>4. ASSUME NEW p \in Routers, NEW f \in Refreshes, Retry(p, f) PROVE CacheInv'
  <2>1. refresh[p][f].attempt + 1 \in Nat
    BY <1>0 DEF ShapeOK, RefreshShapes
  <2>2. RefreshSound' /\ refresh' \in [Routers -> [Refreshes -> RefreshShapes]]
    BY <1>0, <1>4, <2>1, ReadingIsSound, RefreshMoves DEF Retry
  <2>3. QED
    BY <1>0, <1>00, <1>4, <2>2 DEF Retry, ShapeOK
<1>5. ASSUME NEW p \in Routers, NEW f \in Refreshes, Exhaust(p, f) \/ Fail(p, f)
      PROVE  CacheInv'
  <2>1. CASE Forget(p)
    BY <2>1, ForgetKeepsCacheInv
  <2>2. CASE Becomes(p, f, Idle) /\ UNCHANGED <<content, mode, cache, applied>>
    <3>1. RefreshSound' /\ refresh' \in [Routers -> [Refreshes -> RefreshShapes]]
      BY <1>0, <2>2, IdleIsSound, RefreshMoves
    <3>2. QED
      BY <1>0, <1>00, <2>2, <3>1 DEF ShapeOK
  <2>3. QED
    BY <1>5, <2>1, <2>2 DEF Exhaust, Fail, GiveUpRefresh
<1>6. ASSUME NEW p \in Routers, Exit(p) \/ Crash(p) PROVE CacheInv'
  BY <1>6, ForgetKeepsCacheInv DEF Exit, Crash
<1>7. ASSUME NEW p \in Routers, Start(p) PROVE CacheInv'
  <2>1. RefreshSound' /\ refresh' \in [Routers -> [Refreshes -> RefreshShapes]]
    BY <1>0, <1>7, BeginMoves DEF Start
  <2>2. QED
    BY <1>0, <1>00, <1>7, <2>1 DEF Start, ShapeOK
<1>8. CASE UNCHANGED <<content, cache, applied, refresh>> /\
           mode' \in [Routers -> {"down", "starting", "serving", "stopping"}]
  BY <1>0, <1>8 DEF CacheInv, ShapeOK, RefreshSound, ReadSound, CacheIsOneVersion, Version
<1>9. ASSUME NEW p \in Routers, Request(p) \/ UNCHANGED refresh,
             UNCHANGED <<content, mode, cache, applied>>
      PROVE  CacheInv'
  <2>1. CASE UNCHANGED refresh
    BY <1>0, <1>8, <1>9, <2>1 DEF ShapeOK
  <2>2. ASSUME NEW f \in Refreshes, Begin(p, f) PROVE CacheInv'
    BY <1>0, <1>00, <1>9, <2>2, BeginMoves DEF ShapeOK
  <2>3. QED
    BY <1>9, <2>1, <2>2 DEF Request
<1>10. ASSUME NEW p \in Routers, Stop(p) PROVE CacheInv'
  BY <1>0, <1>8, <1>10 DEF Stop, ShapeOK
<1>11. CASE UNCHANGED <<content, mode, cache, applied, refresh>>
  BY <1>0, <1>8, <1>11 DEF ShapeOK
<1>12. QED
  BY <1>1, <1>2, <1>3, <1>4, <1>5, <1>6, <1>7, <1>9, <1>10, <1>11
     DEF Next, RefreshStep, OwnerChanges, OthersChange, MutationRequests,
         ListenerConnects, ListenerBreaks, Notified, PollReads, PollCompares, vars

(* A router's campaigns are those of the version it reports as applied,    *)
(* however many changes fall between the three reads of a refresh.         *)
THEOREM CacheNeverMixed == Spec => []CacheIsOneVersion
<1>1. CacheInv => CacheIsOneVersion
  BY DEF CacheInv
<1>2. QED
  BY <1>1, CacheInit, CacheStep, PTL DEF Spec

-----------------------------------------------------------------------------
(***************************************************************************)
(* Order of the refreshes.                                                 *)
(***************************************************************************)

(* One refresh at a time, and what it has read is no older than the copy.  *)
SingleFlight ==
  \A p \in Routers : \A f, g \in Refreshes :
    refresh[p][f].step # "idle" /\ refresh[p][g].step # "idle" => f = g
DownIsIdle ==
  \A p \in Routers : mode[p] = "down" => ~InFlight(p)
NotAhead ==
  \A p \in Routers : \A f \in Refreshes :
    refresh[p][f].step \in {"listing", "rereading", "comparing"} =>
      applied[p] <= refresh[p][f].before

OrderInv == SingleFlight /\ DownIsIdle /\ NotAhead

LEMMA OrderInit == Init => OrderInv
BY DEF Init, OrderInv, SingleFlight, DownIsIdle, NotAhead, InFlight, Idle

LEMMA ForgetKeepsOrder ==
  ASSUME ShapeOK, OrderInv, NEW p \in Routers, Forget(p)
  PROVE  OrderInv'
BY DEF ShapeOK, OrderInv, SingleFlight, DownIsIdle, NotAhead, InFlight, Forget, Idle

LEMMA BeginKeepsOrder ==
  ASSUME ShapeOK, OrderInv, NEW p \in Routers, NEW f \in Refreshes, Begin(p, f),
         ~InFlight(p), UNCHANGED applied, mode'[p] # "down",
         \A q \in Routers : q # p => mode'[q] = mode[q]
  PROVE  OrderInv'
<1>1. /\ refresh'[p][f].step = "reading"
      /\ \A g \in Refreshes : g # f => refresh'[p][g] = refresh[p][g]
      /\ \A q \in Routers : q # p => refresh'[q] = refresh[q]
  BY DEF ShapeOK, Begin, Idle
<1>2. QED
  BY <1>1 DEF OrderInv, SingleFlight, DownIsIdle, NotAhead, InFlight

(* A step of a refresh that is running, to a state that is not ahead.      *)
LEMMA MoveKeepsOrder ==
  ASSUME ShapeOK, OrderInv, NEW p \in Routers, NEW f \in Refreshes,
         NEW state \in RefreshShapes, Becomes(p, f, state), UNCHANGED <<mode, applied>>,
         refresh[p][f].step # "idle",
         state.step \in {"listing", "rereading", "comparing"} => applied[p] <= state.before
  PROVE  OrderInv'
<1>1. /\ refresh'[p][f] = state
      /\ \A g \in Refreshes : g # f => refresh'[p][g] = refresh[p][g]
      /\ \A q \in Routers : q # p => refresh'[q] = refresh[q]
  BY DEF ShapeOK, Becomes
<1>2. QED
  BY <1>1 DEF OrderInv, SingleFlight, DownIsIdle, NotAhead, InFlight

LEMMA OrderStep == CacheInv /\ OrderInv /\ [Next]_vars => OrderInv'
<1> SUFFICES ASSUME CacheInv, OrderInv, [Next]_vars PROVE OrderInv'
  OBVIOUS
<1>0. ShapeOK /\ RefreshSound /\ CacheIsOneVersion
  BY DEF CacheInv
<1>1. ASSUME NEW p \in Routers, NEW f \in Refreshes, ReadVersion(p, f) PROVE OrderInv'
  <2> DEFINE state == [refresh[p][f] EXCEPT !.step = "listing", !.before = Version]
  <2>1. refresh[p][f] \in RefreshShapes /\ Version \in Nat /\ applied[p] \in Nat
    BY <1>0 DEF ShapeOK, Version
  <2>2. state \in RefreshShapes /\ state.before = Version
    BY <2>1 DEF RefreshShapes, Steps
  <2>3. applied[p] <= Version
    BY <1>0, <2>1 DEF CacheIsOneVersion
  <2>4. Becomes(p, f, state) /\ refresh[p][f].step # "idle" /\ UNCHANGED <<mode, applied>>
    BY <1>1 DEF ReadVersion, At
  <2> HIDE DEF state
  <2>5. QED
    BY <1>0, <2>2, <2>3, <2>4, MoveKeepsOrder
<1>2. ASSUME NEW p \in Routers, NEW f \in Refreshes,
             ListCampaigns(p, f) \/ RereadVersion(p, f)
      PROVE  OrderInv'
  <2>1. refresh[p][f] \in RefreshShapes /\ Version \in Nat /\ content[Version] \in SUBSET Campaigns
    BY <1>0 DEF ShapeOK, Version
  <2>2. /\ applied[p] <= refresh[p][f].before
        /\ refresh[p][f].step # "idle"
        /\ UNCHANGED <<mode, applied>>
    BY <1>2 DEF ListCampaigns, RereadVersion, At, OrderInv, NotAhead
  <2>3. PICK state \in RefreshShapes :
          Becomes(p, f, state) /\ state.before = refresh[p][f].before
    <3>1. /\ [refresh[p][f] EXCEPT !.step = "rereading", !.next = content[Version]] \in RefreshShapes
          /\ [refresh[p][f] EXCEPT !.step = "rereading", !.next = content[Version]].before
               = refresh[p][f].before
          /\ [refresh[p][f] EXCEPT !.step = "comparing", !.after = Version] \in RefreshShapes
          /\ [refresh[p][f] EXCEPT !.step = "comparing", !.after = Version].before
               = refresh[p][f].before
      BY <2>1 DEF RefreshShapes, Steps
    <3>2. QED
      BY <1>2, <3>1 DEF ListCampaigns, RereadVersion
  <2>4. QED
    BY <1>0, <2>2, <2>3, MoveKeepsOrder
<1>3. ASSUME NEW p \in Routers, NEW f \in Refreshes, Apply(p, f) PROVE OrderInv'
  <2>1. /\ refresh'[p][f].step = "idle"
        /\ \A g \in Refreshes : g # f => refresh'[p][g] = refresh[p][g]
        /\ \A q \in Routers : q # p => refresh'[q] = refresh[q] /\ applied'[q] = applied[q]
    BY <1>0, <1>3 DEF Apply, Becomes, ShapeOK, Idle
  <2>2. \A g \in Refreshes : refresh'[p][g].step = "idle"
    BY <1>3, <2>1 DEF Apply, At, OrderInv, SingleFlight
  <2>3. \A q \in Routers : mode'[q] = "down" => q # p /\ mode[q] = "down"
    BY <1>0, <1>3 DEF Apply, At, ShapeOK, OrderInv, DownIsIdle, InFlight
  <2>4. QED
    BY <2>1, <2>2, <2>3 DEF OrderInv, SingleFlight, DownIsIdle, NotAhead, InFlight
<1>4. ASSUME NEW p \in Routers, NEW f \in Refreshes, Retry(p, f) PROVE OrderInv'
  <2>1. refresh[p][f].attempt + 1 \in Nat
    BY <1>0 DEF ShapeOK, RefreshShapes
  <2> DEFINE state == [Idle EXCEPT !.step = "reading", !.attempt = refresh[p][f].attempt + 1]
  <2>2. state \in RefreshShapes /\ state.step = "reading"
    BY <2>1 DEF Idle, RefreshShapes, Steps
  <2>3. Becomes(p, f, state) /\ refresh[p][f].step # "idle" /\ UNCHANGED <<mode, applied>>
    BY <1>4 DEF Retry, At
  <2> HIDE DEF state
  <2>4. QED
    BY <1>0, <2>2, <2>3, MoveKeepsOrder
<1>5. ASSUME NEW p \in Routers, NEW f \in Refreshes, Exhaust(p, f) \/ Fail(p, f)
      PROVE  OrderInv'
  <2>1. refresh[p][f].step # "idle"
    BY <1>5 DEF Exhaust, Fail, At
  <2>2. CASE Forget(p)
    BY <1>0, <2>2, ForgetKeepsOrder
  <2>3. CASE Becomes(p, f, Idle) /\ UNCHANGED <<mode, applied>>
    <3>1. Idle \in RefreshShapes /\ Idle.step = "idle"
      BY DEF Idle, RefreshShapes, Steps
    <3>2. QED
      BY <1>0, <2>1, <2>3, <3>1, MoveKeepsOrder
  <2>4. QED
    BY <1>5, <2>2, <2>3 DEF Exhaust, Fail, GiveUpRefresh
<1>6. ASSUME NEW p \in Routers, Exit(p) \/ Crash(p) PROVE OrderInv'
  BY <1>0, <1>6, ForgetKeepsOrder DEF Exit, Crash
<1>7. ASSUME NEW p \in Routers, Start(p) PROVE OrderInv'
  <2>1. ~InFlight(p)
    BY <1>7 DEF Start, OrderInv, DownIsIdle
  <2>2. /\ UNCHANGED applied /\ mode'[p] # "down"
        /\ \A q \in Routers : q # p => mode'[q] = mode[q]
    BY <1>0, <1>7 DEF Start, ShapeOK
  <2>3. QED
    BY <1>0, <1>7, <2>1, <2>2, BeginKeepsOrder DEF Start
<1>8. CASE UNCHANGED <<mode, applied, refresh>>
  BY <1>8 DEF OrderInv, SingleFlight, DownIsIdle, NotAhead, InFlight
<1>9. ASSUME NEW p \in Routers, Request(p) \/ UNCHANGED refresh, UNCHANGED <<mode, applied>>
      PROVE  OrderInv'
  <2>1. ASSUME NEW f \in Refreshes, Begin(p, f), mode[p] = "serving", ~InFlight(p)
        PROVE  OrderInv'
    BY <1>0, <1>9, <2>1, BeginKeepsOrder
  <2>2. QED
    BY <1>8, <1>9, <2>1 DEF Request
<1>10. ASSUME NEW p \in Routers, Stop(p) PROVE OrderInv'
  BY <1>0, <1>10 DEF Stop, ShapeOK, OrderInv, SingleFlight, DownIsIdle, NotAhead, InFlight
<1>11. QED
  BY <1>1, <1>2, <1>3, <1>4, <1>5, <1>6, <1>7, <1>8, <1>9, <1>10
     DEF Next, RefreshStep, OwnerChanges, OthersChange, ChangeInventory, MutationRequests,
         ListenerConnects, ListenerBreaks, Notified, PollReads, PollCompares, vars

(* A serving router's inventory only moves forward.                        *)
THEOREM InventoryMovesForward == Spec => NeverGoesBack
<1> DEFINE Forward == \A p \in Routers :
      mode[p] = "serving" /\ mode'[p] = "serving" => applied[p] <= applied'[p]
<1>1. CacheInv /\ OrderInv /\ [Next]_vars => [Forward]_vars
  <2> SUFFICES ASSUME CacheInv, OrderInv, Next PROVE Forward
    BY DEF Forward
  <2>0. ShapeOK /\ RefreshSound
    BY DEF CacheInv
  <2>1. ASSUME NEW p \in Routers, NEW f \in Refreshes, Apply(p, f) PROVE Forward
    <3>1. /\ refresh[p][f] \in RefreshShapes /\ applied[p] <= refresh[p][f].before
          /\ refresh[p][f].before = refresh[p][f].after
      BY <2>0, <2>1 DEF Apply, At, Agree, ShapeOK, OrderInv, NotAhead
    <3>2. QED
      BY <2>0, <2>1, <3>1 DEF Apply, ShapeOK, RefreshShapes
  <2>2. ASSUME NEW p \in Routers, Forget(p) PROVE Forward
    BY <2>0, <2>2 DEF Forget, ShapeOK
  <2>3. CASE UNCHANGED applied
    BY <2>0, <2>3 DEF ShapeOK
  <2>4. QED
    BY <2>1, <2>2, <2>3
       DEF Next, RefreshStep, ReadVersion, ListCampaigns, RereadVersion, Retry, Exhaust,
           Fail, GiveUpRefresh, OwnerChanges, OthersChange, ChangeInventory,
           MutationRequests, Start, Stop, Exit, Crash, ListenerConnects,
           ListenerBreaks, Notified, PollReads, PollCompares
<1>2. Spec => [](CacheInv /\ OrderInv)
  BY CacheInit, CacheStep, OrderInit, OrderStep, PTL DEF Spec
<1>3. QED
  BY <1>1, <1>2, PTL DEF Spec, NeverGoesBack

=============================================================================
