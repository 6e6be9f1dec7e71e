----------------------- MODULE InstallationAuthProofs -----------------------
(***************************************************************************)
(* Proofs about the desktop composed with the router.                      *)
(*                                                                         *)
(* To the router the desktop is one of its clients: whatever it does with  *)
(* its file, it presents only tokens that its family was issued, and polls *)
(* and cancels only authorizations that were created.  This is shown by an *)
(* invariant on everything the desktop remembers - its file, the copies of *)
(* it that flows hold, and their requests - and gives the router's         *)
(* properties to the composed system.                                      *)
(*                                                                         *)
(* The last part shows that overlapping operations and faults are the only *)
(* ways in which the desktop loses the token it goes on with.              *)
(***************************************************************************)
EXTENDS InstallationAuth, PlatformAuthProofs

USE PlatformAssumption
USE DEF Flights

HeldKnown(h) == h = Nothing \/ (h.of \in Installations /\ h.tok \in 1 .. issued[h.of])
PendKnown(p) == p = NoOne \/ (p \in Installations /\ auth[p] # "none")
FileKnown(g) == HeldKnown(g.held) /\ PendKnown(g.pend)

(* What flow f is about, at each place where it can be.                    *)
Places(f) ==
  CASE f \in Flights -> {"none", "asking", "rotate", "mark", "wipe"}
    [] f = "enrol" -> {"none", "store", "save", "waiting", "asking", "check", "complete", "clear",
                       "cancel", "withdraw", "tidy"}
    [] f = "leave" -> {"none", "look", "clear", "cancel"}

WorkKnown(f, w) ==
  /\ w.at \in Places(f)
  /\ w.snap # Unread => FileKnown(w.snap)
  /\ w.at = "asking" =>
       w.slot \in Slots /\ w.of \in Installations /\ req[w.slot].at # "idle" /\ req[w.slot].of = w.of
  /\ w.at \in {"rotate", "check", "complete"} =>
       w.of \in Installations /\ w.tok \in 1 .. issued[w.of]
  /\ f \notin Flights /\ w.at \notin {"none", "look"} => PendKnown(w.of)
  /\ f = "enrol" /\ w.at # "none" => w.of # NoOne
  /\ f = "leave" /\ w.at = "cancel" => w.of # NoOne

OwnSlots ==
  \A f, g \in Flows :
    flow[f].at = "asking" /\ flow[g].at = "asking" /\ flow[f].slot = flow[g].slot => f = g

FlowsInv == flow \in [Flows -> Work] /\ (\A f \in Flows : WorkKnown(f, flow[f])) /\ OwnSlots

StoreInv == file \in Files /\ FileKnown(file) /\ turn \in Held /\ HeldKnown(turn)

DesktopInv == StoreInv /\ FlowsInv

-----------------------------------------------------------------------------
(* What is known stays known.                                              *)
LEMMA HeldStays ==
  ASSUME NEW h, TablesOK, TablesOK', Later, HeldKnown(h)
  PROVE  HeldKnown(h)'
<1>1. CASE h = Nothing BY <1>1 DEF HeldKnown
<1>2. CASE h.of \in Installations /\ h.tok \in 1 .. issued[h.of]
  <2>1. issued[h.of] <= issued'[h.of] BY <1>2 DEF Later
  <2>2. issued[h.of] \in Nat /\ issued'[h.of] \in Nat BY <1>2 DEF TablesOK
  <2>3. h.tok \in 1 .. issued'[h.of] BY <1>2, <2>1, <2>2
  <2> QED BY <1>2, <2>3 DEF HeldKnown
<1> QED BY <1>1, <1>2 DEF HeldKnown

LEMMA PendStays ==
  ASSUME NEW p, Later, PendKnown(p)
  PROVE  PendKnown(p)'
BY DEF PendKnown, Later

LEMMA FileStays ==
  ASSUME NEW g, TablesOK, TablesOK', Later, FileKnown(g)
  PROVE  FileKnown(g)'
<1>1. HeldKnown(g.held) /\ PendKnown(g.pend) BY DEF FileKnown
<1>2. HeldKnown(g.held)' BY <1>1, HeldStays
<1>3. PendKnown(g.pend)' BY <1>1, PendStays
<1> QED BY <1>2, <1>3 DEF FileKnown

LEMMA WorkStays ==
  ASSUME NEW f, NEW w, TablesOK, TablesOK', Later, WorkKnown(f, w),
         w.at = "asking" => req'[w.slot].at # "idle" /\ req'[w.slot].of = w.of
  PROVE  WorkKnown(f, w)'
<1>1. w.snap # Unread => FileKnown(w.snap)' BY FileStays DEF WorkKnown
<1>2. PendKnown(w.of) => PendKnown(w.of)' BY PendStays
<1>3. w.at \in {"rotate", "check", "complete"} => w.tok \in 1 .. issued'[w.of]
  <2> SUFFICES ASSUME w.at \in {"rotate", "check", "complete"} PROVE w.tok \in 1 .. issued'[w.of]
    OBVIOUS
  <2>1. w.of \in Installations /\ w.tok \in 1 .. issued[w.of] BY DEF WorkKnown
  <2>2. issued[w.of] <= issued'[w.of] BY <2>1 DEF Later
  <2>3. issued[w.of] \in Nat /\ issued'[w.of] \in Nat BY <2>1 DEF TablesOK
  <2> QED BY <2>1, <2>2, <2>3
<1> QED BY <1>1, <1>2, <1>3 DEF WorkKnown

(* A step that moves flow f and no other.                                  *)
Only(f) == flow' \in [Flows -> Work] /\ \A g \in Flows \ {f} : flow'[g] = flow[g]

LEMMA OneFlowMoves ==
  ASSUME NEW f \in Flows, FlowsInv, TablesOK, TablesOK', Later, Only(f),
         WorkKnown(f, flow[f])',
         \A g \in Flows \ {f} : flow[g].at = "asking" =>
           /\ req'[flow[g].slot] = req[flow[g].slot]
           /\ flow'[f].at = "asking" => flow'[f].slot # flow[g].slot
  PROVE  FlowsInv'
<1>1. ASSUME NEW g \in Flows \ {f} PROVE WorkKnown(g, flow[g])'
  <2>1. WorkKnown(g, flow[g]) BY DEF FlowsInv
  <2> DEFINE w == flow[g]
  <2>2. w.at = "asking" => req'[w.slot].at # "idle" /\ req'[w.slot].of = w.of
    BY <2>1 DEF WorkKnown
  <2>3. flow'[g] = w BY DEF Only
  <2> QED BY <2>1, <2>2, <2>3, WorkStays DEF WorkKnown, FileKnown, HeldKnown, PendKnown
<1>2. OwnSlots' BY DEF FlowsInv, OwnSlots, Only
<1> QED BY <1>1, <1>2 DEF FlowsInv, Only

-----------------------------------------------------------------------------
(* The ways in which a flow moves.                                         *)
LEMMA GoesOnly ==
  ASSUME NEW f \in Flows, flow \in [Flows -> Work], FlowGoes(f, "save") \/ FlowGoes(f, "waiting")
           \/ FlowGoes(f, "clear") \/ FlowGoes(f, "cancel") \/ FlowGoes(f, "wipe")
           \/ FlowGoes(f, "withdraw") \/ FlowGoes(f, "tidy")
  PROVE  /\ Only(f)
         /\ flow'[f].of = flow[f].of /\ flow'[f].tok = flow[f].tok
         /\ flow'[f].slot = NoOne /\ flow'[f].snap = Unread
BY DEF Only, FlowGoes, Work, FileOps

LEMMA GoesTo ==
  ASSUME NEW f \in Flows, NEW at, flow \in [Flows -> Work], FlowGoes(f, at)
  PROVE  flow'[f].at = at
BY DEF FlowGoes, Work

LEMMA EndsOnly ==
  ASSUME NEW f \in Flows, flow \in [Flows -> Work], FlowEnds(f)
  PROVE  Only(f) /\ flow'[f] = NoFlow
<1>1. NoFlow \in Work BY DEF NoFlow, Work
<1> QED BY <1>1 DEF Only, FlowEnds

LEMMA NoFlowKnown ==
  ASSUME NEW f \in Flows
  PROVE  WorkKnown(f, NoFlow)
BY DEF WorkKnown, NoFlow, Flows, Places

LEMMA StoreStays ==
  ASSUME StoreInv, TablesOK, TablesOK', Later, UNCHANGED <<file, turn>>
  PROVE  StoreInv'
<1>1. FileKnown(file)' BY FileStays DEF StoreInv, FileKnown, HeldKnown, PendKnown
<1>2. HeldKnown(turn)' BY HeldStays DEF StoreInv, HeldKnown
<1> QED BY <1>1, <1>2 DEF StoreInv

LEMMA ServerQuiet ==
  ASSUME ServerInv, UNCHANGED tables
  PROVE  TablesOK /\ TablesOK' /\ Later
BY TablesStay DEF ServerInv, Tables

(* A step of flow f alone that sends no request.                           *)
LEMMA QuietFlow ==
  ASSUME NEW f \in Flows, ServerInv, UNCHANGED serverVars, DesktopInv, StoreInv',
         Only(f), WorkKnown(f, flow'[f]), flow'[f].at # "asking"
  PROVE  DesktopInv'
<1>1. TablesOK /\ TablesOK' /\ Later BY ServerQuiet DEF serverVars
<1>2. WorkKnown(f, flow[f])'
  BY DEF WorkKnown, FileKnown, HeldKnown, PendKnown, serverVars, tables, tokenVars, enrolmentVars
<1>3. \A g \in Flows \ {f} : flow[g].at = "asking" => req'[flow[g].slot] = req[flow[g].slot]
  BY DEF serverVars
<1> QED BY <1>1, <1>2, <1>3, OneFlowMoves DEF DesktopInv

(* The same when the flow ends.                                            *)
LEMMA QuietEnd ==
  ASSUME NEW f \in Flows, ServerInv, UNCHANGED serverVars, DesktopInv, StoreInv', FlowEnds(f)
  PROVE  DesktopInv'
<1>1. Only(f) /\ flow'[f] = NoFlow BY EndsOnly DEF DesktopInv, FlowsInv
<1>2. WorkKnown(f, flow'[f]) /\ flow'[f].at # "asking" BY <1>1, NoFlowKnown DEF NoFlow
<1> QED BY <1>1, <1>2, QuietFlow

(* The file that a flow has read and writes back is known.                 *)
LEMMA SnapKnown ==
  ASSUME NEW f \in Flows, DesktopInv, Snap(f) # Unread
  PROVE  Snap(f) \in Files /\ FileKnown(Snap(f))
<1>1. flow[f] \in Work /\ WorkKnown(f, flow[f]) BY DEF DesktopInv, FlowsInv
<1> QED BY <1>1 DEF Work, WorkKnown, Snap

-----------------------------------------------------------------------------
(* The steps that leave the router alone.                                  *)
IInv == ServerInv /\ DesktopInv

LEMMA ReadsKeeps ==
  ASSUME NEW f \in Flows, IInv, Reads(f)
  PROVE  DesktopInv'
<1> USE DEF IInv, DesktopInv
<1>1. UNCHANGED serverVars /\ UNCHANGED <<file, turn>> BY DEF Reads
<1>2. StoreInv' BY <1>1, ServerQuiet, StoreStays DEF serverVars
<1>3. flow[f] \in Work /\ WorkKnown(f, flow[f]) /\ flow[f].at \in FileOps BY DEF FlowsInv, Reads
<1>4. /\ Only(f) /\ flow'[f].snap = file
      /\ flow'[f].at = flow[f].at /\ flow'[f].of = flow[f].of /\ flow'[f].tok = flow[f].tok
  BY DEF Reads, Only, FlowsInv, StoreInv, Work
<1>5. WorkKnown(f, flow'[f]) /\ flow'[f].at # "asking"
  BY <1>3, <1>4 DEF WorkKnown, StoreInv, FileOps
<1> QED BY <1>1, <1>2, <1>4, <1>5, QuietFlow

LEMMA FlowlessKeeps ==
  ASSUME IInv, UNCHANGED <<serverVars, file, flow>>, turn' \in {turn, file.held, Nothing}
  PROVE  DesktopInv'
<1> USE DEF IInv, DesktopInv
<1>1. TablesOK /\ TablesOK' /\ Later BY ServerQuiet DEF serverVars
<1>2. StoreInv'
  <2>1. FileKnown(file)' BY <1>1, FileStays DEF StoreInv, FileKnown, HeldKnown, PendKnown
  <2>2. Nothing \in Held /\ HeldKnown(Nothing) BY DEF Nothing, Held, HeldKnown
  <2>3. turn' \in Held /\ HeldKnown(turn')
    BY <2>2 DEF StoreInv, Files, FileKnown
  <2>4. HeldKnown(turn)' BY <2>3 DEF HeldKnown, serverVars, tables, tokenVars
  <2> QED BY <2>1, <2>3, <2>4 DEF StoreInv
<1>3. FlowsInv'
  <2>1. ASSUME NEW g \in Flows PROVE WorkKnown(g, flow[g])'
    <3>1. WorkKnown(g, flow[g]) BY DEF FlowsInv
    <3> QED BY <3>1 DEF WorkKnown, FileKnown, HeldKnown, PendKnown,
                        serverVars, tables, tokenVars, enrolmentVars
  <2> QED BY <2>1 DEF FlowsInv, OwnSlots
<1> QED BY <1>2, <1>3

(* A file made of known parts is stored by a step that leaves the router   *)
(* and the turn alone.                                                     *)
LEMMA StoreWritten ==
  ASSUME IInv, UNCHANGED serverVars, UNCHANGED turn, file' \in Files, FileKnown(file')
  PROVE  StoreInv'
<1> USE DEF IInv, DesktopInv
<1>1. TablesOK /\ TablesOK' /\ Later BY ServerQuiet DEF serverVars
<1>2. FileKnown(file)'
  BY DEF FileKnown, HeldKnown, PendKnown, serverVars, tables, tokenVars, enrolmentVars
<1>3. HeldKnown(turn)' BY <1>1, HeldStays DEF StoreInv, HeldKnown
<1> QED BY <1>2, <1>3 DEF StoreInv

LEMMA StoresRotationKeeps ==
  ASSUME NEW f \in Flights, IInv, StoresRotation(f)
  PROVE  DesktopInv'
<1> USE DEF IInv, DesktopInv
<1> DEFINE w == flow[f]
<1>1. f \in Flows BY DEF Flows
<1>2. w \in Work /\ w.of \in Installations /\ w.tok \in 1 .. issued[w.of] /\ Snap(f) # Unread
  BY <1>1 DEF StoresRotation, Writes, FlowsInv, WorkKnown, Snap
<1>3. Snap(f) \in Files /\ FileKnown(Snap(f)) BY <1>1, <1>2, SnapKnown
<1>4. file' \in Files /\ FileKnown(file')
  <2>1. [of |-> w.of, tok |-> w.tok] \in Held BY <1>2 DEF Held, Work
  <2>2. HeldKnown([of |-> w.of, tok |-> w.tok]) BY <1>2 DEF HeldKnown
  <2> QED BY <1>3, <2>1, <2>2 DEF StoresRotation, Writes, Files, FileKnown
<1>5. UNCHANGED serverVars /\ UNCHANGED turn BY DEF StoresRotation
<1>6. StoreInv' BY <1>4, <1>5, StoreWritten
<1>7. FlowEnds(f) BY DEF StoresRotation, FlightEnds
<1> QED BY <1>1, <1>5, <1>6, <1>7, QuietEnd

LEMMA RotationNotStoredKeeps ==
  ASSUME NEW f \in Flights, IInv, RotationNotStored(f)
  PROVE  DesktopInv'
<1> USE DEF IInv, DesktopInv
<1>1. f \in Flows BY DEF Flows
<1>2. UNCHANGED serverVars /\ UNCHANGED <<file, turn>> /\ FlowGoes(f, "wipe")
  BY DEF RotationNotStored
<1>3. StoreInv' BY <1>2, ServerQuiet, StoreStays DEF serverVars
<1>4. Only(f) /\ flow'[f].at = "wipe" /\ flow'[f].snap = Unread
  BY <1>1, <1>2, GoesOnly, GoesTo DEF FlowsInv
<1>5. WorkKnown(f, flow'[f]) BY <1>4 DEF WorkKnown, Places
<1> QED BY <1>1, <1>2, <1>3, <1>4, <1>5, QuietFlow

LEMMA WipesKeeps ==
  ASSUME NEW f \in Flights, IInv, Wipes(f)
  PROVE  DesktopInv'
<1> USE DEF IInv, DesktopInv
<1>1. f \in Flows BY DEF Flows
<1>2. UNCHANGED serverVars /\ UNCHANGED turn /\ FlowEnds(f) BY DEF Wipes, FlightEnds
<1>3. file' \in Files /\ FileKnown(file')
  BY DEF Wipes, Writes, WriteFails, StoreInv, Files, Held, FileKnown, HeldKnown, PendKnown, Nothing
<1>4. StoreInv' BY <1>2, <1>3, StoreWritten
<1> QED BY <1>1, <1>2, <1>4, QuietEnd

LEMMA MarksReconnectKeeps ==
  ASSUME NEW f \in Flights, IInv, MarksReconnect(f)
  PROVE  DesktopInv'
<1> USE DEF IInv, DesktopInv
<1>1. f \in Flows BY DEF Flows
<1>2. UNCHANGED serverVars /\ UNCHANGED turn /\ FlowEnds(f) BY DEF MarksReconnect, FlightEnds
<1>3. Snap(f) # Unread BY DEF MarksReconnect, Writes, WriteFails, Snap
<1>4. file' \in Files /\ FileKnown(file')
  BY <1>1, <1>3, SnapKnown DEF MarksReconnect, Writes, WriteFails, StoreInv
<1>5. StoreInv' BY <1>2, <1>4, StoreWritten
<1> QED BY <1>1, <1>2, <1>5, QuietEnd

LEMMA AnswerLostKeeps ==
  ASSUME NEW f \in Flows, IInv, AnswerLost(f)
  PROVE  DesktopInv'
<1> USE DEF IInv, DesktopInv
<1>1. UNCHANGED serverVars /\ UNCHANGED <<file, turn>> BY DEF AnswerLost
<1>2. StoreInv' BY <1>1, ServerQuiet, StoreStays DEF serverVars
<1>3. CASE f \in Flights
  <2>1. FlowEnds(f) BY <1>3 DEF AnswerLost, FlightEnds
  <2> QED BY <1>1, <1>2, <2>1, QuietEnd
<1>4. CASE f \notin Flights
  <2>1. FlowGoes(f, "save") BY <1>4 DEF AnswerLost
  <2>2. /\ Only(f) /\ flow'[f].at = "save" /\ flow'[f].snap = Unread
        /\ flow'[f].of = flow[f].of
    BY <2>1, GoesOnly, GoesTo DEF FlowsInv
  <2>3. WorkKnown(f, flow[f]) /\ flow[f].at = "asking" /\ f = "enrol"
    BY <1>4 DEF FlowsInv, AnswerLost, WorkKnown, Places, Flows
  <2>4. WorkKnown(f, flow'[f]) BY <2>2, <2>3 DEF WorkKnown, Places
  <2> QED BY <1>1, <1>2, <2>2, <2>4, QuietFlow
<1> QED BY <1>3, <1>4

LEMMA ResumesKeeps ==
  ASSUME IInv, Resumes
  PROVE  DesktopInv'
<1> USE DEF IInv, DesktopInv
<1>1. "enrol" \in Flows BY DEF Flows
<1>2. UNCHANGED serverVars /\ UNCHANGED <<file, turn>> BY DEF Resumes
<1>3. StoreInv' BY <1>2, ServerQuiet, StoreStays DEF serverVars
<1> DEFINE w == [NoFlow EXCEPT !.at = "waiting", !.of = file.pend]
<1>4. w \in Work /\ w.at = "waiting" /\ w.snap = Unread /\ w.of = file.pend
  <2>1. file.pend \in Installations \cup {NoOne} BY DEF StoreInv, Files
  <2>2. NoFlow \in Work /\ NoFlow.snap = Unread BY DEF NoFlow, Work
  <2> QED BY <2>1, <2>2 DEF Work
<1>5. flow' = [flow EXCEPT !["enrol"] = w] BY DEF Resumes
<1> HIDE DEF w
<1>6. Only("enrol") /\ flow'["enrol"] = w BY <1>1, <1>4, <1>5 DEF Only, FlowsInv
<1>7. WorkKnown("enrol", w)
  BY <1>4 DEF WorkKnown, Places, StoreInv, FileKnown, Resumes
<1> QED BY <1>1, <1>2, <1>3, <1>4, <1>6, <1>7, QuietFlow

LEMMA SavesKeeps ==
  ASSUME IInv, StoresEnrolment \/ Saves
  PROVE  DesktopInv'
<1> USE DEF IInv, DesktopInv
<1> DEFINE w == flow["enrol"]
<1>1. "enrol" \in Flows BY DEF Flows
<1>2. UNCHANGED serverVars /\ UNCHANGED turn BY DEF StoresEnrolment, Saves
<1>3. /\ w \in Work /\ PendKnown(w.of) /\ w.of # NoOne
      /\ Snap("enrol") # Unread
  BY <1>1 DEF StoresEnrolment, Saves, Writes, FlowsInv, WorkKnown, Snap
<1>4. Snap("enrol") \in Files /\ FileKnown(Snap("enrol")) BY <1>1, <1>3, SnapKnown
<1>5. file' \in Files /\ FileKnown(file')
  BY <1>3, <1>4 DEF StoresEnrolment, Saves, Writes, Files, FileKnown, Work
<1>6. StoreInv' BY <1>2, <1>5, StoreWritten
<1>7. CASE FlowEnds("enrol") BY <1>1, <1>2, <1>6, <1>7, QuietEnd
<1>8. CASE FlowGoes("enrol", "waiting")
  <2>1. /\ Only("enrol") /\ flow'["enrol"].at = "waiting" /\ flow'["enrol"].snap = Unread
        /\ flow'["enrol"].of = w.of
    BY <1>1, <1>8, GoesOnly, GoesTo DEF FlowsInv
  <2>2. WorkKnown("enrol", flow'["enrol"]) BY <1>3, <2>1 DEF WorkKnown, Places
  <2> QED BY <1>1, <1>2, <1>6, <2>1, <2>2, QuietFlow
<1> QED BY <1>7, <1>8 DEF StoresEnrolment, Saves

(* The enrollment goes on to something it can do at any time.              *)
LEMMA EnrolGoesKeeps ==
  ASSUME IInv, UNCHANGED serverVars, UNCHANGED <<file, turn>>, flow["enrol"].at # "none",
         \/ FlowGoes("enrol", "save") \/ FlowGoes("enrol", "clear")
         \/ FlowGoes("enrol", "waiting") \/ FlowGoes("enrol", "withdraw")
  PROVE  DesktopInv'
<1> USE DEF IInv, DesktopInv
<1>1. "enrol" \in Flows BY DEF Flows
<1>2. StoreInv' BY ServerQuiet, StoreStays DEF serverVars
<1>3. /\ Only("enrol") /\ flow'["enrol"].at \in {"save", "clear", "waiting", "withdraw"} /\ flow'["enrol"].snap = Unread
      /\ flow'["enrol"].of = flow["enrol"].of
  BY <1>1, GoesOnly, GoesTo DEF FlowsInv
<1>4. WorkKnown("enrol", flow["enrol"]) BY <1>1 DEF FlowsInv
<1>5. WorkKnown("enrol", flow'["enrol"]) BY <1>3, <1>4 DEF WorkKnown, Places
<1> QED BY <1>1, <1>2, <1>3, <1>5, QuietFlow

LEMMA ChecksKeeps ==
  ASSUME IInv, Checks
  PROVE  DesktopInv'
<1> USE DEF IInv, DesktopInv
<1> DEFINE w == flow["enrol"]
<1>1. "enrol" \in Flows BY DEF Flows
<1>2. UNCHANGED serverVars /\ UNCHANGED <<file, turn>> /\ w.at = "check" BY DEF Checks
<1>3. StoreInv' BY <1>2, ServerQuiet, StoreStays DEF serverVars
<1>4. w \in Work /\ WorkKnown("enrol", w) BY <1>1 DEF FlowsInv
<1>5. CASE FlowGoes("enrol", "save") BY <1>2, <1>5, EnrolGoesKeeps
<1>6. CASE \E at \in {"complete", "clear"} : flow' = [flow EXCEPT !["enrol"].at = at]
  <2>1. PICK at \in {"complete", "clear"} : flow' = [flow EXCEPT !["enrol"].at = at] BY <1>6
  <2>2. /\ Only("enrol") /\ flow'["enrol"].at = at
        /\ flow'["enrol"].of = w.of /\ flow'["enrol"].tok = w.tok /\ flow'["enrol"].snap = w.snap
    BY <1>1, <2>1 DEF Only, FlowsInv, Work, FileOps
  <2>3. WorkKnown("enrol", flow'["enrol"]) BY <1>2, <1>4, <2>2 DEF WorkKnown, Places
  <2> QED BY <1>1, <1>2, <1>3, <2>2, <2>3, QuietFlow
<1> QED BY <1>5, <1>6 DEF Checks

LEMMA CompletesKeeps ==
  ASSUME IInv, Completes
  PROVE  DesktopInv'
<1> USE DEF IInv, DesktopInv
<1> DEFINE w == flow["enrol"]
<1>1. "enrol" \in Flows BY DEF Flows
<1>2. UNCHANGED serverVars /\ UNCHANGED turn /\ FlowEnds("enrol") BY DEF Completes
<1>3. w \in Work /\ w.of \in Installations /\ w.tok \in 1 .. issued[w.of]
  BY <1>1 DEF Completes, Writes, FlowsInv, WorkKnown
<1>4. file' \in Files /\ FileKnown(file')
  <2> DEFINE h == [of |-> w.of, tok |-> w.tok]
  <2>1. h \in Held BY <1>3 DEF Held, Work
  <2>2. HeldKnown(h) BY <1>3 DEF HeldKnown
  <2>3. file' = [held |-> h, pend |-> NoOne] BY DEF Completes, Writes
  <2> HIDE DEF h
  <2> QED BY <2>1, <2>2, <2>3 DEF Files, FileKnown, PendKnown
<1>5. StoreInv' BY <1>2, <1>4, StoreWritten
<1> QED BY <1>1, <1>2, <1>5, QuietEnd

LEMMA ClearsKeeps ==
  ASSUME NEW f \in Flows, IInv, Clears(f)
  PROVE  DesktopInv'
<1> USE DEF IInv, DesktopInv
<1>1. UNCHANGED serverVars /\ UNCHANGED turn BY DEF Clears
<1>2. /\ flow[f] \in Work /\ WorkKnown(f, flow[f]) /\ flow[f].at \in {"clear", "tidy"}
      /\ f \in {"enrol", "leave"} /\ Snap(f) # Unread
  BY DEF Clears, Writes, WriteFails, FlowsInv, WorkKnown, Places, Flows, Snap
<1>3. Snap(f) \in Files /\ FileKnown(Snap(f)) BY <1>2, SnapKnown
<1>4. file' \in Files /\ FileKnown(file')
  BY <1>3 DEF Clears, Writes, WriteFails, StoreInv, Files, FileKnown, PendKnown
<1>5. StoreInv' BY <1>1, <1>4, StoreWritten
<1>6. CASE FlowEnds(f) BY <1>1, <1>5, <1>6, QuietEnd
<1>7. CASE flow[f].of # NoOne /\ FlowGoes(f, "cancel")
  <2>1. /\ Only(f) /\ flow'[f].at = "cancel" /\ flow'[f].snap = Unread
        /\ flow'[f].of = flow[f].of
    BY <1>7, GoesOnly, GoesTo DEF FlowsInv
  <2>2. WorkKnown(f, flow'[f]) BY <1>2, <1>7, <2>1 DEF WorkKnown, Places, Flows
  <2> QED BY <1>1, <1>5, <2>1, <2>2, QuietFlow
<1> QED BY <1>6, <1>7 DEF Clears

LEMMA LeaveKeeps ==
  ASSUME IInv, Leave
  PROVE  DesktopInv'
<1> USE DEF IInv, DesktopInv
<1>1. UNCHANGED serverVars /\ UNCHANGED <<file, turn>> BY DEF Leave
<1>2. TablesOK /\ TablesOK' /\ Later /\ StoreInv'
  BY <1>1, ServerQuiet, StoreStays DEF serverVars
<1> DEFINE e == flow["enrol"]
           look == [NoFlow EXCEPT !.at = "look"]
           left == CASE e.at = "waiting" -> NoFlow
                     [] e.at \in {"asking", "check"} -> [e EXCEPT !.at = "save", !.slot = NoOne]
                     [] OTHER -> e
<1>3. flow \in [Flows -> Work] /\ e \in Work /\ WorkKnown("enrol", e) BY DEF FlowsInv, Flows
<1>4. look \in Work /\ WorkKnown("leave", look) /\ look.at = "look"
  BY DEF NoFlow, Work, WorkKnown, Places
<1>5. left \in Work /\ WorkKnown("enrol", left) /\ left.at # "asking"
  <2>1. NoFlow \in Work /\ WorkKnown("enrol", NoFlow) /\ NoFlow.at # "asking"
    BY NoFlowKnown DEF NoFlow, Work, Flows
  <2>2. CASE e.at \in {"asking", "check"}
    <3> DEFINE w == [e EXCEPT !.at = "save", !.slot = NoOne]
    <3>1. w \in Work /\ w.at = "save" /\ w.of = e.of /\ w.snap = e.snap
      BY <1>3 DEF Work, FileOps
    <3>2. left = w BY <2>2
    <3> HIDE DEF w, left
    <3>3. WorkKnown("enrol", w) BY <1>3, <2>2, <3>1 DEF WorkKnown, Places
    <3> QED BY <3>1, <3>2, <3>3
  <2>3. CASE e.at = "waiting" BY <2>1, <2>3
  <2>4. CASE e.at \notin {"asking", "check", "waiting"} BY <1>3, <2>4
  <2> QED BY <2>2, <2>3, <2>4
<1>6. flow' = [flow EXCEPT !["leave"] = look, !["enrol"] = left] BY DEF Leave
<1> HIDE DEF look, left
<1>7. /\ flow' \in [Flows -> Work] /\ \A f \in Flights : flow'[f] = flow[f]
      /\ flow'["leave"] = look /\ flow'["enrol"] = left
  BY <1>3, <1>4, <1>5, <1>6 DEF Flows
<1>8. \A f \in Flights : WorkKnown(f, flow[f]) BY DEF FlowsInv, Flows
<1>9. \A g \in Flows : WorkKnown(g, flow'[g])
  BY <1>4, <1>5, <1>7, <1>8 DEF Flows
<1>10. ASSUME NEW g \in Flows PROVE WorkKnown(g, flow[g])'
  BY <1>1, <1>9 DEF WorkKnown, FileKnown, HeldKnown, PendKnown,
                    serverVars, tables, tokenVars, enrolmentVars
<1>11. OwnSlots'
  <2>1. \A g \in Flows : flow'[g].at = "asking" => g \in Flights /\ flow'[g] = flow[g]
    BY <1>4, <1>5, <1>7 DEF Flows
  <2>2. OwnSlots BY DEF FlowsInv
  <2> HIDE DEF Flights
  <2> QED BY <2>1, <2>2 DEF OwnSlots
<1> QED BY <1>2, <1>7, <1>10, <1>11 DEF FlowsInv

LEMMA LeaveLooksKeeps ==
  ASSUME IInv, LeaveLooks
  PROVE  DesktopInv'
<1> USE DEF IInv, DesktopInv
<1>1. "leave" \in Flows BY DEF Flows
<1>2. UNCHANGED serverVars /\ UNCHANGED <<file, turn>> BY DEF LeaveLooks
<1>3. StoreInv' BY <1>2, ServerQuiet, StoreStays DEF serverVars
<1>4. flow["leave"] \in Work /\ WorkKnown("leave", flow["leave"]) BY <1>1 DEF FlowsInv
<1>a. PICK pend \in {file.pend, NoOne} :
        flow' = [flow EXCEPT !["leave"] = [@ EXCEPT !.at = "clear", !.of = pend]]
  BY DEF LeaveLooks
<1>5. /\ Only("leave") /\ flow'["leave"].at = "clear" /\ flow'["leave"].of = pend
      /\ flow'["leave"].snap = flow["leave"].snap
  BY <1>1, <1>4, <1>a DEF Only, FlowsInv, Work, FileOps, StoreInv, Files
<1>6. WorkKnown("leave", flow'["leave"])
  BY <1>4, <1>5 DEF WorkKnown, Places, StoreInv, FileKnown, PendKnown
<1> QED BY <1>1, <1>2, <1>3, <1>5, <1>6, QuietFlow

LEMMA CrashKeeps ==
  ASSUME IInv, Crash
  PROVE  DesktopInv'
<1> USE DEF IInv, DesktopInv
<1>1. UNCHANGED serverVars /\ UNCHANGED file /\ turn' = Nothing BY DEF Crash
<1>2. TablesOK /\ TablesOK' /\ Later BY <1>1, ServerQuiet DEF serverVars
<1>3. StoreInv'
  <2>1. FileKnown(file)' BY <1>1, <1>2, FileStays DEF StoreInv, FileKnown, HeldKnown, PendKnown
  <2>2. turn' \in Held /\ HeldKnown(turn)' BY <1>1 DEF Nothing, Held, HeldKnown
  <2> QED BY <1>1, <2>1, <2>2 DEF StoreInv
<1>4. FlowsInv'
  <2>1. flow' = [f \in Flows |-> NoFlow] /\ NoFlow \in Work BY DEF Crash, NoFlow, Work
  <2>2. \A f \in Flows : WorkKnown(f, NoFlow) BY NoFlowKnown
  <2>3. ASSUME NEW f \in Flows PROVE WorkKnown(f, flow[f])'
    BY <2>1 DEF WorkKnown, NoFlow, Flows, Places
  <2> QED BY <2>1, <2>3 DEF FlowsInv, OwnSlots, NoFlow
<1> QED BY <1>3, <1>4

-----------------------------------------------------------------------------
(* The steps of the router and of the requests.  Each leads to a state     *)
(* that ServerNext allows; that what the desktop knows is kept follows     *)
(* from what the router never takes back.                                  *)
Sent(s, i) ==
  /\ req' \in [Slots -> Requests]
  /\ req[s].at = "idle" /\ req'[s].at = "sent" /\ req'[s].of = i
  /\ \A r \in Slots \ {s} : req'[r] = req[r]

LEMMA SendMoves ==
  ASSUME NEW s \in Slots, NEW kind \in Kinds, NEW i \in Installations, NEW k \in 0 .. MaxTokens,
         req \in [Slots -> Requests], Send(s, kind, i, k)
  PROVE  Sent(s, i)
<1>1. NoRequest \in Requests /\ NoRequest.at = "idle" BY DEF NoRequest, Requests
<1> QED BY <1>1 DEF Send, Sent, Requests, Kinds

(* Requests in flight are those that flows wait for.                       *)
LEMMA AskingKnown ==
  ASSUME NEW g \in Flows, DesktopInv, flow[g].at = "asking"
  PROVE  /\ flow[g].slot \in Slots /\ flow[g].of \in Installations
         /\ req[flow[g].slot].at # "idle" /\ req[flow[g].slot].of = flow[g].of
BY DEF DesktopInv, FlowsInv, WorkKnown

(* No flow moves.                                                          *)
LEMMA FlowsStay ==
  ASSUME IInv, TablesOK', Later, UNCHANGED desktopVars,
         \A g \in Flows : flow[g].at = "asking" =>
           req'[flow[g].slot].at # "idle" /\ req'[flow[g].slot].of = flow[g].of
  PROVE  DesktopInv'
<1> USE DEF IInv, DesktopInv
<1>1. TablesOK BY DEF ServerInv, Tables
<1>2. StoreInv' BY <1>1, StoreStays DEF desktopVars
<1>3. ASSUME NEW g \in Flows PROVE WorkKnown(g, flow[g])'
  <2> DEFINE w == flow[g]
  <2>1. WorkKnown(g, w) /\ flow'[g] = w BY DEF FlowsInv, desktopVars
  <2>2. WorkKnown(g, w)' BY <1>1, <2>1, WorkStays
  <2> QED BY <2>1, <2>2 DEF WorkKnown, FileKnown, HeldKnown, PendKnown
<1> QED BY <1>2, <1>3 DEF FlowsInv, OwnSlots, desktopVars

LEMMA ServerStepKeeps ==
  ASSUME NEW s \in Slots, IInv, ServerStep(s)
  PROVE  DesktopInv' /\ (Handle(s) \/ RequestFails(s))
<1>1. Handled(s) BY HandlersKeep DEF ServerStep, IInv
<1>2. TablesOK' /\ Later /\ UNCHANGED desktopVars
  BY <1>1 DEF Handled, ServerInv, Tables, ServerStep
<1>3. ASSUME NEW g \in Flows, flow[g].at = "asking"
      PROVE  req'[flow[g].slot].at # "idle" /\ req'[flow[g].slot].of = flow[g].of
  BY <1>1, <1>3, AskingKnown DEF Handled, Moved, IInv
<1> QED BY <1>2, <1>3, FlowsStay DEF ServerStep

LEMMA ForgottenKeeps ==
  ASSUME NEW s \in Slots, IInv, Forgotten(s)
  PROVE  DesktopInv' /\ AnyClientHears(s)
<1>1. AnyClientHears(s) /\ UNCHANGED tables BY DEF Forgotten, AnyClientHears
<1>2. TablesOK' /\ Later BY <1>1, ServerQuiet DEF IInv
<1>3. ASSUME NEW g \in Flows, flow[g].at = "asking"
      PROVE  req'[flow[g].slot].at # "idle" /\ req'[flow[g].slot].of = flow[g].of
  <2>1. flow[g].slot \in Slots \ {s} BY <1>3, AskingKnown DEF Forgotten, Abandoned, IInv
  <2>2. req'[flow[g].slot] = req[flow[g].slot]
    BY <1>1, <2>1 DEF AnyClientHears, IInv, ServerInv, RequestsInv
  <2> QED BY <1>3, <2>2, AskingKnown DEF IInv
<1> QED BY <1>1, <1>2, <1>3, FlowsStay DEF Forgotten

LEMMA ConsoleStepKeeps ==
  ASSUME IInv, Console, UNCHANGED desktopVars
  PROVE  DesktopInv'
<1>1. TablesOK' /\ Later /\ UNCHANGED req BY ConsoleKeeps DEF IInv, ServerInv, Tables
<1>2. ASSUME NEW g \in Flows, flow[g].at = "asking"
      PROVE  req'[flow[g].slot].at # "idle" /\ req'[flow[g].slot].of = flow[g].of
  BY <1>1, <1>2, AskingKnown DEF IInv
<1> QED BY <1>1, <1>2, FlowsStay

(* Flow f sends a request and waits for it.                                *)
LEMMA AskKeeps ==
  ASSUME NEW f \in Flows, NEW s \in Slots, NEW kind \in Kinds, NEW i \in Installations,
         NEW k \in 0 .. MaxTokens, IInv, Send(s, kind, i, k), UNCHANGED tables, StoreInv',
         Only(f), flow'[f].at = "asking", flow'[f].slot = s, flow'[f].of = i,
         flow'[f].snap # Unread => FileKnown(flow'[f].snap),
         f \in Flights \/ (f = "enrol" /\ PendKnown(i))
  PROVE  DesktopInv'
<1> USE DEF IInv, DesktopInv
<1>1. TablesOK /\ TablesOK' /\ Later BY ServerQuiet
<1>2. Sent(s, i) BY SendMoves DEF ServerInv, RequestsInv
<1>3. WorkKnown(f, flow[f])'
  <2>1. req'[flow'[f].slot].at # "idle" /\ req'[flow'[f].slot].of = flow'[f].of
    BY <1>2 DEF Sent
  <2>2. flow'[f].snap # Unread => FileKnown(flow[f].snap)'
    BY DEF FileKnown, HeldKnown, PendKnown, tables, tokenVars, enrolmentVars
  <2>3. PendKnown(i) => PendKnown(flow[f].of)' BY DEF PendKnown, tables, enrolmentVars
  <2> QED BY <2>1, <2>2, <2>3 DEF WorkKnown, Places
<1>4. ASSUME NEW g \in Flows \ {f}, flow[g].at = "asking"
      PROVE  req'[flow[g].slot] = req[flow[g].slot] /\ flow'[f].slot # flow[g].slot
  BY <1>2, <1>4, AskingKnown DEF Sent
<1> QED BY <1>1, <1>3, <1>4, OneFlowMoves

LEMMA StartRefreshKeeps ==
  ASSUME NEW f \in Flights, NEW s \in Slots, IInv, StartRefresh(f, s)
  PROVE  DesktopInv' /\ \E i \in Installations : AnyClientSends(s, i)
<1> USE DEF IInv, DesktopInv
<1>1. f \in Flows BY DEF Flows
<1>2. /\ turn.of \in Installations /\ turn.tok \in 1 .. issued[turn.of] /\ turn.tok \in 0 .. MaxTokens
  BY DEF StartRefresh, StoreInv, HeldKnown, Held
<1>3. UNCHANGED tables /\ Send(s, "refresh", turn.of, turn.tok) BY DEF StartRefresh
<1>4. TablesOK /\ TablesOK' /\ Later BY <1>3, ServerQuiet
<1>5. StoreInv'
  <2>1. turn' = Nothing /\ UNCHANGED file BY DEF StartRefresh
  <2>2. FileKnown(file)' BY <1>4, <2>1, FileStays DEF StoreInv, FileKnown, HeldKnown, PendKnown
  <2> QED BY <2>1, <2>2 DEF StoreInv, Nothing, Held, HeldKnown
<1> DEFINE w == [NoFlow EXCEPT !.at = "asking", !.of = turn.of, !.tok = turn.tok, !.slot = s]
<1>6. NoFlow \in Work /\ NoFlow.snap = Unread BY DEF NoFlow, Work
<1>7. w \in Work /\ w.at = "asking" /\ w.slot = s /\ w.of = turn.of /\ w.snap = Unread
  BY <1>2, <1>6 DEF Work
<1>8. flow' = [flow EXCEPT ![f] = w] BY DEF StartRefresh
<1> HIDE DEF w
<1>9. Only(f) /\ flow'[f] = w BY <1>1, <1>7, <1>8 DEF Only, FlowsInv
<1>10. DesktopInv'
  <2>1. "refresh" \in Kinds BY DEF Kinds
  <2> QED BY <1>1, <1>2, <1>3, <1>5, <1>7, <1>9, <2>1, AskKeeps
<1>11. AnyClientSends(s, turn.of) BY <1>2, <1>3 DEF AnyClientSends
<1> QED BY <1>2, <1>10, <1>11

LEMMA PollsKeeps ==
  ASSUME NEW s \in Slots, IInv, Polls(s)
  PROVE  DesktopInv' /\ \E i \in Installations : AnyClientSends(s, i)
<1> USE DEF IInv, DesktopInv
<1> DEFINE w == flow["enrol"]
<1>1. "enrol" \in Flows BY DEF Flows
<1>2. w \in Work /\ WorkKnown("enrol", w) /\ w.at = "waiting" BY <1>1 DEF FlowsInv, Polls
<1>3. w.of \in Installations /\ auth[w.of] # "none" /\ PendKnown(w.of)
  BY <1>2 DEF WorkKnown, PendKnown
<1>4. UNCHANGED tables /\ UNCHANGED <<file, turn>> /\ Send(s, "poll", w.of, 0) BY DEF Polls
<1>5. StoreInv' BY <1>4, ServerQuiet, StoreStays
<1>6. /\ Only("enrol") /\ flow'["enrol"].at = "asking" /\ flow'["enrol"].slot = s
      /\ flow'["enrol"].of = w.of /\ flow'["enrol"].snap = w.snap
  BY <1>1 DEF Polls, Only, FlowsInv, Work
<1>7. w.snap # Unread => FileKnown(w.snap) BY <1>2 DEF WorkKnown
<1>8. DesktopInv'
  <2>1. "poll" \in Kinds /\ 0 \in 0 .. MaxTokens BY DEF Kinds
  <2> QED BY <1>1, <1>3, <1>4, <1>5, <1>6, <1>7, <2>1, AskKeeps
<1>9. AnyClientSends(s, w.of) BY <1>3, <1>4 DEF AnyClientSends
<1> QED BY <1>3, <1>8, <1>9

(* Flow f hears the answer to its request, which is then forgotten.        *)
LEMMA HeardKeeps ==
  ASSUME NEW f \in Flows, NEW s \in Slots, IInv, Heard(f, s), UNCHANGED tables,
         UNCHANGED <<file, turn>>, Only(f), WorkKnown(f, flow'[f]), flow'[f].at # "asking"
  PROVE  DesktopInv' /\ AnyClientHears(s)
<1> USE DEF IInv, DesktopInv
<1>1. TablesOK /\ TablesOK' /\ Later /\ StoreInv' BY ServerQuiet, StoreStays
<1>2. WorkKnown(f, flow[f])'
  BY DEF WorkKnown, FileKnown, HeldKnown, PendKnown, tables, tokenVars, enrolmentVars
<1>3. ASSUME NEW g \in Flows \ {f}, flow[g].at = "asking"
      PROVE  req'[flow[g].slot] = req[flow[g].slot]
  <2>1. flow[g].slot # s BY <1>3 DEF Heard, FlowsInv, OwnSlots
  <2>2. flow[g].slot \in Slots BY <1>3, AskingKnown
  <2> QED BY <2>1, <2>2 DEF Heard, ServerInv, RequestsInv
<1>4. AnyClientHears(s) BY DEF Heard, AnyClientHears
<1> QED BY <1>1, <1>2, <1>3, <1>4, OneFlowMoves

LEMMA RefreshHearsKeeps ==
  ASSUME NEW f \in Flights, NEW s \in Slots, IInv, RefreshHears(f, s)
  PROVE  DesktopInv' /\ AnyClientHears(s)
<1> USE DEF IInv, DesktopInv
<1> DEFINE w == flow[f]
<1>1. f \in Flows BY DEF Flows
<1>2. w \in Work /\ WorkKnown(f, w) /\ w.at = "asking" /\ w.slot = s
  BY <1>1 DEF FlowsInv, RefreshHears, Heard
<1>3. w.of \in Installations /\ req[s].of = w.of /\ req[s].at = "answered" /\ req[s] \in Requests
  BY <1>2 DEF WorkKnown, RefreshHears, Heard, ServerInv, RequestsInv
<1>4. req[s].tok \in 0 .. MaxTokens BY <1>3 DEF Requests
<1>5. /\ Only(f)
      /\ flow'[f].at = IF req[s].answer = "granted" THEN "rotate" ELSE "mark"
      /\ flow'[f].of = w.of /\ flow'[f].tok = req[s].tok
      /\ flow'[f].snap = w.snap
  BY <1>1, <1>2, <1>4 DEF RefreshHears, Only, FlowsInv, Work, FileOps
<1>6. req[s].answer = "granted" => req[s].tok \in 1 .. issued[w.of]
  BY <1>3 DEF ServerInv, RequestsInv, Asked
<1>7. WorkKnown(f, flow'[f]) /\ flow'[f].at # "asking"
  BY <1>2, <1>3, <1>5, <1>6 DEF WorkKnown, Places
<1>8. UNCHANGED tables /\ UNCHANGED <<file, turn>> /\ Heard(f, s) BY DEF RefreshHears
<1> QED BY <1>1, <1>5, <1>7, <1>8, HeardKeeps

LEMMA PollHearsKeeps ==
  ASSUME NEW s \in Slots, IInv, PollHears(s)
  PROVE  DesktopInv' /\ AnyClientHears(s)
<1> USE DEF IInv, DesktopInv
<1> DEFINE w == flow["enrol"]
<1>1. "enrol" \in Flows BY DEF Flows
<1>2. w \in Work /\ WorkKnown("enrol", w) /\ w.at = "asking" /\ w.slot = s
  BY <1>1 DEF FlowsInv, PollHears, Heard
<1>3. w.of \in Installations /\ req[s].of = w.of /\ req[s].at = "answered" /\ req[s] \in Requests
  BY <1>2 DEF WorkKnown, PollHears, Heard, ServerInv, RequestsInv
<1>4. req[s].tok \in 0 .. MaxTokens BY <1>3 DEF Requests
<1> DEFINE at == CASE req[s].answer = "pending" -> "save"
                   [] req[s].answer = "granted" -> "check"
                   [] OTHER -> "clear"
<1>5. at \in {"save", "check", "clear"} /\ (at = "check" => req[s].answer = "granted") OBVIOUS
<1>6. flow' = [flow EXCEPT !["enrol"] = [@ EXCEPT !.at = at, !.tok = req[s].tok, !.slot = NoOne]]
  BY DEF PollHears
<1> HIDE DEF at
<1>7. /\ Only("enrol")
      /\ flow'["enrol"].at = at
      /\ flow'["enrol"].of = w.of /\ flow'["enrol"].tok = req[s].tok
      /\ flow'["enrol"].snap = w.snap
  BY <1>1, <1>2, <1>4, <1>5, <1>6 DEF Only, FlowsInv, Work, FileOps
<1>8. at = "check" => req[s].tok \in 1 .. issued[w.of]
  BY <1>3, <1>5 DEF ServerInv, RequestsInv, Asked
<1>9. WorkKnown("enrol", flow'["enrol"]) /\ flow'["enrol"].at # "asking"
  BY <1>2, <1>3, <1>5, <1>7, <1>8 DEF WorkKnown, Places
<1>10. UNCHANGED tables /\ UNCHANGED <<file, turn>> /\ Heard("enrol", s) BY DEF PollHears
<1> QED BY <1>1, <1>7, <1>9, <1>10, HeardKeeps

LEMMA CancelsKeeps ==
  ASSUME NEW f \in Flows, NEW s \in Slots, IInv, Cancels(f, s)
  PROVE  DesktopInv' /\ \E i \in Installations : AnyClientSends(s, i)
<1> USE DEF IInv, DesktopInv
<1>1. flow[f] \in Work /\ WorkKnown(f, flow[f]) /\ flow[f].at \in {"cancel", "withdraw"}
  BY DEF FlowsInv, Cancels
<1> DEFINE i == flow[f].of
<1>2. i \in Installations /\ auth[i] # "none"
  BY <1>1 DEF WorkKnown, Places, PendKnown, Flows
<1>3. UNCHANGED tables /\ UNCHANGED <<file, turn>> /\ Send(s, "cancel", i, 0)
  BY DEF Cancels
<1>4. TablesOK /\ TablesOK' /\ Later /\ StoreInv' BY <1>3, ServerQuiet, StoreStays
<1>5. Only(f) /\ flow'[f].at # "asking" /\ WorkKnown(f, flow[f])'
  <2>1. CASE FlowEnds(f)
    <3>1. Only(f) /\ flow'[f] = NoFlow BY <2>1, EndsOnly DEF FlowsInv
    <3> QED BY <3>1 DEF WorkKnown, NoFlow, Flows, Places
  <2>2. CASE flow[f].at = "withdraw" /\ FlowGoes(f, "tidy")
    <3>1. Only(f) /\ flow'[f].at = "tidy" /\ flow'[f].of = i /\ flow'[f].snap = Unread
      BY <2>2, GoesOnly, GoesTo DEF FlowsInv
    <3>2. f = "enrol" /\ i # NoOne /\ PendKnown(i) BY <1>1, <2>2 DEF WorkKnown, Places, Flows
    <3>3. PendKnown(flow[f].of)' BY <1>3, <3>1, <3>2 DEF PendKnown, tables, enrolmentVars
    <3> QED BY <3>1, <3>2, <3>3 DEF WorkKnown, Places
  <2> QED BY <2>1, <2>2 DEF Cancels
<1>7. ASSUME NEW g \in Flows \ {f}, flow[g].at = "asking"
      PROVE  req'[flow[g].slot] = req[flow[g].slot]
  <2>1. "cancel" \in Kinds /\ 0 \in 0 .. MaxTokens BY DEF Kinds
  <2>2. Sent(s, i) BY <1>2, <1>3, <2>1, SendMoves DEF ServerInv, RequestsInv
  <2> QED BY <1>7, <2>2, AskingKnown DEF Sent
<1>9. DesktopInv' BY <1>4, <1>5, <1>7, OneFlowMoves
<1>10. AnyClientSends(s, i) BY <1>2, <1>3 DEF AnyClientSends
<1> QED BY <1>2, <1>9, <1>10

LEMMA StartEnrolmentKeeps ==
  ASSUME NEW i \in Installations, IInv, StartEnrolment(i)
  PROVE  DesktopInv' /\ \A s \in Slots : AnyClientSends(s, i)
<1> USE DEF IInv, DesktopInv
<1>1. "enrol" \in Flows BY DEF Flows
<1>2. CreateAuthorization(i) /\ UNCHANGED <<req, file, turn>> BY DEF StartEnrolment
<1>3. TablesOK /\ TablesOK' /\ Later BY <1>2, CreateKeeps DEF ServerInv, Tables
<1>4. StoreInv' BY <1>2, <1>3, StoreStays
<1>a. PICK at \in {"store", "tidy"} :
        flow' = [flow EXCEPT !["enrol"] = [NoFlow EXCEPT !.at = at, !.of = i]]
  BY DEF StartEnrolment
<1> DEFINE w == [NoFlow EXCEPT !.at = at, !.of = i]
<1>5. NoFlow \in Work /\ NoFlow.snap = Unread BY DEF NoFlow, Work
<1>6. w \in Work /\ w.at \in {"store", "tidy"} /\ w.of = i /\ w.snap = Unread
  BY <1>5 DEF Work, FileOps
<1>7. flow' = [flow EXCEPT !["enrol"] = w] BY <1>a
<1> HIDE DEF w
<1>8. Only("enrol") /\ flow'["enrol"] = w BY <1>1, <1>6, <1>7 DEF Only, FlowsInv
<1>9. auth'[i] # "none" BY <1>2 DEF CreateAuthorization, ServerInv, Tables, TablesOK
<1>10. WorkKnown("enrol", flow["enrol"])' BY <1>6, <1>8, <1>9 DEF WorkKnown, Places, PendKnown
<1>11. \A g \in Flows \ {"enrol"} : flow[g].at = "asking" => req'[flow[g].slot] = req[flow[g].slot]
  BY <1>2
<1>12. flow'["enrol"].at # "asking" BY <1>6, <1>8
<1>13. DesktopInv' BY <1>1, <1>3, <1>4, <1>8, <1>10, <1>11, <1>12, OneFlowMoves
<1>14. \A s \in Slots : AnyClientSends(s, i) BY <1>2 DEF AnyClientSends
<1> QED BY <1>13, <1>14

-----------------------------------------------------------------------------
LEMMA DesktopStarts == Init => IInv
<1> SUFFICES ASSUME Init PROVE IInv OBVIOUS
<1>1. ServerInv BY ServerStarts DEF Init
<1>2. StoreInv
  <2>1. turn \in Held /\ HeldKnown(turn) BY DEF Init, Nothing, Held, HeldKnown
  <2>2. PICK held \in IF Connected = {} THEN {Nothing} ELSE [of : Connected, tok : {1}] :
          file = [held |-> held, pend |-> NoOne]
    BY DEF Init
  <2>3. held \in Held /\ HeldKnown(held)
    BY DEF Init, ServerInit, Nothing, Held, HeldKnown
  <2> QED BY <2>1, <2>2, <2>3 DEF StoreInv, Files, FileKnown, PendKnown
<1>3. FlowsInv
  <2>1. flow = [f \in Flows |-> NoFlow] /\ NoFlow \in Work BY DEF Init, NoFlow, Work
  <2> QED BY <2>1, NoFlowKnown DEF FlowsInv, OwnSlots, NoFlow
<1> QED BY <1>1, <1>2, <1>3 DEF IInv, DesktopInv

(* Each step keeps what the desktop knows and is a step of the server.     *)
LEMMA DesktopKeeps == IInv /\ [Next]_vars => IInv' /\ [ServerNext]_serverVars
<1> SUFFICES ASSUME IInv, [Next]_vars PROVE DesktopInv' /\ [ServerNext]_serverVars
  BY ServerKeeps DEF IInv
<1>1. CASE UNCHANGED vars
  <2>1. UNCHANGED <<serverVars, file, flow>> /\ turn' = turn BY <1>1 DEF vars, desktopVars
  <2> QED BY <2>1, FlowlessKeeps
<1>2. ASSUME NEW s \in Slots, ServerStep(s) PROVE DesktopInv' /\ [ServerNext]_serverVars
  BY <1>2, ServerStepKeeps DEF ServerNext
<1>3. ASSUME NEW s \in Slots, Forgotten(s) PROVE DesktopInv' /\ [ServerNext]_serverVars
  BY <1>3, ForgottenKeeps DEF ServerNext
<1>4. ASSUME NEW s \in Slots, DesktopStep(s) PROVE DesktopInv' /\ [ServerNext]_serverVars
  <2>1. ASSUME NEW f \in Flights, StartRefresh(f, s) PROVE DesktopInv' /\ [ServerNext]_serverVars
    BY <2>1, StartRefreshKeeps DEF ServerNext
  <2>2. ASSUME NEW f \in Flights, RefreshHears(f, s) PROVE DesktopInv' /\ [ServerNext]_serverVars
    BY <2>2, RefreshHearsKeeps DEF ServerNext
  <2>3. ASSUME NEW f \in Flights,
               StoresRotation(f) \/ RotationNotStored(f) \/ Wipes(f) \/ MarksReconnect(f)
        PROVE  DesktopInv' /\ [ServerNext]_serverVars
    BY <2>3, StoresRotationKeeps, RotationNotStoredKeeps, WipesKeeps, MarksReconnectKeeps
       DEF StoresRotation, RotationNotStored, Wipes, MarksReconnect
  <2>7. CASE StoresEnrolment \/ Saves BY <2>7, SavesKeeps DEF StoresEnrolment, Saves
  <2>8. CASE Polls(s) BY <2>8, PollsKeeps DEF ServerNext
  <2>9. CASE PollExpires BY <2>9, EnrolGoesKeeps DEF PollExpires
  <2>10. CASE PollHears(s) BY <2>10, PollHearsKeeps DEF ServerNext
  <2>11. CASE Checks BY <2>11, ChecksKeeps DEF Checks
  <2>12. CASE Completes BY <2>12, CompletesKeeps DEF Completes
  <2>13. CASE EnrolmentNotStored
    <3>1. UNCHANGED serverVars /\ UNCHANGED <<file, turn>> /\ flow["enrol"].at # "none"
      BY <2>13 DEF EnrolmentNotStored, WriteFails
    <3>2. StoreInv' BY <3>1, ServerQuiet, StoreStays DEF IInv, DesktopInv, serverVars
    <3>3. CASE \/ FlowGoes("enrol", "save") \/ FlowGoes("enrol", "waiting")
               \/ FlowGoes("enrol", "withdraw")
      BY <3>1, <3>3, EnrolGoesKeeps
    <3>4. CASE FlowEnds("enrol")
      <4>1. "enrol" \in Flows BY DEF Flows
      <4> QED BY <3>1, <3>2, <3>4, <4>1, QuietEnd DEF IInv
    <3> QED BY <2>13, <3>3, <3>4 DEF EnrolmentNotStored
  <2>14. CASE LeaveLooks BY <2>14, LeaveLooksKeeps DEF LeaveLooks
  <2>15. ASSUME NEW f \in Flows, Reads(f) \/ AnswerLost(f) \/ Clears(f)
         PROVE  DesktopInv' /\ [ServerNext]_serverVars
    BY <2>15, ReadsKeeps, AnswerLostKeeps, ClearsKeeps DEF Reads, AnswerLost, Clears
  <2>16. ASSUME NEW f \in Flows, Cancels(f, s) PROVE DesktopInv' /\ [ServerNext]_serverVars
    BY <2>16, CancelsKeeps DEF ServerNext
  <2> QED BY <1>4, <2>1, <2>2, <2>3, <2>7, <2>8, <2>9, <2>10, <2>11, <2>12, <2>13, <2>14, <2>15,
             <2>16 DEF DesktopStep
<1>5. CASE UserStep
  <2>1. CASE TurnReads \/ TurnServed \/ AccessExpires
    BY <2>1, FlowlessKeeps DEF TurnReads, TurnServed, AccessExpires
  <2>2. CASE Resumes BY <2>2, ResumesKeeps DEF Resumes
  <2>3. CASE Leave BY <2>3, LeaveKeeps DEF Leave
  <2>4. CASE Crash BY <2>4, CrashKeeps DEF Crash
  <2> QED BY <1>5, <2>1, <2>2, <2>3, <2>4 DEF UserStep
<1>6. ASSUME NEW i \in Installations, StartEnrolment(i)
      PROVE  DesktopInv' /\ [ServerNext]_serverVars
  BY <1>6, StartEnrolmentKeeps DEF ServerNext
<1>7. CASE Console /\ UNCHANGED desktopVars BY <1>7, ConsoleStepKeeps DEF ServerNext
<1> QED BY <1>1, <1>2, <1>3, <1>4, <1>5, <1>6, <1>7 DEF Next, Busy

(* To the router the desktop is a client like any other: whatever it does  *)
(* with its file, its requests are about what the router issued.           *)
THEOREM DesktopIsClient == Spec => ServerSpec
<1>1. Init => ServerInit BY DEF Init
<1>2. Spec => []IInv BY DesktopStarts, DesktopKeeps, PTL DEF Spec
<1> QED BY <1>1, <1>2, DesktopKeeps, PTL DEF Spec, ServerSpec

(* With a desktop whose flows overwrite its file, break off and crash, the *)
(* router still leaves one token of a family to exchange.                  *)
THEOREM ComposedOneTokenLeft == Spec => []OneUsableToken
BY DesktopIsClient, OneTokenLeft

(* A token that such a desktop presents twice ends its family.             *)
THEOREM ComposedReuseDetected == Spec => []ReuseEndsFamily
BY DesktopIsClient, ReuseDetected

(* Its enrollment is redeemed once and for the user who approved it.       *)
THEOREM ComposedRedeemedOnce == Spec => []GrantedOnce
BY DesktopIsClient, AuthorizationsRedeemedOnce

(* What it cancelled stays cancelled.                                      *)
THEOREM ComposedCancellationsFinal == Spec => []CancelIsFinal
BY DesktopIsClient, CancellationsFinal

-----------------------------------------------------------------------------
(***************************************************************************)
(* If nothing fails and no two operations on the file overlap, the desktop *)
(* always has a token to go on with: what it holds in the file, in a call  *)
(* of authorize() or in the refresh in flight is not spent, or the refresh *)
(* in flight is about to replace it; and the enrollment that was handed a  *)
(* token is of an installation the desktop holds nothing else of.          *)
(***************************************************************************)
Refreshing == flow["refresh"].at # "none"

(* The desktop holds a token of installation i.                            *)
Holds(i) == file.held.of = i \/ turn.of = i \/ (Refreshing /\ flow["refresh"].of = i)

(* Not spent, or to be replaced by the refresh in flight.                  *)
Safe(h) ==
  \/ h = Nothing
  \/ h.tok \notin used[h.of]
  \/ /\ h.of = flow["refresh"].of
     /\ \/ flow["refresh"].at = "asking" /\ h.tok = flow["refresh"].tok
        \/ flow["refresh"].at = "rotate"

(* The file is what the only flow that has read it knows.                  *)
OneReader ==
  /\ \A f, g \in Flows : flow[f].snap # Unread /\ flow[g].snap # Unread => f = g
  /\ \A f \in Flows : flow[f].snap # Unread => flow[f].snap = file

StoreSafe ==
  /\ Refreshing \/ turn # Nothing => file.held # Nothing
  /\ Safe(file.held)
  /\ turn # Nothing /\ ~(access /\ ~Refreshing) => Safe(turn)
  /\ \A i \in Installations : Holds(i) => auth[i] = "consumed"

(* The refresh in flight: no other request presents a token.               *)
RefreshSafe ==
  LET w == flow["refresh"]
      q == req[w.slot] IN
  /\ w.at # "wipe"
  /\ \A s \in Slots : req[s].kind = "refresh" => w.at = "asking" /\ w.slot = s
  /\ w.at = "rotate" => w.tok \notin used[w.of]
  /\ w.at = "asking" =>
       /\ q.kind = "refresh"
       /\ q.at \in {"sent", "found"} => q.tok = w.tok
       /\ q.at # "reuse"
       /\ IF q.at = "answered" /\ q.answer = "granted" THEN q.tok \notin used[w.of]
          ELSE w.tok \notin used[w.of]

(* The enrollment was handed a token that is not stored yet.               *)
Handed(w) ==
  \/ w.at \in {"check", "complete"}
  \/ w.at = "asking" /\ req[w.slot].at = "answered" /\ req[w.slot].answer = "granted"

EnrolSafe ==
  LET w == flow["enrol"] IN
  /\ w.at = "asking" => req[w.slot].kind = "poll"
  /\ Handed(w) =>
       /\ auth[w.of] = "consumed" /\ ~Holds(w.of)
       /\ used[w.of] = {}
  /\ \A i \in Installations : auth[i] = "consumed" => inst[i] # "pending"

AloneInv == OneReader /\ StoreSafe /\ RefreshSafe /\ EnrolSafe

(* Every rotation is stored, so that no second refresh is ever started.    *)
OneFlight ==
  /\ flow["again"].at = "none"
  /\ flight = IF Refreshing THEN "refresh" ELSE "none"

LEMMA PreviousFollows == AloneInv => PreviousUsable
BY DEF AloneInv, StoreSafe, PreviousUsable, Safe, Refreshing

LEMMA AloneStarts == Init => AloneInv
<1> SUFFICES ASSUME Init PROVE AloneInv OBVIOUS
<1>1. /\ \A f \in Flows : flow[f] = NoFlow
      /\ flow["refresh"] = NoFlow /\ flow["enrol"] = NoFlow
  BY DEF Init, Flows
<1>2. OneReader BY <1>1 DEF OneReader, NoFlow
<1>3. \A i \in Installations : used[i] = {} /\ (i \in Connected => auth[i] = "consumed")
  BY DEF Init, ServerInit
<1>4. PICK held \in IF Connected = {} THEN {Nothing} ELSE [of : Connected, tok : {1}] :
        file = [held |-> held, pend |-> NoOne]
  BY DEF Init
<1>5. turn = Nothing /\ ~Refreshing BY <1>1 DEF Init, Refreshing, NoFlow
<1>6. held = Nothing \/ held.of \in Connected
  <2>1. CASE Connected = {} BY <1>4, <2>1
  <2>2. CASE Connected # {} BY <1>4, <2>2
  <2> QED BY <2>1, <2>2
<1>a. Nothing.of = NoOne /\ NoOne \notin Installations BY DEF Nothing
<1>7. StoreSafe
  <2>1. Safe(file.held)
    <3>1. file.held = held BY <1>4
    <3>2. held = Nothing \/ used[held.of] = {} BY <1>3, <1>6
    <3> QED BY <3>1, <3>2 DEF Safe
  <2>2. \A i \in Installations : Holds(i) => auth[i] = "consumed"
    <3> TAKE i \in Installations
    <3> HAVE Holds(i)
    <3>1. file.held = held /\ turn.of = NoOne BY <1>4, <1>5, <1>a
    <3>2. held.of = i BY <1>5, <1>a, <3>1 DEF Holds
    <3>3. held # Nothing BY <1>a, <3>2
    <3> QED BY <1>3, <1>6, <3>2, <3>3
  <2> QED BY <1>5, <2>1, <2>2 DEF StoreSafe
<1>8. RefreshSafe BY <1>1 DEF RefreshSafe, NoFlow, Init, ServerInit, NoRequest
<1>9. EnrolSafe BY <1>1 DEF EnrolSafe, Handed, NoFlow, Init, ServerInit
<1> QED BY <1>2, <1>7, <1>8, <1>9 DEF AloneInv

(* Steps that leave the tokens and the refresh where they are and hand the *)
(* enrollment nothing.                                                     *)
LEMMA RequestsMove ==
  ASSUME AloneInv, OneReader', UNCHANGED tables, UNCHANGED <<access, turn>>,
         file'.held = file.held,
         flow'["refresh"].at = flow["refresh"].at, flow'["refresh"].of = flow["refresh"].of,
         flow'["refresh"].tok = flow["refresh"].tok, flow'["refresh"].slot = flow["refresh"].slot,
         \A r \in Slots : req'[r].kind = "refresh" => req[r].kind = "refresh",
         flow["refresh"].at = "asking" => req'[flow["refresh"].slot] = req[flow["refresh"].slot],
         flow'["enrol"].at = "asking" => req'[flow'["enrol"].slot].kind = "poll",
         Handed(flow["enrol"])' => Handed(flow["enrol"]) /\ flow'["enrol"].of = flow["enrol"].of
  PROVE  AloneInv'
<1> USE DEF tables, enrolmentVars, tokenVars, familyVars
<1>1. \A i : Holds(i)' <=> Holds(i) BY DEF Holds, Refreshing
<1>2. \A h : Safe(h)' <=> Safe(h) BY DEF Safe
<1>3. Refreshing' <=> Refreshing BY DEF Refreshing
<1>4. Safe(file.held)' /\ (Safe(turn) => Safe(turn)')
  BY <1>2 DEF AloneInv, StoreSafe, Safe
<1>5. StoreSafe' BY <1>1, <1>3, <1>4 DEF AloneInv, StoreSafe
<1>6. RefreshSafe' BY DEF AloneInv, RefreshSafe
<1>7. EnrolSafe' BY <1>1 DEF AloneInv, EnrolSafe
<1> QED BY <1>5, <1>6, <1>7 DEF AloneInv

LEMMA FlowsMove ==
  ASSUME AloneInv, OneReader', UNCHANGED serverVars, UNCHANGED <<access, turn>>,
         file'.held = file.held,
         flow'["refresh"].at = flow["refresh"].at, flow'["refresh"].of = flow["refresh"].of,
         flow'["refresh"].tok = flow["refresh"].tok, flow'["refresh"].slot = flow["refresh"].slot,
         flow'["enrol"].at = "asking" =>
           flow["enrol"].at = "asking" /\ flow'["enrol"].slot = flow["enrol"].slot,
         Handed(flow'["enrol"]) => Handed(flow["enrol"]) /\ flow'["enrol"].of = flow["enrol"].of
  PROVE  AloneInv'
<1>1. UNCHANGED tables /\ UNCHANGED req BY DEF serverVars
<1>2. Handed(flow["enrol"])' <=> Handed(flow'["enrol"]) BY <1>1 DEF Handed
<1>3. flow'["enrol"].at = "asking" => req'[flow'["enrol"].slot].kind = "poll"
  BY <1>1 DEF AloneInv, EnrolSafe
<1> QED BY <1>1, <1>2, <1>3, RequestsMove

(* The enrollment or its cancelling moves, and may write what it read.     *)
LEMMA OthersMove ==
  ASSUME IInv, AloneInv, NEW f \in {"enrol", "leave"}, UNCHANGED serverVars,
         UNCHANGED <<access, turn>>, Only(f),
         file' = file \/ (flow[f].snap # Unread /\ file'.held = flow[f].snap.held),
         flow'[f].snap = Unread \/ (file' = file /\ flow'[f].snap = flow[f].snap),
         f = "enrol" /\ flow'[f].at = "asking" =>
           flow[f].at = "asking" /\ flow'[f].slot = flow[f].slot,
         f = "enrol" /\ Handed(flow'[f]) => Handed(flow[f]) /\ flow'[f].of = flow[f].of
  PROVE  AloneInv'
<1>1. f \in Flows /\ f # "refresh" /\ "refresh" \in Flows /\ "enrol" \in Flows BY DEF Flows
<1>2. \A g \in Flows \ {f} : flow'[g] = flow[g] BY DEF Only
<1>3. flow[f].snap # Unread => flow[f].snap = file /\ \A g \in Flows \ {f} : flow[g].snap = Unread
  BY <1>1 DEF AloneInv, OneReader
<1>4. file'.held = file.held BY <1>3
<1>5. OneReader'
  <2>1. CASE flow'[f].snap = Unread BY <1>1, <1>2, <1>3, <2>1 DEF AloneInv, OneReader
  <2>2. CASE file' = file /\ flow'[f].snap = flow[f].snap
    <3>1. \A g \in Flows : flow'[g].snap = flow[g].snap BY <1>2, <2>2
    <3> QED BY <2>2, <3>1 DEF AloneInv, OneReader
  <2> QED BY <2>1, <2>2
<1>6. flow'["refresh"] = flow["refresh"] BY <1>1, <1>2
<1>7. f # "enrol" => flow'["enrol"] = flow["enrol"] BY <1>1, <1>2
<1> QED BY <1>4, <1>5, <1>6, <1>7, FlowsMove

LEMMA ReadsAlone ==
  ASSUME ~Overlap, IInv, AloneInv, NEW f \in Flows, Reads(f)
  PROVE  AloneInv'
<1>1. flow \in [Flows -> Work] BY DEF IInv, DesktopInv, FlowsInv
<1>2. /\ \A g \in Flows : flow[g].snap = Unread
      /\ flow' = [flow EXCEPT ![f].snap = file]
      /\ UNCHANGED <<serverVars, file, access, turn>>
  BY DEF Reads, Snap
<1>3. \A g \in Flows : /\ flow'[g].at = flow[g].at /\ flow'[g].of = flow[g].of
                       /\ flow'[g].tok = flow[g].tok /\ flow'[g].slot = flow[g].slot
                       /\ flow'[g].snap = IF g = f THEN file ELSE Unread
  BY <1>1, <1>2 DEF Work
<1>4. OneReader' BY <1>2, <1>3 DEF OneReader
<1>5. "enrol" \in Flows /\ "refresh" \in Flows BY DEF Flows
<1>6. Handed(flow'["enrol"]) <=> Handed(flow["enrol"]) BY <1>3, <1>5 DEF Handed
<1> QED BY <1>2, <1>3, <1>4, <1>5, <1>6, FlowsMove

LEMMA SavesAlone ==
  ASSUME IInv, AloneInv, StoresEnrolment \/ Saves
  PROVE  AloneInv'
<1>1. flow \in [Flows -> Work] /\ "enrol" \in Flows BY DEF IInv, DesktopInv, FlowsInv, Flows
<1>2. /\ UNCHANGED <<serverVars, access, turn>>
      /\ flow["enrol"].snap # Unread
      /\ file' = [flow["enrol"].snap EXCEPT !.pend = flow["enrol"].of]
      /\ FlowEnds("enrol") \/ FlowGoes("enrol", "waiting")
  BY DEF StoresEnrolment, Saves, Writes, Snap
<1>3. flow["enrol"].snap \in Files BY <1>1, <1>2 DEF Work
<1>4. file'.held = flow["enrol"].snap.held BY <1>2, <1>3 DEF Files
<1>5. Only("enrol") /\ flow'["enrol"].snap = Unread /\ flow'["enrol"].at \in {"none", "waiting"}
  BY <1>1, <1>2, EndsOnly, GoesOnly, GoesTo DEF NoFlow
<1>6. ~Handed(flow'["enrol"]) BY <1>5 DEF Handed
<1> QED BY <1>2, <1>4, <1>5, <1>6, OthersMove

LEMMA ClearsAlone ==
  ASSUME IInv, AloneInv, NEW f \in Flows, Clears(f)
  PROVE  AloneInv'
<1>1. flow \in [Flows -> Work] /\ WorkKnown(f, flow[f]) BY DEF IInv, DesktopInv, FlowsInv
<1>2. /\ UNCHANGED <<serverVars, access, turn>>
      /\ flow[f].snap # Unread
      /\ flow[f].at \in {"clear", "tidy"}
      /\ file' = file \/ file' = [flow[f].snap EXCEPT !.pend = NoOne]
      /\ FlowEnds(f) \/ FlowGoes(f, "cancel")
  BY DEF Clears, Writes, WriteFails, Snap
<1>3. f \in {"enrol", "leave"} BY <1>1, <1>2 DEF WorkKnown, Places, Flows
<1>4. flow[f].snap \in Files BY <1>1, <1>2 DEF Work
<1>5. file' = file \/ file'.held = flow[f].snap.held BY <1>2, <1>4 DEF Files
<1>6. Only(f) /\ flow'[f].snap = Unread /\ flow'[f].at \in {"none", "cancel"}
  BY <1>1, <1>2, EndsOnly, GoesOnly, GoesTo DEF NoFlow
<1>7. ~Handed(flow'[f]) BY <1>6 DEF Handed
<1> QED BY <1>2, <1>3, <1>5, <1>6, <1>7, OthersMove

LEMMA EnrolAlone ==
  ASSUME ~Faults, IInv, AloneInv, PollExpires \/ Checks \/ Resumes \/ LeaveLooks
  PROVE  AloneInv'
<1>1. /\ flow \in [Flows -> Work] /\ {"enrol", "leave"} \subseteq Flows
      /\ flow["leave"] \in Work /\ flow["enrol"] \in Work
  BY DEF IInv, DesktopInv, FlowsInv, Flows
<1>2. UNCHANGED <<serverVars, file, access, turn>> BY DEF PollExpires, Checks, Resumes, LeaveLooks
<1>3. CASE PollExpires
  <2>1. Only("enrol") /\ flow'["enrol"].snap = Unread /\ flow'["enrol"].at = "clear"
    BY <1>1, <1>3, GoesOnly, GoesTo DEF PollExpires
  <2>2. ~Handed(flow'["enrol"]) BY <2>1 DEF Handed
  <2> QED BY <1>2, <2>1, <2>2, OthersMove
<1>4. CASE Checks
  <2>1. PICK at \in {"complete", "clear"} : flow' = [flow EXCEPT !["enrol"].at = at]
    BY <1>4 DEF Checks
  <2>2. /\ Only("enrol") /\ flow'["enrol"].at = at /\ flow["enrol"].at = "check"
        /\ flow'["enrol"].of = flow["enrol"].of /\ flow'["enrol"].snap = flow["enrol"].snap
    BY <1>1, <1>4, <2>1 DEF Only, Work, FileOps, Checks
  <2>3. Handed(flow["enrol"]) BY <2>2 DEF Handed
  <2> QED BY <1>2, <2>2, <2>3, OthersMove
<1>5. CASE Resumes
  <2> DEFINE w == [NoFlow EXCEPT !.at = "waiting", !.of = file.pend]
  <2>1. file.pend \in Installations \cup {NoOne} BY DEF IInv, DesktopInv, StoreInv, Files
  <2>a. NoFlow \in Work /\ NoFlow.snap = Unread BY DEF NoFlow, Work
  <2>2. w \in Work /\ w.at = "waiting" /\ w.snap = Unread BY <2>1, <2>a DEF Work
  <2>3. flow' = [flow EXCEPT !["enrol"] = w] BY <1>5 DEF Resumes
  <2> HIDE DEF w
  <2>4. Only("enrol") /\ flow'["enrol"] = w BY <1>1, <2>2, <2>3 DEF Only
  <2>5. ~Handed(w) BY <2>2 DEF Handed
  <2> QED BY <1>2, <2>2, <2>4, <2>5, OthersMove
<1>6. CASE LeaveLooks
  <2> DEFINE w == [flow["leave"] EXCEPT !.at = "clear", !.of = file.pend]
  <2>1. file.pend \in Installations \cup {NoOne} BY DEF IInv, DesktopInv, StoreInv, Files
  <2>2. w \in Work /\ w.snap = flow["leave"].snap BY <1>1, <2>1 DEF Work, FileOps
  <2>3. flow' = [flow EXCEPT !["leave"] = w]
    <3>1. {file.pend} \cup (IF Faults THEN {NoOne} ELSE {}) = {file.pend} OBVIOUS
    <3> QED BY <1>6, <3>1 DEF LeaveLooks
  <2> HIDE DEF w
  <2>4. Only("leave") /\ flow'["leave"] = w BY <1>1, <2>2, <2>3 DEF Only
  <2> QED BY <1>2, <2>2, <2>4, OthersMove
<1> QED BY <1>3, <1>4, <1>5, <1>6

LEMMA LeaveAlone ==
  ASSUME IInv, AloneInv, Leave
  PROVE  AloneInv'
<1> DEFINE e == flow["enrol"]
           look == [NoFlow EXCEPT !.at = "look"]
           left == CASE e.at = "waiting" -> NoFlow
                     [] e.at \in {"asking", "check"} -> [e EXCEPT !.at = "save", !.slot = NoOne]
                     [] OTHER -> e
<1>1. flow \in [Flows -> Work] /\ e \in Work BY DEF IInv, DesktopInv, FlowsInv, Flows
<1>2. UNCHANGED <<serverVars, file, access, turn>> BY DEF Leave
<1>3. flow' = [flow EXCEPT !["leave"] = look, !["enrol"] = left] BY DEF Leave
<1>4. look.snap = Unread BY DEF NoFlow
<1>5. /\ left.snap = Unread \/ left.snap = e.snap
      /\ left.at # "asking"
      /\ ~Handed(left) \/ left = e
  <2>1. CASE e.at = "waiting"
    <3>1. left = NoFlow BY <2>1
    <3> QED BY <3>1 DEF NoFlow, Handed
  <2>2. CASE e.at \in {"asking", "check"}
    <3>1. left = [e EXCEPT !.at = "save", !.slot = NoOne] BY <2>2
    <3>2. left.at = "save" /\ left.snap = e.snap BY <1>1, <3>1 DEF Work
    <3> QED BY <3>2 DEF Handed
  <2>3. CASE e.at \notin {"asking", "check", "waiting"}
    <3>1. left = e BY <2>3
    <3> QED BY <2>3, <3>1
  <2> QED BY <2>1, <2>2, <2>3
<1> HIDE DEF look, left
<1>6. /\ flow'["leave"] = look /\ flow'["enrol"] = left
      /\ \A f \in Flights : flow'[f] = flow[f]
  BY <1>1, <1>3 DEF Flows
<1>7. OneReader' BY <1>2, <1>4, <1>5, <1>6 DEF AloneInv, OneReader, Flows
<1> QED BY <1>2, <1>5, <1>6, <1>7, FlowsMove

(* What is known of the enrollment that was handed a token.                *)
LEMMA HandedOf ==
  ASSUME IInv, Handed(flow["enrol"])
  PROVE  flow["enrol"].of \in Installations /\ flow["enrol"].of # NoOne
<1>1. WorkKnown("enrol", flow["enrol"]) BY DEF IInv, DesktopInv, FlowsInv, Flows
<1> QED BY <1>1 DEF WorkKnown, Handed

(* Steps that move the refresh or the turn and leave the router alone: the *)
(* desktop holds no token it did not hold.                                 *)
LEMMA RefreshMoves ==
  ASSUME IInv, AloneInv, OneReader', RefreshSafe', UNCHANGED tables,
         flow'["enrol"] = flow["enrol"],
         flow["enrol"].at = "asking" => req'[flow["enrol"].slot] = req[flow["enrol"].slot],
         \A i \in Installations : Holds(i)' => Holds(i),
         Refreshing' \/ turn' # Nothing => file'.held # Nothing,
         Safe(file.held)',
         turn' # Nothing /\ ~(access' /\ ~Refreshing') => Safe(turn)'
  PROVE  AloneInv'
<1> USE DEF tables, enrolmentVars, tokenVars, familyVars
<1>1. StoreSafe'
  <2>1. \A i \in Installations : Holds(i)' => auth'[i] = "consumed" BY DEF AloneInv, StoreSafe
  <2>2. Safe(file.held)' BY DEF Safe
  <2>3. turn' # Nothing /\ ~(access' /\ ~Refreshing') => Safe(turn)' BY DEF Safe
  <2> QED BY <2>1, <2>2, <2>3 DEF StoreSafe
<1>2. Handed(flow["enrol"])' => Handed(flow["enrol"]) BY DEF Handed
<1>3. EnrolSafe' BY <1>2, HandedOf DEF AloneInv, EnrolSafe
<1> QED BY <1>1, <1>3 DEF AloneInv

LEMMA TurnAlone ==
  ASSUME IInv, AloneInv, TurnReads \/ TurnServed \/ AccessExpires
  PROVE  AloneInv'
<1> USE DEF TurnReads, TurnServed, AccessExpires
<1>1. UNCHANGED <<serverVars, file, flow>> OBVIOUS
<1>2. UNCHANGED tables /\ UNCHANGED req BY <1>1 DEF serverVars
<1>3. OneReader' BY <1>1 DEF AloneInv, OneReader
<1>4. RefreshSafe'
  BY <1>1, <1>2 DEF AloneInv, RefreshSafe, tables, tokenVars
<1>5. turn' \in {turn, file.held, Nothing} /\ (turn' = turn => ~access' = ~access \/ turn' = Nothing)
  OBVIOUS
<1>6. \A h : Safe(h)' <=> Safe(h) BY <1>1, <1>2 DEF Safe, tables, tokenVars
<1>7. Refreshing' <=> Refreshing BY <1>1 DEF Refreshing
<1>8. \A i \in Installations : Holds(i)' => Holds(i)
  <2>1. Nothing.of \notin Installations BY DEF Nothing
  <2> QED BY <1>1, <1>5, <1>7, <2>1 DEF Holds
<1>9. Refreshing' \/ turn' # Nothing => file'.held # Nothing
  BY <1>1, <1>7 DEF AloneInv, StoreSafe
<1>10. Safe(file.held)' BY <1>1, <1>6 DEF AloneInv, StoreSafe
<1>11. turn' # Nothing /\ ~(access' /\ ~Refreshing') => Safe(turn)'
  <2>1. CASE turn' = file.held BY <1>6, <2>1 DEF AloneInv, StoreSafe
  <2>2. CASE turn' = turn /\ turn # file.held BY <1>6, <1>7, <2>2 DEF AloneInv, StoreSafe
  <2>3. CASE turn' = Nothing BY <2>3
  <2> QED BY <1>5, <2>1, <2>2, <2>3
<1> QED BY <1>1, <1>2, <1>3, <1>4, <1>8, <1>9, <1>10, <1>11, RefreshMoves

LEMMA StartRefreshAlone ==
  ASSUME IInv, AloneInv, OneFlight, NEW f \in Flights, NEW s \in Slots, StartRefresh(f, s)
  PROVE  AloneInv' /\ OneFlight'
<1> DEFINE w == [NoFlow EXCEPT !.at = "asking", !.of = turn.of, !.tok = turn.tok, !.slot = s]
           q == [NoRequest EXCEPT !.kind = "refresh", !.of = turn.of, !.tok = turn.tok, !.at = "sent"]
<1>1. /\ flow \in [Flows -> Work] /\ req \in [Slots -> Requests] /\ {"refresh", "enrol"} \subseteq Flows
  BY DEF IInv, DesktopInv, FlowsInv, Flows, ServerInv, RequestsInv
<1>a. f = "refresh" /\ flow["refresh"].at = "none" BY DEF StartRefresh, OneFlight, Refreshing
<1>2. /\ turn # Nothing /\ ~access /\ flow["refresh"].at = "none"
      /\ req[s] = NoRequest
      /\ req' = [req EXCEPT ![s] = q]
      /\ flow' = [flow EXCEPT !["refresh"] = w]
      /\ turn' = Nothing
      /\ UNCHANGED tables /\ UNCHANGED <<file, access>>
  BY <1>a DEF StartRefresh, Send
<1>3. /\ w.at = "asking" /\ w.of = turn.of /\ w.tok = turn.tok /\ w.slot = s /\ w.snap = Unread
      /\ q.kind = "refresh" /\ q.at = "sent" /\ q.tok = turn.tok
  BY DEF NoFlow, NoRequest
<1> HIDE DEF w, q
<1>4. /\ req'[s] = q /\ \A r \in Slots \ {s} : req'[r] = req[r]
      /\ flow'["refresh"] = w /\ \A g \in Flows \ {"refresh"} : flow'[g] = flow[g]
  BY <1>1, <1>2
<1>5. ~Refreshing /\ Refreshing' BY <1>2, <1>3, <1>4 DEF Refreshing
<1>6. turn.tok \notin used[turn.of] /\ (file.held = Nothing \/ file.held.tok \notin used[file.held.of])
  BY <1>2, <1>5 DEF AloneInv, StoreSafe, Safe
<1>7. used' = used BY <1>2 DEF tables, tokenVars
<1>8. OneReader' BY <1>1, <1>2, <1>3, <1>4 DEF AloneInv, OneReader
<1>9. RefreshSafe'
  <2>1. \A r \in Slots \ {s} : req'[r].kind # "refresh" BY <1>2, <1>4 DEF AloneInv, RefreshSafe
  <2> QED BY <1>3, <1>4, <1>6, <1>7, <2>1 DEF RefreshSafe
<1>10. flow["enrol"].at = "asking" => req'[flow["enrol"].slot] = req[flow["enrol"].slot]
  BY <1>1, <1>2, <1>4, AskingKnown DEF IInv, NoRequest
<1>11. \A i \in Installations : Holds(i)' => Holds(i)
  <2>1. Nothing.of \notin Installations BY DEF Nothing
  <2> QED BY <1>2, <1>3, <1>4, <1>5, <2>1 DEF Holds
<1>12. Safe(file.held)' BY <1>2, <1>6, <1>7 DEF Safe
<1>13. file'.held # Nothing BY <1>2 DEF AloneInv, StoreSafe
<1>14. AloneInv' BY <1>1, <1>2, <1>4, <1>8, <1>9, <1>10, <1>11, <1>12, <1>13, RefreshMoves
<1>15. OneFlight' BY <1>4, <1>5, <1>a DEF StartRefresh, OneFlight, Flows
<1> QED BY <1>14, <1>15

LEMMA RefreshHearsAlone ==
  ASSUME IInv, AloneInv, OneFlight, NEW f \in Flights, NEW s \in Slots, RefreshHears(f, s)
  PROVE  AloneInv' /\ OneFlight'
<1> DEFINE w == flow["refresh"]
           x == flow'["refresh"]
<1>1. /\ flow \in [Flows -> Work] /\ req \in [Slots -> Requests] /\ {"refresh", "enrol"} \subseteq Flows
      /\ w \in Work
  BY DEF IInv, DesktopInv, FlowsInv, Flows, ServerInv, RequestsInv
<1>a. f = "refresh" BY DEF RefreshHears, Heard, OneFlight
<1>2. /\ w.at = "asking" /\ w.slot = s /\ req[s].at = "answered"
      /\ req' = [req EXCEPT ![s] = NoRequest]
      /\ flow' = [flow EXCEPT !["refresh"] =
           [@ EXCEPT !.at = IF req[s].answer = "granted" THEN "rotate" ELSE "mark",
                     !.tok = req[s].tok, !.slot = NoOne]]
      /\ UNCHANGED tables /\ UNCHANGED <<file, access, turn>>
  BY <1>a DEF RefreshHears, Heard
<1>3. /\ x.at = IF req[s].answer = "granted" THEN "rotate" ELSE "mark"
      /\ x.of = w.of /\ x.tok = req[s].tok /\ x.snap = w.snap
      /\ \A g \in Flows \ {"refresh"} : flow'[g] = flow[g]
      /\ req'[s] = NoRequest /\ \A r \in Slots \ {s} : req'[r] = req[r]
  BY <1>1, <1>2 DEF Work
<1>4. Refreshing /\ Refreshing' BY <1>2, <1>3 DEF Refreshing
<1>5. used' = used BY <1>2 DEF tables, tokenVars
<1>6. IF req[s].answer = "granted" THEN req[s].tok \notin used[w.of] ELSE w.tok \notin used[w.of]
  BY <1>2 DEF AloneInv, RefreshSafe
<1>7. OneReader'
  <2>1. \A g \in Flows : flow'[g].snap = flow[g].snap BY <1>3
  <2> QED BY <1>2, <2>1 DEF AloneInv, OneReader
<1>8. RefreshSafe'
  <2>1. \A r \in Slots : req'[r].kind # "refresh"
    BY <1>2, <1>3 DEF AloneInv, RefreshSafe, NoRequest
  <2> QED BY <1>3, <1>5, <1>6, <2>1 DEF RefreshSafe
<1>9. flow["enrol"].at = "asking" => req'[flow["enrol"].slot] = req[flow["enrol"].slot]
  <2>1. flow["enrol"].at = "asking" => flow["enrol"].slot # s
    BY <1>1, <1>2 DEF IInv, DesktopInv, FlowsInv, OwnSlots
  <2> QED BY <1>1, <1>3, <2>1, AskingKnown DEF IInv
<1>10. \A i : Holds(i)' <=> Holds(i) BY <1>2, <1>3, <1>4 DEF Holds
<1>11. \A h : Safe(h) => Safe(h)'
  BY <1>2, <1>3, <1>5, <1>6 DEF Safe
<1>12. AloneInv'
  BY <1>1, <1>2, <1>3, <1>4, <1>7, <1>8, <1>9, <1>10, <1>11, RefreshMoves DEF AloneInv, StoreSafe
<1>13. OneFlight' BY <1>3, <1>4 DEF RefreshHears, OneFlight, Flows
<1> QED BY <1>12, <1>13

LEMMA RefreshEndsAlone ==
  ASSUME ~Faults, IInv, AloneInv, OneFlight, NEW f \in Flights,
         StoresRotation(f) \/ MarksReconnect(f)
  PROVE  AloneInv' /\ OneFlight'
<1> DEFINE w == flow["refresh"]
<1>1. flow \in [Flows -> Work] /\ {"refresh", "enrol"} \subseteq Flows /\ WorkKnown("refresh", w)
  BY DEF IInv, DesktopInv, FlowsInv, Flows
<1>a. f = "refresh" BY DEF StoresRotation, MarksReconnect, Writes, WriteFails, OneFlight
<1>2. /\ w.snap # Unread /\ w.at \in {"rotate", "mark"}
      /\ UNCHANGED serverVars /\ UNCHANGED turn
      /\ FlowEnds("refresh")
  BY <1>a DEF StoresRotation, MarksReconnect, Writes, WriteFails, Snap, FlightEnds
<1>3. UNCHANGED tables /\ UNCHANGED req /\ used' = used BY <1>2 DEF serverVars, tables, tokenVars
<1>4. flow'["refresh"] = NoFlow /\ \A g \in Flows \ {"refresh"} : flow'[g] = flow[g]
  BY <1>1, <1>2, EndsOnly DEF Only
<1>5. w.snap = file /\ \A g \in Flows \ {"refresh"} : flow[g].snap = Unread
  BY <1>1, <1>2 DEF AloneInv, OneReader
<1>6. Refreshing /\ ~Refreshing' BY <1>2, <1>4 DEF Refreshing, NoFlow
<1>7. OneReader' BY <1>4, <1>5 DEF OneReader, NoFlow
<1>8. RefreshSafe' BY <1>2, <1>3, <1>4 DEF AloneInv, RefreshSafe, NoFlow
<1>9. flow'["enrol"] = flow["enrol"] BY <1>1, <1>4
<1>10. file.held # Nothing BY <1>6 DEF AloneInv, StoreSafe
<1>11. ASSUME StoresRotation(f) PROVE AloneInv'
  <2> DEFINE h == [of |-> w.of, tok |-> w.tok]
  <2>1. /\ file' = [file EXCEPT !.held = h] /\ access' = TRUE /\ w.at = "rotate"
    BY <1>5, <1>11, <1>a DEF StoresRotation, Writes, Snap
  <2>2. file \in Files BY DEF IInv, DesktopInv, StoreInv
  <2>3. file'.held = h BY <2>1, <2>2 DEF Files
  <2>4. w.of \in Installations BY <1>1, <2>1 DEF WorkKnown
  <2>5. h # Nothing
    <3>1. h.of = w.of /\ Nothing.of = NoOne BY DEF Nothing
    <3> QED BY <2>4, <3>1
  <2>6. w.tok \notin used[w.of] BY <2>1 DEF AloneInv, RefreshSafe
  <2>7. Safe(file.held)' BY <1>3, <2>3, <2>6 DEF Safe
  <2>8. \A i \in Installations : Holds(i)' => Holds(i) BY <1>2, <1>6, <2>3 DEF Holds
  <2> QED BY <1>3, <1>6, <1>7, <1>8, <1>9, <2>1, <2>3, <2>5, <2>7, <2>8, RefreshMoves
<1>12. ASSUME MarksReconnect(f) PROVE AloneInv'
  <2>1. file' = file /\ w.at = "mark" BY <1>5, <1>10, <1>12, <1>a DEF MarksReconnect, Writes, WriteFails, Snap
  <2>2. \A h : Safe(h) => Safe(h)' BY <1>3, <2>1 DEF Safe
  <2>3. \A i \in Installations : Holds(i)' => Holds(i) BY <1>2, <1>6, <2>1 DEF Holds
  <2>4. Safe(file.held)' /\ (turn' # Nothing => Safe(turn)')
    BY <1>2, <1>6, <2>1, <2>2 DEF AloneInv, StoreSafe
  <2> QED BY <1>2, <1>3, <1>6, <1>7, <1>8, <1>9, <1>10, <2>1, <2>3, <2>4, RefreshMoves
<1>13. OneFlight'
  <2>1. flight' = "none" BY DEF StoresRotation, MarksReconnect, FlightEnds
  <2>2. flow'["again"] = flow["again"] BY <1>4 DEF Flows
  <2> QED BY <1>6, <2>1, <2>2 DEF OneFlight
<1> QED BY <1>11, <1>12, <1>13

(* A request is sent that is no refresh, or an answer is heard.            *)
LEMMA PollsAlone ==
  ASSUME NEW s \in Slots, IInv, AloneInv, Polls(s)
  PROVE  AloneInv'
<1> DEFINE e == flow["enrol"]
           q == [NoRequest EXCEPT !.kind = "poll", !.of = e.of, !.tok = 0, !.at = "sent"]
<1>1. /\ flow \in [Flows -> Work] /\ req \in [Slots -> Requests] /\ {"refresh", "enrol"} \subseteq Flows
      /\ e \in Work
  BY DEF IInv, DesktopInv, FlowsInv, Flows, ServerInv, RequestsInv
<1>2. /\ req[s] = NoRequest /\ req' = [req EXCEPT ![s] = q]
      /\ flow' = [flow EXCEPT !["enrol"].at = "asking", !["enrol"].slot = s]
      /\ UNCHANGED tables /\ UNCHANGED <<file, access, turn>>
  BY DEF Polls, Send
<1>3. q.kind = "poll" /\ q.at = "sent" BY DEF NoRequest
<1> HIDE DEF q
<1>4. /\ req'[s] = q /\ \A r \in Slots \ {s} : req'[r] = req[r]
      /\ flow'["enrol"].at = "asking" /\ flow'["enrol"].slot = s /\ flow'["enrol"].snap = e.snap
      /\ \A g \in Flows \ {"enrol"} : flow'[g] = flow[g]
  BY <1>1, <1>2 DEF Work
<1>5. OneReader'
  <2>1. \A g \in Flows : flow'[g].snap = flow[g].snap BY <1>4
  <2> QED BY <1>2, <2>1 DEF AloneInv, OneReader
<1>6. ~Handed(flow["enrol"])' BY <1>3, <1>4 DEF Handed
<1>7. flow["refresh"].at = "asking" => req'[flow["refresh"].slot] = req[flow["refresh"].slot]
  BY <1>1, <1>2, <1>4, AskingKnown DEF IInv, NoRequest
<1>8. \A r \in Slots : req'[r].kind = "refresh" => req[r].kind = "refresh" BY <1>3, <1>4
<1> QED BY <1>1, <1>2, <1>3, <1>4, <1>5, <1>6, <1>7, <1>8, RequestsMove

LEMMA PollHearsAlone ==
  ASSUME NEW s \in Slots, IInv, AloneInv, PollHears(s)
  PROVE  AloneInv'
<1> DEFINE e == flow["enrol"]
           at == CASE req[s].answer = "pending" -> "save"
                   [] req[s].answer = "granted" -> "check"
                   [] OTHER -> "clear"
<1>1. /\ flow \in [Flows -> Work] /\ req \in [Slots -> Requests] /\ {"refresh", "enrol"} \subseteq Flows
      /\ e \in Work
  BY DEF IInv, DesktopInv, FlowsInv, Flows, ServerInv, RequestsInv
<1>2. at \in {"save", "check", "clear"} /\ (at = "check" => req[s].answer = "granted") OBVIOUS
<1>3. flow' = [flow EXCEPT !["enrol"] = [@ EXCEPT !.at = at, !.tok = req[s].tok, !.slot = NoOne]]
  BY DEF PollHears
<1> HIDE DEF at
<1>4. /\ e.at = "asking" /\ e.slot = s /\ req[s].at = "answered"
      /\ req' = [req EXCEPT ![s] = NoRequest]
      /\ UNCHANGED tables /\ UNCHANGED <<file, access, turn>>
  BY DEF PollHears, Heard
<1>5. /\ flow'["enrol"].at = at /\ flow'["enrol"].of = e.of /\ flow'["enrol"].snap = e.snap
      /\ \A g \in Flows \ {"enrol"} : flow'[g] = flow[g]
      /\ req'[s] = NoRequest /\ \A r \in Slots \ {s} : req'[r] = req[r]
  BY <1>1, <1>3, <1>4 DEF Work
<1>6. OneReader'
  <2>1. \A g \in Flows : flow'[g].snap = flow[g].snap BY <1>5
  <2> QED BY <1>4, <2>1 DEF AloneInv, OneReader
<1>7. flow["refresh"].at = "asking" => req'[flow["refresh"].slot] = req[flow["refresh"].slot]
  <2>1. flow["refresh"].at = "asking" => flow["refresh"].slot # s
    BY <1>1, <1>4 DEF IInv, DesktopInv, FlowsInv, OwnSlots
  <2> QED BY <1>1, <1>5, <2>1, AskingKnown DEF IInv
<1>8. Handed(flow["enrol"])' => Handed(flow["enrol"])
  BY <1>2, <1>4, <1>5 DEF Handed
<1>9. \A r \in Slots : req'[r].kind = "refresh" => req[r].kind = "refresh" BY <1>5 DEF NoRequest
<1> QED BY <1>1, <1>2, <1>4, <1>5, <1>6, <1>7, <1>8, <1>9, RequestsMove

LEMMA CancelsAlone ==
  ASSUME NEW f \in Flows, NEW s \in Slots, IInv, AloneInv, Cancels(f, s)
  PROVE  AloneInv'
<1> DEFINE q == [NoRequest EXCEPT !.kind = "cancel", !.of = flow[f].of, !.tok = 0, !.at = "sent"]
<1>1. /\ flow \in [Flows -> Work] /\ req \in [Slots -> Requests] /\ {"refresh", "enrol"} \subseteq Flows
  BY DEF IInv, DesktopInv, FlowsInv, Flows, ServerInv, RequestsInv
<1>2. f \notin Flights
  BY DEF Cancels, IInv, DesktopInv, FlowsInv, WorkKnown, Places
<1>3. /\ req[s] = NoRequest /\ req' = [req EXCEPT ![s] = q]
      /\ FlowEnds(f) \/ FlowGoes(f, "tidy")
      /\ UNCHANGED tables /\ UNCHANGED <<file, access, turn>>
  BY DEF Cancels, Send
<1>4. q.kind = "cancel" BY DEF NoRequest
<1> HIDE DEF q
<1>5. /\ req'[s] = q /\ \A r \in Slots \ {s} : req'[r] = req[r]
      /\ flow'[f].at \in {"none", "tidy"} /\ flow'[f].snap = Unread
      /\ \A g \in Flows \ {f} : flow'[g] = flow[g]
  BY <1>1, <1>3, EndsOnly, GoesOnly, GoesTo DEF Only, NoFlow
<1>6. OneReader' BY <1>3, <1>5 DEF AloneInv, OneReader
<1>7. \A g \in Flows : flow[g].at = "asking" => req'[flow[g].slot] = req[flow[g].slot]
  BY <1>3, <1>5, AskingKnown DEF IInv, NoRequest
<1>8. flow'["enrol"] = flow["enrol"] \/ flow'["enrol"].at \in {"none", "tidy"} BY <1>1, <1>5
<1>9. flow'["enrol"].at = "asking" => req'[flow'["enrol"].slot].kind = "poll"
  BY <1>1, <1>7, <1>8 DEF AloneInv, EnrolSafe
<1>10. Handed(flow["enrol"])' => Handed(flow["enrol"]) /\ flow'["enrol"].of = flow["enrol"].of
  BY <1>1, <1>7, <1>8 DEF Handed
<1>11. \A r \in Slots : req'[r].kind = "refresh" => req[r].kind = "refresh" BY <1>4, <1>5
<1>12. flow'["refresh"] = flow["refresh"] BY <1>1, <1>2, <1>5
<1> QED BY <1>1, <1>3, <1>6, <1>7, <1>9, <1>10, <1>11, <1>12, RequestsMove

LEMMA ForgottenAlone ==
  ASSUME NEW s \in Slots, IInv, AloneInv, Forgotten(s)
  PROVE  AloneInv'
<1>1. /\ req \in [Slots -> Requests] /\ {"refresh", "enrol"} \subseteq Flows
  BY DEF IInv, DesktopInv, Flows, ServerInv, RequestsInv
<1>2. /\ req' = [req EXCEPT ![s] = NoRequest] /\ \A g \in Flows : flow[g].slot # s
      /\ UNCHANGED tables /\ UNCHANGED <<file, access, turn, flow>>
  BY DEF Forgotten, Abandoned, AnyClientHears, desktopVars
<1>3. req'[s] = NoRequest /\ \A r \in Slots \ {s} : req'[r] = req[r] BY <1>1, <1>2
<1>4. \A g \in Flows : flow[g].at = "asking" => req'[flow[g].slot] = req[flow[g].slot]
  BY <1>2, <1>3, AskingKnown DEF IInv
<1>5. OneReader' BY <1>2 DEF AloneInv, OneReader
<1>6. \A r \in Slots : req'[r].kind = "refresh" => req[r].kind = "refresh" BY <1>3 DEF NoRequest
<1>7. Handed(flow["enrol"])' => Handed(flow["enrol"]) BY <1>1, <1>2, <1>4 DEF Handed
<1>8. flow'["enrol"].at = "asking" => req'[flow'["enrol"].slot].kind = "poll"
  BY <1>1, <1>2, <1>4 DEF AloneInv, EnrolSafe
<1> QED BY <1>1, <1>2, <1>4, <1>5, <1>6, <1>7, <1>8, RequestsMove

(* The new installation replaces the one before.                           *)
LEMMA CompletesAlone ==
  ASSUME IInv, AloneInv, Completes
  PROVE  AloneInv'
<1> DEFINE e == flow["enrol"]
           h == [of |-> e.of, tok |-> e.tok]
<1>1. flow \in [Flows -> Work] /\ {"refresh", "enrol"} \subseteq Flows /\ WorkKnown("enrol", e)
  BY DEF IInv, DesktopInv, FlowsInv, Flows
<1>2. /\ e.snap # Unread /\ e.at = "complete"
      /\ file' = [held |-> h, pend |-> NoOne]
      /\ access' = TRUE
      /\ UNCHANGED serverVars /\ UNCHANGED turn
      /\ FlowEnds("enrol")
  BY DEF Completes, Writes, Snap
<1>3. UNCHANGED tables /\ UNCHANGED req /\ used' = used /\ auth' = auth /\ inst' = inst
  BY <1>2 DEF serverVars, tables, tokenVars, enrolmentVars, familyVars
<1>4. flow'["enrol"] = NoFlow /\ \A g \in Flows \ {"enrol"} : flow'[g] = flow[g]
  BY <1>1, <1>2, EndsOnly DEF Only
<1>5. \A g \in Flows \ {"enrol"} : flow[g].snap = Unread
  BY <1>1, <1>2 DEF AloneInv, OneReader
<1>6. OneReader' BY <1>4, <1>5 DEF OneReader, NoFlow
<1>7. Handed(e) BY <1>2 DEF Handed
<1>8. e.of \in Installations /\ auth[e.of] = "consumed" /\ used[e.of] = {}
  BY <1>7, HandedOf DEF AloneInv, EnrolSafe
<1>9. RefreshSafe' BY <1>1, <1>3, <1>4 DEF AloneInv, RefreshSafe
<1>10. EnrolSafe'
  <2>1. ~Handed(flow["enrol"])' BY <1>4 DEF Handed, NoFlow
  <2> QED BY <1>3, <1>4, <2>1 DEF AloneInv, EnrolSafe, NoFlow
<1>11. file'.held = h /\ h.of = e.of /\ h.tok = e.tok BY <1>2
<1>12. Refreshing' <=> Refreshing BY <1>1, <1>4 DEF Refreshing
<1>13. StoreSafe'
  <2>1. file'.held # Nothing
    <3>1. Nothing.of = NoOne BY DEF Nothing
    <3> QED BY <1>8, <1>11, <3>1
  <2>2. Safe(file.held)' BY <1>3, <1>8, <1>11 DEF Safe
  <2>3. \A i \in Installations : Holds(i)' => Holds(i) \/ i = e.of
    BY <1>1, <1>2, <1>4, <1>11, <1>12 DEF Holds
  <2>4. \A i \in Installations : Holds(i)' => auth'[i] = "consumed"
    BY <1>3, <1>8, <2>3 DEF AloneInv, StoreSafe
  <2>5. turn' # Nothing /\ ~(access' /\ ~Refreshing') => Safe(turn)'
    <3>1. Safe(turn) => Safe(turn)' BY <1>1, <1>2, <1>3, <1>4 DEF Safe
    <3> QED BY <1>2, <1>12, <3>1 DEF AloneInv, StoreSafe
  <2> QED BY <2>1, <2>2, <2>4, <2>5 DEF StoreSafe
<1> QED BY <1>6, <1>9, <1>10, <1>13 DEF AloneInv

LEMMA StartEnrolmentAlone ==
  ASSUME NEW i \in Installations, IInv, AloneInv, StartEnrolment(i)
  PROVE  AloneInv'
<1>a. PICK at \in {"store", "tidy"} :
        flow' = [flow EXCEPT !["enrol"] = [NoFlow EXCEPT !.at = at, !.of = i]]
  BY DEF StartEnrolment
<1> DEFINE w == [NoFlow EXCEPT !.at = at, !.of = i]
<1>1. /\ flow \in [Flows -> Work] /\ {"refresh", "enrol"} \subseteq Flows /\ TablesOK
  BY DEF IInv, DesktopInv, FlowsInv, Flows, ServerInv, Tables
<1>2. /\ auth[i] = "none" /\ auth' = [auth EXCEPT ![i] = "pending"]
      /\ inst' = [inst EXCEPT ![i] = "pending"] /\ used' = used
      /\ flow' = [flow EXCEPT !["enrol"] = w]
      /\ UNCHANGED <<req, file, access, turn>>
  BY <1>a DEF StartEnrolment, CreateAuthorization, tokenVars
<1>3. w.at \in {"store", "tidy"} /\ w.snap = Unread BY DEF NoFlow
<1> HIDE DEF w
<1>4. flow'["enrol"] = w /\ \A g \in Flows \ {"enrol"} : flow'[g] = flow[g] BY <1>1, <1>2
<1>5. OneReader' BY <1>2, <1>3, <1>4 DEF AloneInv, OneReader
<1>6. \A j \in Installations : /\ auth'[j] = "consumed" <=> auth[j] = "consumed"
                               /\ auth'[j] = "consumed" => inst'[j] = inst[j]
  BY <1>1, <1>2 DEF TablesOK
<1>7. RefreshSafe' BY <1>1, <1>2, <1>4 DEF AloneInv, RefreshSafe
<1>8. EnrolSafe' BY <1>3, <1>4, <1>6 DEF AloneInv, EnrolSafe, Handed
<1>9. StoreSafe'
  <2>1. Refreshing' <=> Refreshing BY <1>1, <1>4 DEF Refreshing
  <2>2. \A j : Holds(j)' <=> Holds(j) BY <1>1, <1>2, <1>4, <2>1 DEF Holds
  <2>3. Safe(file.held)' /\ (Safe(turn) => Safe(turn)')
    BY <1>1, <1>2, <1>4 DEF AloneInv, StoreSafe, Safe
  <2> QED BY <1>2, <1>6, <2>1, <2>2, <2>3 DEF AloneInv, StoreSafe
<1> QED BY <1>5, <1>7, <1>8, <1>9 DEF AloneInv

-----------------------------------------------------------------------------
(* The steps of the router, which leave the desktop's variables alone.     *)
Surely(i) ==
  /\ auth'[i] = "consumed" <=> auth[i] = "consumed"
  /\ auth'[i] = "consumed" => inst'[i] # "pending"

(* A handler looks on or refuses; it issues nothing.                       *)
Looked(r) ==
  /\ req[r].at \in {"sent", "found"}
  /\ req'[r].kind = req[r].kind
  /\ \/ req'[r].at = "found" /\ req'[r].tok = req[r].tok
     \/ req'[r].at = "answered" /\ req'[r].answer # "granted"

LEMMA RouterQuiet ==
  ASSUME IInv, AloneInv, UNCHANGED desktopVars, used' = used,
         \A i \in Installations : Surely(i),
         \A r \in Slots : req'[r] = req[r] \/ Looked(r)
  PROVE  AloneInv'
<1> USE DEF desktopVars
<1>1. {"refresh", "enrol"} \subseteq Flows /\ UNCHANGED <<flow, file, turn, access>> BY DEF Flows
<1>2. OneReader' BY DEF AloneInv, OneReader
<1>3. \A g \in Flows : flow[g].at = "asking" => flow[g].slot \in Slots BY AskingKnown DEF IInv
<1>4. StoreSafe'
  <2>1. Refreshing' <=> Refreshing BY DEF Refreshing
  <2>2. \A j : Holds(j)' <=> Holds(j) BY <2>1 DEF Holds
  <2>3. Safe(file.held)' /\ (Safe(turn) => Safe(turn)') BY DEF AloneInv, StoreSafe, Safe
  <2> QED BY <2>1, <2>2, <2>3 DEF AloneInv, StoreSafe, Surely
<1>5. RefreshSafe'
  <2> DEFINE w == flow["refresh"]
             q == req[w.slot]
  <2>1. \A r \in Slots : req'[r].kind = req[r].kind BY DEF Looked
  <2>2. ASSUME w.at = "asking"
        PROVE  /\ q'.at \in {"sent", "found"} => q'.tok = w.tok
               /\ q'.at # "reuse"
               /\ IF q'.at = "answered" /\ q'.answer = "granted" THEN q'.tok \notin used[w.of]
                  ELSE w.tok \notin used[w.of]
    <3>1. w.slot \in Slots BY <1>1, <1>3, <2>2
    <3>2. q' = req'[w.slot] BY <1>1
    <3>3. CASE q' = q BY <2>2, <3>3 DEF AloneInv, RefreshSafe
    <3>4. CASE Looked(w.slot)
      <4>1. /\ q.at \in {"sent", "found"} /\ q.tok = w.tok /\ w.tok \notin used[w.of]
        BY <2>2, <3>4 DEF Looked, AloneInv, RefreshSafe
      <4> QED BY <3>2, <3>4, <4>1 DEF Looked
    <3> QED BY <3>1, <3>2, <3>3, <3>4
  <2> HIDE DEF q
  <2>3. w.at = "asking" => q'.kind = q.kind BY <1>1, <1>3, <2>1 DEF q
  <2>4. q' = req'[w'.slot] /\ q = req[w.slot] /\ w' = w BY <1>1 DEF q
  <2> HIDE DEF w
  <2> QED BY <2>1, <2>2, <2>3, <2>4 DEF AloneInv, RefreshSafe, w
<1>6. Handed(flow["enrol"])' => Handed(flow["enrol"]) BY <1>1, <1>3 DEF Handed, Looked
<1>7. EnrolSafe'
  <2>1. flow["enrol"].at = "asking" => req'[flow["enrol"].slot].kind = "poll"
    BY <1>1, <1>3 DEF AloneInv, EnrolSafe, Looked
  <2>2. \A j : Holds(j)' <=> Holds(j) BY DEF Holds, Refreshing
  <2> QED BY <1>6, <2>1, <2>2, HandedOf DEF AloneInv, EnrolSafe, Surely
<1> QED BY <1>2, <1>4, <1>5, <1>7 DEF AloneInv

(* The request of the refresh in flight.                                   *)
LEMMA RefreshRequest ==
  ASSUME NEW s \in Slots, IInv, AloneInv, req[s].kind = "refresh"
  PROVE  LET w == flow["refresh"] IN
         /\ w.at = "asking" /\ w.slot = s /\ req[s].of = w.of /\ w.of \in Installations
         /\ req[s].at # "reuse"
         /\ req[s].at \in {"sent", "found"} => req[s].tok = w.tok /\ w.tok \notin used[w.of]
<1>1. "refresh" \in Flows BY DEF Flows
<1>2. flow["refresh"].at = "asking" /\ flow["refresh"].slot = s BY DEF AloneInv, RefreshSafe
<1>3. req[s].of = flow["refresh"].of /\ flow["refresh"].of \in Installations
  BY <1>1, <1>2, AskingKnown DEF IInv
<1> QED BY <1>2, <1>3 DEF AloneInv, RefreshSafe

LEMMA RotateAlone ==
  ASSUME NEW s \in Slots, IInv, AloneInv, Rotate(s), UNCHANGED desktopVars
  PROVE  AloneInv'
<1> USE DEF desktopVars
<1> DEFINE w == flow["refresh"]
           i == req[s].of
           k == req[s].tok
<1>1. /\ req[s].kind = "refresh" /\ req[s].at = "found" BY DEF Rotate, Is
<1>2. /\ w.at = "asking" /\ w.slot = s /\ i = w.of /\ i \in Installations
      /\ k = w.tok /\ k \notin used[i]
  BY <1>1, RefreshRequest
<1>3. /\ {"refresh", "enrol"} \subseteq Flows /\ TablesOK /\ req \in [Slots -> Requests]
      /\ k \in 0 .. MaxTokens
  BY DEF Flows, IInv, ServerInv, Tables, RequestsInv, Requests
<1>4. UNCHANGED <<auth, inst>> BY DEF Rotate, enrolmentVars, familyVars
<1>5. CASE Answer(s, "refused", k) /\ UNCHANGED tokenVars
  <2>1. Moved(s) /\ req'[s].at = "answered" /\ req'[s].answer = "refused"
    BY <1>3, <1>5, AnswerMoves
  <2>2. Looked(s) BY <1>1, <2>1 DEF Looked, Moved
  <2>3. \A j \in Installations : Surely(j) BY <1>4 DEF Surely, AloneInv, EnrolSafe
  <2> QED BY <1>5, <2>1, <2>2, <2>3, RouterQuiet DEF Moved, tokenVars
<1>6. CASE /\ issued[i] < MaxTokens
           /\ used' = [used EXCEPT ![i] = @ \cup {k}]
           /\ Answer(s, "granted", issued[i] + 1)
  <2>0. issued[i] \in 0 .. MaxTokens /\ issued[i] + 1 \in 0 .. MaxTokens BY <1>2, <1>3, <1>6 DEF TablesOK
  <2>1. /\ Moved(s) /\ req'[s].at = "answered" /\ req'[s].answer = "granted"
        /\ req'[s].tok = issued[i] + 1
    BY <1>3, <1>6, <2>0, AnswerMoves
  <2>2. /\ used'[i] = used[i] \cup {k}
        /\ \A j \in Installations \ {i} : used'[j] = used[j]
    BY <1>2, <1>3, <1>6 DEF TablesOK
  <2>3. issued[i] + 1 \notin used'[i]
    <3>1. Tokens(i) /\ Asked(s) BY <1>2 DEF IInv, ServerInv, Tables, RequestsInv
    <3>2. used[i] \subseteq 1 .. issued[i] /\ k \in 1 .. issued[i] BY <1>1, <3>1 DEF Tokens, Asked
    <3> QED BY <2>0, <2>2, <3>2
  <2>4. OneReader' BY DEF AloneInv, OneReader
  <2>5. flow["enrol"].at = "asking" =>
          flow["enrol"].slot \in Slots \ {s}
    BY <1>1, <1>3, AskingKnown DEF IInv, AloneInv, EnrolSafe
  <2>6. Refreshing /\ Refreshing' BY <1>2 DEF Refreshing
  <2>7. \A j : Holds(j)' <=> Holds(j) BY <2>6 DEF Holds
  <2>8. ASSUME NEW h, h = Nothing \/ h.of \in Installations, Safe(h) PROVE Safe(h)'
    <3>1. CASE h.of = i /\ h.tok = k BY <1>2, <3>1 DEF Safe
    <3>2. CASE h.of = i /\ h.tok # k BY <1>2, <2>2, <2>8, <3>2 DEF Safe
    <3>3. CASE h.of # i /\ h # Nothing BY <1>2, <2>2, <2>8, <3>3 DEF Safe
    <3> QED BY <3>1, <3>2, <3>3 DEF Safe
  <2>9. StoreSafe'
    <3>1. /\ file.held = Nothing \/ file.held.of \in Installations
          /\ turn = Nothing \/ turn.of \in Installations
      BY DEF IInv, DesktopInv, StoreInv, FileKnown, HeldKnown
    <3>2. Safe(file.held)' /\ (Safe(turn) => Safe(turn)')
      <4>1. Safe(file.held) BY DEF AloneInv, StoreSafe
      <4>2. Safe(file.held)' BY <2>8, <3>1, <4>1 DEF Safe
      <4>3. Safe(turn) => Safe(turn)' BY <2>8, <3>1 DEF Safe
      <4> QED BY <4>2, <4>3
    <3> QED BY <1>4, <2>6, <2>7, <3>2 DEF AloneInv, StoreSafe
  <2>10. RefreshSafe'
    <3>1. \A r \in Slots : req'[r].kind = req[r].kind BY <2>1 DEF Moved
    <3> QED BY <1>1, <1>2, <2>1, <2>2, <2>3, <3>1 DEF AloneInv, RefreshSafe
  <2>11. Handed(flow["enrol"])' => Handed(flow["enrol"]) BY <2>1, <2>5 DEF Handed, Moved
  <2>12. EnrolSafe'
    <3>1. flow["enrol"].at = "asking" => req'[flow["enrol"].slot].kind = "poll"
      BY <2>1, <2>5 DEF AloneInv, EnrolSafe, Moved
    <3>2. ASSUME Handed(flow["enrol"])
          PROVE  /\ auth'[flow["enrol"].of] = "consumed" /\ ~Holds(flow["enrol"].of)
                 /\ used'[flow["enrol"].of] = {}
      <4>1. flow["enrol"].of \in Installations BY <3>2, HandedOf
      <4>2. flow["enrol"].of # i BY <1>2, <2>6, <3>2 DEF AloneInv, EnrolSafe, Holds
      <4> QED BY <1>4, <2>2, <3>2, <4>1, <4>2 DEF AloneInv, EnrolSafe
    <3> QED BY <1>4, <2>7, <2>11, <3>1, <3>2 DEF AloneInv, EnrolSafe
  <2> QED BY <2>4, <2>9, <2>10, <2>12 DEF AloneInv
<1> QED BY <1>2, <1>5, <1>6 DEF Rotate

LEMMA RedeemAlone ==
  ASSUME NEW s \in Slots, IInv, AloneInv, Redeem(s), UNCHANGED desktopVars
  PROVE  AloneInv'
<1> USE DEF desktopVars
<1> DEFINE i == req[s].of
           e == flow["enrol"]
<1>1. req[s].kind = "poll" /\ req[s].at = "found" BY DEF Redeem, Is
<1>2. /\ {"refresh", "enrol"} \subseteq Flows /\ TablesOK /\ req \in [Slots -> Requests]
      /\ Asked(s) /\ i \in Installations /\ Life(i) /\ Tokens(i)
  BY <1>1, RequestFacts DEF Flows, IInv, ServerInv, Tables, RequestsInv, Asked
<1>3. UNCHANGED <<used, inst>> BY DEF Redeem
<1>4. CASE /\ \A j \in Installations : auth'[j] = "consumed" <=> auth[j] = "consumed"
           /\ \E answer \in {"pending", "refused", "failed"} : Answer(s, answer, 0)
  <2>1. PICK answer \in {"pending", "refused", "failed"} : Answer(s, answer, 0) BY <1>4
  <2>2. Moved(s) /\ req'[s].at = "answered" /\ req'[s].answer = answer
    BY <1>2, <2>1, AnswerMoves
  <2>3. Looked(s) BY <1>1, <2>2 DEF Looked, Moved
  <2>4. \A j \in Installations : Surely(j) BY <1>3, <1>4 DEF Surely, AloneInv, EnrolSafe
  <2> QED BY <1>3, <2>2, <2>3, <2>4, RouterQuiet DEF Moved
<1>5. CASE /\ auth[i] = "approved" /\ inst[i] = "active"
           /\ Grant(i)
           /\ Answer(s, "granted", issued'[i])
  <2>1. issued'[i] \in 0 .. MaxTokens BY <1>2, <1>5 DEF Grant, TablesOK
  <2>2. Moved(s) /\ req'[s].at = "answered" /\ req'[s].answer = "granted"
    BY <1>2, <1>5, <2>1, AnswerMoves
  <2>3. auth' = [auth EXCEPT ![i] = "consumed"] BY <1>5 DEF Grant
  <2>4. used[i] = {} BY <1>2, <1>5 DEF Life, Tokens
  <2>5. ~Holds(i) BY <1>2, <1>5 DEF AloneInv, StoreSafe
  <2>6. OneReader' BY DEF AloneInv, OneReader
  <2>7. \A j : Holds(j)' <=> Holds(j) BY DEF Holds, Refreshing
  <2>8. \A j \in Installations : auth[j] = "consumed" => auth'[j] = "consumed"
    BY <1>2, <2>3 DEF TablesOK
  <2>9. StoreSafe'
    <3>1. Safe(file.held)' /\ (Safe(turn) => Safe(turn)')
      BY <1>3 DEF AloneInv, StoreSafe, Safe
    <3> QED BY <2>7, <2>8, <3>1 DEF AloneInv, StoreSafe, Refreshing
  <2>10. \A g \in Flows : flow[g].at = "asking" => flow[g].slot \in Slots BY AskingKnown DEF IInv
  <2>11. RefreshSafe'
    <3>1. flow["refresh"].at = "asking" => flow["refresh"].slot \in Slots \ {s}
      BY <1>1, <1>2, <2>10 DEF AloneInv, RefreshSafe
    <3>2. flow["refresh"].at = "asking" => req'[flow["refresh"].slot] = req[flow["refresh"].slot]
      BY <2>2, <3>1 DEF Moved
    <3>3. \A r \in Slots : req'[r].kind = req[r].kind BY <2>2 DEF Moved
    <3> QED BY <1>3, <3>2, <3>3 DEF AloneInv, RefreshSafe
  <2>12. Handed(e)' => Handed(e) \/ e.of = i
    <3>1. e.at = "asking" => req[e.slot].of = e.of BY <1>2, AskingKnown DEF IInv
    <3> QED BY <1>2, <2>2, <2>10, <3>1 DEF Handed, Moved
  <2>13. EnrolSafe'
    <3>1. e.at = "asking" => req'[e.slot].kind = "poll"
      BY <1>2, <2>2, <2>10 DEF AloneInv, EnrolSafe, Moved
    <3>2. Handed(e) => e.of \in Installations BY HandedOf
    <3>3. auth'[i] = "consumed" BY <1>2, <2>3 DEF TablesOK
    <3>4. \A j \in Installations : auth'[j] = "consumed" => inst'[j] # "pending"
      BY <1>2, <1>3, <1>5, <2>3 DEF AloneInv, EnrolSafe, TablesOK
    <3>5. Handed(e)' => auth'[e.of] = "consumed" /\ ~Holds(e.of) /\ used[e.of] = {}
      BY <2>4, <2>5, <2>8, <2>12, <3>2, <3>3 DEF AloneInv, EnrolSafe
    <3> QED BY <1>3, <2>7, <3>1, <3>4, <3>5 DEF EnrolSafe
  <2> QED BY <2>6, <2>9, <2>11, <2>13 DEF AloneInv
<1> QED
  <2>1. \/ auth' = auth
        \/ auth' = [auth EXCEPT ![i] = IF @ \in {"pending", "approved"} THEN "expired" ELSE @]
        => \A j \in Installations : auth'[j] = "consumed" <=> auth[j] = "consumed"
    BY <1>2 DEF TablesOK
  <2> QED BY <1>4, <1>5, <2>1 DEF Redeem

LEMMA HandlesAlone ==
  ASSUME NEW s \in Slots, IInv, AloneInv, Handle(s), UNCHANGED desktopVars
  PROVE  AloneInv'
<1> DEFINE i == req[s].of
           k == req[s].tok
<1>1. req \in [Slots -> Requests] /\ k \in 0 .. MaxTokens /\ TablesOK
  BY DEF IInv, ServerInv, RequestsInv, Requests, Tables
<1>2. ASSUME Looked(s), Moved(s), used' = used, \A j \in Installations : Surely(j)
      PROVE  AloneInv'
  BY <1>2, RouterQuiet DEF Moved
<1>3. ASSUME UNCHANGED tables PROVE used' = used /\ \A j \in Installations : Surely(j)
  BY <1>3 DEF tables, enrolmentVars, tokenVars, familyVars, Surely, AloneInv, EnrolSafe
<1>4. CASE LookRefresh(s)
  <2>1. req[s].kind = "refresh" /\ req[s].at = "sent" /\ UNCHANGED tables
    BY <1>4 DEF LookRefresh, Is
  <2>2. k \notin used[i] BY <2>1, RefreshRequest
  <2>3. Goes(s, "found") \/ Answer(s, "refused", k) BY <1>4, <2>2 DEF LookRefresh
  <2>4. Moved(s) /\ Looked(s) BY <1>1, <2>1, <2>3, GoesMoves, AnswerMoves DEF Moved, Looked
  <2> QED BY <1>2, <1>3, <2>1, <2>4
<1>5. CASE RevokeReused(s)
  <2>1. req[s].kind = "refresh" /\ req[s].at = "reuse" BY <1>5 DEF RevokeReused, Is
  <2> QED BY <2>1, RefreshRequest
<1>6. CASE LookPoll(s) \/ LookCancel(s)
  <2>1. req[s].at = "sent" /\ UNCHANGED tables BY <1>6 DEF LookPoll, LookCancel, Is
  <2>2. Goes(s, "found") \/ Answer(s, "refused", 0) \/ Answer(s, "done", 0)
    BY <1>6 DEF LookPoll, LookCancel
  <2>3. Moved(s) /\ Looked(s) BY <1>1, <2>1, <2>2, GoesMoves, AnswerMoves DEF Moved, Looked
  <2> QED BY <1>2, <1>3, <2>1, <2>3
<1>7. CASE Withdraw(s)
  <2>1. req[s].at = "found" /\ Answer(s, "done", 0) BY <1>7 DEF Withdraw, Is
  <2>2. Moved(s) /\ Looked(s) BY <1>1, <2>1, AnswerMoves DEF Moved, Looked
  <2>3. used' = used BY <1>7 DEF Withdraw, tokenVars
  <2>4. i \in Installations BY <1>7, RequestFacts DEF Withdraw, Is, IInv, ServerInv
  <2>5. inst[i] = "pending" => auth[i] # "consumed" BY <2>4 DEF AloneInv, EnrolSafe
  <2>6. \/ auth' = auth /\ inst' = [inst EXCEPT ![i] = "revoked"]
        \/ inst[i] = "pending" /\ auth' = [auth EXCEPT ![i] = "gone"]
           /\ inst' = [inst EXCEPT ![i] = "gone"]
        \/ auth' = auth /\ inst' = inst
    BY <1>7 DEF Withdraw, RevokeInstallation, familyVars
  <2>7. \A j \in Installations : Surely(j)
    BY <1>1, <2>4, <2>5, <2>6 DEF Surely, AloneInv, EnrolSafe, TablesOK
  <2> QED BY <1>2, <2>2, <2>3, <2>7
<1> QED BY <1>4, <1>5, <1>6, <1>7, RotateAlone, RedeemAlone DEF Handle

LEMMA ConsoleAlone ==
  ASSUME IInv, AloneInv, Console, UNCHANGED desktopVars
  PROVE  AloneInv'
<1>1. TablesOK BY DEF IInv, ServerInv, Tables
<1>2. used' = used /\ req' = req
  BY DEF Console, Resolve, Approve, Deny, Revoke, Expire, SetAccount, tokenVars
<1>3. \A j \in Installations : Surely(j)
  <2>1. CASE UNCHANGED <<auth, inst>> BY <2>1 DEF Surely, AloneInv, EnrolSafe
  <2>2. ASSUME NEW u \in Users, NEW i \in Installations, Approve(u, i) \/ Deny(u, i)
        PROVE  \A j \in Installations : Surely(j)
    BY <1>1, <2>2 DEF Approve, Deny, Surely, AloneInv, EnrolSafe, TablesOK
  <2>3. ASSUME NEW i \in Installations, Revoke(i)
        PROVE  \A j \in Installations : Surely(j)
    BY <1>1, <2>3 DEF Revoke, RevokeInstallation, enrolmentVars, Surely, AloneInv, EnrolSafe, TablesOK
  <2> QED BY <2>1, <2>2, <2>3 DEF Console, Resolve, Expire, SetAccount, familyVars, enrolmentVars
<1> QED BY <1>2, <1>3, RouterQuiet

(* Without faults a rotation that was read is stored: nothing is wiped.    *)
LEMMA NothingWiped ==
  ASSUME ~Faults, AloneInv, OneFlight, NEW f \in Flights
  PROVE  ~RotationNotStored(f) /\ ~Wipes(f)
<1>1. f \in Flows /\ "refresh" \in Flows BY DEF Flows
<1>2. CASE flow[f].at = "none" BY <1>2 DEF RotationNotStored, Wipes, Writes, WriteFails
<1>3. CASE f = "refresh" /\ Refreshing
  <2>1. ~RotationNotStored(f)
    BY <1>1, <1>3 DEF RotationNotStored, Snap, AloneInv, OneReader, StoreSafe
  <2>2. ~Wipes(f) BY <1>3 DEF Wipes, Writes, WriteFails, AloneInv, RefreshSafe
  <2> QED BY <2>1, <2>2
<1> QED BY <1>2, <1>3 DEF OneFlight, Refreshing

LEMMA AloneStep == ~Faults /\ ~Overlap /\ IInv /\ AloneInv /\ OneFlight /\ [Next]_vars => AloneInv'
<1> SUFFICES ASSUME ~Faults, ~Overlap, IInv, AloneInv, OneFlight, [Next]_vars PROVE AloneInv'
  OBVIOUS
<1>1. CASE UNCHANGED vars
  <2>1. UNCHANGED desktopVars /\ UNCHANGED tables /\ UNCHANGED req
    BY <1>1 DEF vars, serverVars
  <2>2. used' = used /\ \A j \in Installations : Surely(j)
    BY <2>1 DEF tables, enrolmentVars, tokenVars, familyVars, Surely, AloneInv, EnrolSafe
  <2> QED BY <2>1, <2>2, RouterQuiet
<1>2. ASSUME NEW s \in Slots, ServerStep(s) \/ Forgotten(s) PROVE AloneInv'
  BY <1>2, HandlesAlone, ForgottenAlone DEF ServerStep
<1>3. ASSUME NEW s \in Slots, DesktopStep(s) PROVE AloneInv'
  <2>1. ASSUME NEW f \in Flights PROVE ~RotationNotStored(f) /\ ~Wipes(f)
    BY NothingWiped
  <2>3. ~EnrolmentNotStored BY DEF EnrolmentNotStored, WriteFails
  <2>4. \A f \in Flows : ~AnswerLost(f) BY DEF AnswerLost
  <2>5. ASSUME NEW f \in Flights,
               StartRefresh(f, s) \/ RefreshHears(f, s) \/ StoresRotation(f) \/ MarksReconnect(f)
        PROVE  AloneInv'
    BY <2>5, StartRefreshAlone, RefreshHearsAlone, RefreshEndsAlone
  <2>6. CASE StoresEnrolment \/ Saves \/ Polls(s) \/ PollExpires \/ PollHears(s)
    BY <2>6, SavesAlone, PollsAlone, EnrolAlone, PollHearsAlone
  <2>7. CASE Checks \/ Completes \/ LeaveLooks BY <2>7, EnrolAlone, CompletesAlone
  <2>8. ASSUME NEW f \in Flows, Reads(f) \/ Clears(f) \/ Cancels(f, s) PROVE AloneInv'
    BY <2>8, ReadsAlone, ClearsAlone, CancelsAlone
  <2> QED BY <1>3, <2>1, <2>3, <2>4, <2>5, <2>6, <2>7, <2>8 DEF DesktopStep
<1>4. CASE UserStep
  BY <1>4, TurnAlone, EnrolAlone, LeaveAlone DEF UserStep, Crash
<1>5. ASSUME NEW i \in Installations, StartEnrolment(i) PROVE AloneInv'
  BY <1>5, StartEnrolmentAlone
<1>6. CASE Console /\ UNCHANGED desktopVars BY <1>6, ConsoleAlone
<1> QED BY <1>1, <1>2, <1>3, <1>4, <1>5, <1>6 DEF Next, Busy

(* The refresh flows that other steps leave alone.                         *)
LEMMA FlightStays ==
  ASSUME OneFlight, flight' = flight,
         \A f \in Flights : flow'[f].at = flow[f].at
  PROVE  OneFlight'
BY DEF OneFlight, Refreshing

LEMMA OneFlightStep ==
  ~Faults /\ ~Overlap /\ IInv /\ AloneInv /\ OneFlight /\ [Next]_vars => OneFlight'
<1> SUFFICES ASSUME ~Faults, ~Overlap, IInv, AloneInv, OneFlight, [Next]_vars PROVE OneFlight'
  OBVIOUS
<1>1. flow \in [Flows -> Work] BY DEF IInv, DesktopInv, FlowsInv
<1>2. CASE UNCHANGED desktopVars BY <1>2, FlightStays DEF desktopVars
<1>3. ASSUME NEW f \in {"enrol", "leave"}, flight' = flight, Only(f) PROVE OneFlight'
  BY <1>3, FlightStays DEF Only, Flows
<1>4. ASSUME NEW s \in Slots, DesktopStep(s) PROVE OneFlight'
  <2>1. ASSUME NEW f \in Flights PROVE ~RotationNotStored(f) /\ ~Wipes(f)
    BY NothingWiped
  <2>2. ~EnrolmentNotStored BY DEF EnrolmentNotStored, WriteFails
  <2>3. \A f \in Flows : ~AnswerLost(f) BY DEF AnswerLost
  <2>4. ASSUME NEW f \in Flights,
               StartRefresh(f, s) \/ RefreshHears(f, s) \/ StoresRotation(f) \/ MarksReconnect(f)
        PROVE  OneFlight'
    BY <2>4, StartRefreshAlone, RefreshHearsAlone, RefreshEndsAlone
  <2>5. CASE StoresEnrolment \/ Saves \/ PollExpires \/ Completes
    <3>1. flight' = flight BY <2>5 DEF StoresEnrolment, Saves, PollExpires, Completes
    <3>2. FlowEnds("enrol") \/ FlowGoes("enrol", "waiting") \/ FlowGoes("enrol", "clear")
      BY <2>5 DEF StoresEnrolment, Saves, PollExpires, Completes
    <3>3. Only("enrol") BY <1>1, <3>2, EndsOnly, GoesOnly DEF Flows
    <3> QED BY <1>3, <3>1, <3>3
  <2>6. CASE Polls(s) \/ PollHears(s) \/ Checks \/ LeaveLooks
    <3>1. flight' = flight BY <2>6 DEF Polls, PollHears, Checks, LeaveLooks
    <3>2. \A f \in Flights : flow'[f] = flow[f]
      BY <1>1, <2>6 DEF Polls, PollHears, Checks, LeaveLooks, Flows
    <3> QED BY <3>1, <3>2, FlightStays
  <2>7. ASSUME NEW f \in Flows, Reads(f) PROVE OneFlight'
    <3>1. flight' = flight /\ flow' = [flow EXCEPT ![f].snap = file] BY <2>7 DEF Reads
    <3>2. \A g \in Flights : flow'[g].at = flow[g].at BY <1>1, <3>1 DEF Flows, Work
    <3> QED BY <3>1, <3>2, FlightStays
  <2>8. ASSUME NEW f \in Flows, Clears(f) \/ Cancels(f, s) PROVE OneFlight'
    <3>1. f \in {"enrol", "leave"}
      BY <2>8 DEF Clears, Cancels, IInv, DesktopInv, FlowsInv, WorkKnown, Places, Flows
    <3>2. flight' = flight BY <2>8 DEF Clears, Cancels
    <3>3. FlowEnds(f) \/ FlowGoes(f, "cancel") \/ FlowGoes(f, "tidy")
      BY <2>8 DEF Clears, Cancels
    <3>4. Only(f) BY <1>1, <3>3, EndsOnly, GoesOnly
    <3> QED BY <1>3, <3>1, <3>2, <3>4
  <2> QED BY <1>4, <2>1, <2>2, <2>3, <2>4, <2>5, <2>6, <2>7, <2>8 DEF DesktopStep
<1>5. CASE UserStep
  <2>1. flight' = flight
    BY <1>5 DEF UserStep, TurnReads, TurnServed, AccessExpires, Resumes, Leave, Crash
  <2>2. \A f \in Flights : flow'[f] = flow[f]
    BY <1>1, <1>5 DEF UserStep, TurnReads, TurnServed, AccessExpires, Resumes, Leave, Crash, Flows
  <2> QED BY <2>1, <2>2, FlightStays
<1>6. ASSUME NEW i \in Installations, StartEnrolment(i) PROVE OneFlight'
  <2>1. flight' = flight BY <1>6 DEF StartEnrolment
  <2>2. \A f \in Flights : flow'[f] = flow[f] BY <1>1, <1>6 DEF StartEnrolment, Flows
  <2> QED BY <2>1, <2>2, FlightStays
<1> QED BY <1>2, <1>4, <1>5, <1>6 DEF Next, Busy, vars, ServerStep, Forgotten, desktopVars

(* If nothing fails and the operations on the file come one after the      *)
(* other, enrollment, its cancelling and refreshes leave a stored token    *)
(* that can be exchanged.                                                  *)
THEOREM PreviousStaysUsable ==
  ASSUME ~Faults, ~Overlap
  PROVE  Spec => []PreviousUsable
<1>1. Init => OneFlight BY DEF Init, OneFlight, Refreshing, NoFlow, Flows
<1>2. Spec => [](IInv /\ AloneInv /\ OneFlight)
  BY <1>1, DesktopStarts, AloneStarts, DesktopKeeps, AloneStep, OneFlightStep, PTL DEF Spec
<1> QED BY <1>2, PreviousFollows, PTL
=============================================================================
