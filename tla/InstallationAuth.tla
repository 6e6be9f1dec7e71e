-------------------------- MODULE InstallationAuth --------------------------
(***************************************************************************)
(* The desktop's side of PlatformAuth: enrollment by polling, single       *)
(* flights of refreshes, and the configuration file they share.  Every     *)
(* operation on the file reads it, awaits, and writes the whole of it      *)
(* back, so two operations that overlap undo one another.                  *)
(*                                                                         *)
(* The asynchronous flows of the main process that are modelled are the    *)
(* refresh in flight, the poll loop of an enrollment, and the user's       *)
(* cancelling of it.  A refresh whose rotation cannot be stored is no      *)
(* longer the one in flight while it wipes the file, so that another may   *)
(* start: at most two refreshes are followed at once.  A step is what a    *)
(* flow does between two awaits.                                           *)
(***************************************************************************)
EXTENDS PlatformAuth

CONSTANTS
  Faults,  \* TRUE if statements, connections, writes and the process fail
  Overlap  \* FALSE: operations on the file come one after the other

ASSUME DesktopAssumption == Faults \in BOOLEAN /\ Overlap \in BOOLEAN

VARIABLES
  file,         \* the stored installation and the pending enrollment
  access,       \* TRUE if an access token in memory is fresh
  compromised,  \* persistenceCompromised
  turn,         \* the record that a call of authorize() has read
  flight,       \* refreshFlight: the refresh that callers join, or "none"
  flow,         \* the flows
  aborted       \* the poll loop's signal

desktopVars == <<file, access, compromised, turn, flight, flow, aborted>>
vars        == <<serverVars, desktopVars>>

Flights == {"refresh", "again"}
Flows   == {"refresh", "again", "enrol", "leave"}
Nothing == [of |-> NoOne, tok |-> 0]
Held    == [of : Installations \cup {NoOne}, tok : 0 .. MaxTokens]
Files   == [held : Held, pend : Installations \cup {NoOne}]
Unread  == [held |-> Nothing, pend |-> "unread"]

(* A flow is about to use the file, or waits for something else.           *)
FileOps == {"rotate", "mark", "wipe", "store", "save", "complete", "clear", "tidy"}
Work    == [at : FileOps \cup {"none", "asking", "waiting", "check", "look", "cancel", "withdraw"},
            of : Installations \cup {NoOne}, tok : 0 .. MaxTokens,
            slot : Slots \cup {NoOne}, snap : Files \cup {Unread}]
NoFlow  == [at |-> "none", of |-> NoOne, tok |-> 0, slot |-> NoOne, snap |-> Unread]

DesktopTypeOK ==
  /\ file \in Files
  /\ {access, compromised, aborted} \subseteq BOOLEAN
  /\ turn \in Held
  /\ flight \in Flights \cup {"none"}
  /\ flow \in [Flows -> Work]

Init ==
  /\ ServerInit
  /\ \E held \in IF Connected = {} THEN {Nothing} ELSE [of : Connected, tok : {1}] :
       file = [held |-> held, pend |-> NoOne]
  /\ access = FALSE
  /\ compromised = FALSE
  /\ turn = Nothing
  /\ flight = "none"
  /\ flow = [f \in Flows |-> NoFlow]
  /\ aborted = FALSE

-----------------------------------------------------------------------------
FlowGoes(f, at) ==
  flow' = [flow EXCEPT ![f].at = at, ![f].slot = NoOne, ![f].snap = Unread]

FlowEnds(f) == flow' = [flow EXCEPT ![f] = NoFlow]

(* finally: whichever refresh is in flight by now, callers join it no more. *)
FlightEnds(f) == FlowEnds(f) /\ flight' = "none"

(* Flow f is told the answer to its request.                               *)
Heard(f, s) ==
  /\ flow[f].at = "asking" /\ flow[f].slot = s
  /\ req[s].at = "answered"
  /\ req' = [req EXCEPT ![s] = NoRequest]

Snap(f) == flow[f].snap

Reads(f) ==
  /\ flow[f].at \in FileOps
  /\ Snap(f) = Unread
  /\ Overlap \/ \A g \in Flows : Snap(g) = Unread
  /\ flow' = [flow EXCEPT ![f].snap = file]
  /\ UNCHANGED <<serverVars, file, access, compromised, turn, flight, aborted>>

(* The file as flow f read it, with its change.                            *)
Writes(f, op, written) ==
  /\ flow[f].at = op /\ Snap(f) # Unread
  /\ file' = written

(* The write fails.                                                        *)
WriteFails(f, op) ==
  /\ Faults
  /\ flow[f].at = op /\ Snap(f) # Unread
  /\ UNCHANGED file

-----------------------------------------------------------------------------
(* authorize(): reads the record, and after an await uses the access token *)
(* in memory, joins the flight or starts one.                              *)
TurnReads ==
  /\ turn = Nothing
  /\ ~compromised
  /\ file.held # Nothing
  /\ turn' = file.held
  /\ UNCHANGED <<serverVars, file, access, compromised, flight, flow, aborted>>

TurnServed ==
  /\ turn # Nothing
  /\ access \/ flight # "none"
  /\ turn' = Nothing
  /\ UNCHANGED <<serverVars, file, access, compromised, flight, flow, aborted>>

StartRefresh(f, s) ==
  /\ turn # Nothing
  /\ ~access /\ flight = "none"
  /\ flow[f].at = "none" /\ (f = "again" => flow["refresh"].at # "none")
  /\ Send(s, "refresh", turn.of, turn.tok)
  /\ flight' = f
  /\ flow' = [flow EXCEPT ![f] =
       [NoFlow EXCEPT !.at = "asking", !.of = turn.of, !.tok = turn.tok, !.slot = s]]
  /\ turn' = Nothing
  /\ UNCHANGED <<tables, file, access, compromised, aborted>>

(* An access token lives for minutes, authorize() for an await.            *)
AccessExpires ==
  /\ access /\ turn = Nothing
  /\ access' = FALSE
  /\ UNCHANGED <<serverVars, file, compromised, turn, flight, flow, aborted>>

RefreshHears(f, s) ==
  /\ Heard(f, s)
  /\ flow' = [flow EXCEPT ![f] =
       [@ EXCEPT !.at = IF req[s].answer = "granted" THEN "rotate" ELSE "mark",
                 !.tok = req[s].tok, !.slot = NoOne]]
  /\ UNCHANGED <<tables, file, access, compromised, turn, flight, aborted>>

(* rotateInstallation()                                                    *)
StoresRotation(f) ==
  /\ Snap(f).held # Nothing
  /\ Writes(f, "rotate", [Snap(f) EXCEPT !.held = [of |-> flow[f].of, tok |-> flow[f].tok]])
  /\ access' = TRUE
  /\ FlightEnds(f)
  /\ UNCHANGED <<serverVars, compromised, turn, aborted>>

(* clearMemory() drops the flight at once, before the file is wiped.       *)
RotationNotStored(f) ==
  /\ flow[f].at = "rotate" /\ Snap(f) # Unread
  /\ Faults \/ Snap(f).held = Nothing
  /\ access' = FALSE
  /\ flight' = "none"
  /\ compromised' = TRUE
  /\ FlowGoes(f, "wipe")
  /\ UNCHANGED <<serverVars, file, turn, aborted>>

(* signOutLocal(), which may fail as well.                                 *)
Wipes(f) ==
  /\ \/ Writes(f, "wipe", [held |-> Nothing, pend |-> NoOne])
     \/ WriteFails(f, "wipe")
  /\ FlightEnds(f)
  /\ UNCHANGED <<serverVars, access, compromised, turn, aborted>>

(* markReconnectRequired(): the mark is not modelled, the write is.        *)
MarksReconnect(f) ==
  /\ \/ /\ Writes(f, "mark", IF Snap(f).held = Nothing THEN file ELSE Snap(f))
        /\ access' = FALSE
     \/ WriteFails(f, "mark") /\ UNCHANGED access
  /\ FlightEnds(f)
  /\ UNCHANGED <<serverVars, compromised, turn, aborted>>

(* The connection breaks: the request goes on without anyone listening.    *)
AnswerLost(f) ==
  /\ Faults
  /\ flow[f].at = "asking"
  /\ IF f \in Flights THEN FlightEnds(f) ELSE FlowGoes(f, "save") /\ UNCHANGED flight
  /\ UNCHANGED <<serverVars, file, access, compromised, turn, aborted>>

-----------------------------------------------------------------------------
(* continueEnrollment(): the router creates the authorization, and polling *)
(* begins when it is stored.  If the router's answer is lost there is only *)
(* the file to tidy.                                                       *)
StartEnrolment(i) ==
  /\ flow["enrol"].at = "none"
  /\ file.pend = NoOne
  /\ CreateAuthorization(i)
  /\ \E at \in {"store"} \cup (IF Faults THEN {"tidy"} ELSE {}) :
       flow' = [flow EXCEPT !["enrol"] = [NoFlow EXCEPT !.at = at, !.of = i]]
  /\ aborted' = FALSE
  /\ UNCHANGED <<req, file, access, compromised, turn, flight>>

(* enrollmentStatus() resumes a stored enrollment.                         *)
Resumes ==
  /\ flow["enrol"].at = "none"
  /\ file.pend # NoOne
  /\ flow' = [flow EXCEPT !["enrol"] = [NoFlow EXCEPT !.at = "waiting", !.of = file.pend]]
  /\ aborted' = FALSE
  /\ UNCHANGED <<serverVars, file, access, compromised, turn, flight>>

StoresEnrolment ==
  /\ Writes("enrol", "store", [Snap("enrol") EXCEPT !.pend = flow["enrol"].of])
  /\ FlowGoes("enrol", "waiting")
  /\ UNCHANGED <<serverVars, access, compromised, turn, flight, aborted>>

Saves ==
  /\ Writes("enrol", "save", [Snap("enrol") EXCEPT !.pend = flow["enrol"].of])
  /\ IF aborted THEN FlowEnds("enrol") ELSE FlowGoes("enrol", "waiting")
  /\ UNCHANGED <<serverVars, access, compromised, turn, flight, aborted>>

Polls(s) ==
  /\ flow["enrol"].at = "waiting"
  /\ flow["enrol"].of \notin late
  /\ Send(s, "poll", flow["enrol"].of, 0)
  /\ flow' = [flow EXCEPT !["enrol"].at = "asking", !["enrol"].slot = s]
  /\ UNCHANGED <<tables, file, access, compromised, turn, flight, aborted>>

PollExpires ==
  /\ flow["enrol"].at = "waiting"
  /\ flow["enrol"].of \in late
  /\ FlowGoes("enrol", "clear")
  /\ UNCHANGED <<serverVars, file, access, compromised, turn, flight, aborted>>

PollHears(s) ==
  /\ Heard("enrol", s)
  /\ flow' = [flow EXCEPT !["enrol"] =
       [@ EXCEPT !.at = CASE req[s].answer = "pending" -> "save"
                          [] req[s].answer = "granted" -> "check"
                          [] OTHER -> "clear",
                 !.tok = req[s].tok, !.slot = NoOne]]
  /\ UNCHANGED <<tables, file, access, compromised, turn, flight, aborted>>

(* The signed profile check with the new access token.                     *)
Checks ==
  LET i == flow["enrol"].of
      connected == family[i] = "active" /\ inst[i] = "active" /\ owner[i] \in eligible IN
  /\ flow["enrol"].at = "check"
  /\ \/ flow' = [flow EXCEPT !["enrol"].at = IF connected THEN "complete" ELSE "clear"]
     \/ Faults /\ FlowGoes("enrol", "save")
  /\ UNCHANGED <<serverVars, file, access, compromised, turn, flight, aborted>>

(* completeEnrollment()                                                    *)
Completes ==
  /\ Writes("enrol", "complete", [held |-> [of |-> flow["enrol"].of, tok |-> flow["enrol"].tok],
                                  pend |-> NoOne])
  /\ access' = TRUE
  /\ compromised' = FALSE
  /\ FlowEnds("enrol")
  /\ UNCHANGED <<serverVars, turn, flight, aborted>>

(* clearPendingEnrollment() of the poll loop, of cancelEnrollment() and,   *)
(* to tidy up, of a creation that failed; the last two ignore its errors.  *)
Clears(f) ==
  LET op == flow[f].at IN
  /\ op \in {"clear", "tidy"}
  /\ \/ Writes(f, op, IF Snap(f).pend = NoOne THEN file ELSE [Snap(f) EXCEPT !.pend = NoOne])
     \/ (f = "leave" \/ op = "tidy") /\ WriteFails(f, op)
  /\ IF op = "tidy" \/ flow[f].of = NoOne THEN FlowEnds(f) ELSE FlowGoes(f, "cancel")
  /\ UNCHANGED <<serverVars, access, compromised, turn, flight, aborted>>

(* A write fails: what was created and cannot be stored is withdrawn; the  *)
(* poll loop saves the enrollment and goes on, or goes on at once if that  *)
(* is what failed, and gives up if it was clearing one that had expired.   *)
EnrolmentNotStored ==
  LET at == flow["enrol"].at IN
  /\ WriteFails("enrol", at)
  /\ \/ at = "store" /\ FlowGoes("enrol", "withdraw")
     \/ at \in {"complete", "clear"} /\ FlowGoes("enrol", "save")
     \/ at = "save" /\ ~aborted /\ FlowGoes("enrol", "waiting")
     \/ (at = "clear" \/ (at = "save" /\ aborted)) /\ FlowEnds("enrol")
  /\ UNCHANGED <<serverVars, access, compromised, turn, flight, aborted>>

(* cancelPendingAuthorization(): its answer changes nothing, and is not    *)
(* waited for longer than its timeout.                                     *)
Cancels(f, s) ==
  /\ Send(s, "cancel", flow[f].of, 0)
  /\ \/ flow[f].at = "cancel" /\ FlowEnds(f)
     \/ flow[f].at = "withdraw" /\ FlowGoes(f, "tidy")
  /\ UNCHANGED <<tables, file, access, compromised, turn, flight, aborted>>

(* cancelEnrollment(), or prepareEnrollment() of another: awaits the       *)
(* creation under way, aborts the poll loop, whose wait ends at once and   *)
(* whose request or check throws, and reads what is pending.               *)
Leave ==
  /\ flow["leave"].at = "none"
  /\ flow["enrol"].at \notin {"store", "withdraw", "tidy"}
  /\ file.pend # NoOne \/ flow["enrol"].at # "none"
  /\ flow' = [flow EXCEPT
       !["leave"] = [NoFlow EXCEPT !.at = "look"],
       !["enrol"] = CASE @.at = "waiting" -> NoFlow
                      [] @.at \in {"asking", "check"} -> [@ EXCEPT !.at = "save", !.slot = NoOne]
                      [] OTHER -> @]
  /\ aborted' = TRUE
  /\ UNCHANGED <<serverVars, file, access, compromised, turn, flight>>

LeaveLooks ==
  /\ flow["leave"].at = "look"
  /\ \E pend \in {file.pend} \cup (IF Faults THEN {NoOne} ELSE {}) :
       flow' = [flow EXCEPT !["leave"] = [@ EXCEPT !.at = "clear", !.of = pend]]
  /\ UNCHANGED <<serverVars, file, access, compromised, turn, flight, aborted>>

(* The application dies and starts again: the file is what it keeps.       *)
Crash ==
  /\ Faults
  /\ flow' = [f \in Flows |-> NoFlow]
  /\ turn' = Nothing
  /\ flight' = "none"
  /\ access' = FALSE /\ compromised' = FALSE /\ aborted' = FALSE
  /\ UNCHANGED <<serverVars, file>>

-----------------------------------------------------------------------------
(* A request nobody waits for any more is forgotten when it is answered,   *)
(* before anything else happens: all it can do is take up a slot.          *)
Abandoned(s) == req[s].at = "answered" /\ \A f \in Flows : flow[f].slot # s

Forgotten(s) ==
  /\ Abandoned(s)
  /\ AnyClientHears(s)
  /\ UNCHANGED desktopVars

ServerStep(s) == (Handle(s) \/ (Faults /\ RequestFails(s))) /\ UNCHANGED desktopVars

DesktopStep(s) ==
  \/ \E f \in Flights : \/ StartRefresh(f, s) \/ RefreshHears(f, s) \/ StoresRotation(f)
                        \/ RotationNotStored(f) \/ Wipes(f) \/ MarksReconnect(f)
  \/ StoresEnrolment \/ Saves \/ Polls(s) \/ PollExpires \/ PollHears(s)
  \/ Checks \/ Completes \/ EnrolmentNotStored \/ LeaveLooks
  \/ \E f \in Flows : Reads(f) \/ AnswerLost(f) \/ Clears(f) \/ Cancels(f, s)

UserStep == TurnReads \/ TurnServed \/ AccessExpires \/ Resumes \/ Leave \/ Crash

Busy ==
  \/ \E s \in Slots : ServerStep(s) \/ DesktopStep(s)
  \/ UserStep
  \/ \E i \in Installations : StartEnrolment(i)
  \/ Console /\ UNCHANGED desktopVars

Next ==
  \/ \E s \in Slots : Forgotten(s)
  \/ (\A s \in Slots : ~Abandoned(s)) /\ Busy

Spec == Init /\ [][Next]_vars

-----------------------------------------------------------------------------
(* "A previous working installation remains active until its replacement   *)
(* passes signed profile validation and is stored": when no refresh is     *)
(* under way, the stored refresh token has not been spent.                 *)
PreviousUsable ==
  file.held # Nothing /\ (\A f \in Flights : flow[f].at = "none") =>
    file.held.tok \notin used[file.held.of]
=============================================================================
