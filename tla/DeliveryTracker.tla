-------------------------- MODULE DeliveryTracker --------------------------
(***************************************************************************)
(* Delivery reports: internal/sms/tracker.go with its two callers, the     *)
(* sender loop SMSService.dispatchPDUs and the URC goroutine that decodes  *)
(* +CDS reports (services/sms_urc.go).                                     *)
(*                                                                         *)
(* A message is one PDU sent with a report requested; it names the         *)
(* trackedSMS and the timer Track makes for it.  Critical sections of      *)
(* Tracker.mu are single steps; onUpdate runs after the unlock and is a    *)
(* step of its own.  A timer whose function has started cannot be stopped. *)
(***************************************************************************)
EXTENDS Naturals, Sequences, FiniteSets

CONSTANTS
  Msgs,        \* the messages sent
  Numbers,     \* recipients
  Refs,        \* message references of the modem (a byte: they come again)
  HasTimeout,  \* t.timeout > 0
  NIL

ASSUME TrackerAssumption ==
  /\ NIL \notin Msgs
  /\ HasTimeout \in BOOLEAN

(* TP-ST ranges of DecodeStatusReport: 00-1F, 20-3F, 40-5F, 60-FF.         *)
Codes == {"success", "temporary", "permanent", "gaveup"}
(* How the network writes the recipient of a report: "+7...", "8...",      *)
(* "7..." without the plus.                                                *)
Forms == {"plus", "eight", "bare"}
Statuses == {"pending", "delivered", "failed", "expired"}
Outcomes == {"delivered", "failed", "expired"}

VARIABLES
  to, ref,     \* per message: its recipient and the reference it was given
  pc,          \* per message: progress of dispatchPDUs for it
  pending,     \* Tracker.pending
  timer,       \* per message: its time.Timer
  urc,         \* the URC goroutine: NIL, or the event it is about to publish
  late,        \* timer goroutines past the unlock: the events they publish
  net,         \* per message: what the network last decided about it
  events,      \* per message: the statuses published for it, in order
  expiredBy    \* history, per message: whose timer expired it

vars == <<to, ref, pc, pending, timer, urc, late, net, events, expiredBy>>

Keys == Numbers \X Refs
Event == [m : Msgs, status : Statuses]

TypeOK ==
  /\ to \in [Msgs -> Numbers]
  /\ ref \in [Msgs -> Refs]
  /\ pc \in [Msgs -> {"idle", "sent", "tracked", "done", "error"}]
  /\ pending \in [Keys -> Msgs \cup {NIL}]
  /\ timer \in [Msgs -> {"none", "armed", "stopped", "fired", "ran"}]
  /\ urc \in Event \cup {NIL}
  /\ late \subseteq Event
  /\ net \in [Msgs -> {"none", "open"} \cup Codes]
  /\ events \in [Msgs -> Seq(Statuses)]
  /\ expiredBy \in [Msgs -> Msgs \cup {NIL}]

Init ==
  /\ to \in [Msgs -> Numbers]
  /\ ref \in [Msgs -> Refs]
  /\ pc = [m \in Msgs |-> "idle"]
  /\ pending = [k \in Keys |-> NIL]
  /\ timer = [m \in Msgs |-> "none"]
  /\ urc = NIL
  /\ late = {}
  /\ net = [m \in Msgs |-> "none"]
  /\ events = [m \in Msgs |-> <<>>]
  /\ expiredBy = [m \in Msgs |-> NIL]

(* The key a message is tracked under: makeKey of an E.164 recipient.      *)
makeKey(m) == <<to[m], ref[m]>>

(* canonicalRecipient finds "+7..." and "8..."; "7..." stays as it is and  *)
(* matches no tracked key.                                                 *)
canonicalRecipient(form) == form \in {"plus", "eight"}

(* time.Timer.Stop: no effect once the function has started.               *)
Stopped(t) == IF t = "armed" THEN "stopped" ELSE t

-----------------------------------------------------------------------------
(* The sender: dispatchPDUs.                                               *)

(* SendPDU: the modem has taken the message; the network may report on it. *)
Sent(m) ==
  /\ pc[m] = "idle"
  /\ pc' = [pc EXCEPT ![m] = "sent"]
  /\ net' = [net EXCEPT ![m] = "open"]
  /\ UNCHANGED <<to, ref, pending, timer, urc, late, events, expiredBy>>

(* SendPDU returns an error, possibly for a message the modem took.        *)
SendFails(m) ==
  /\ pc[m] \in {"idle", "sent"}
  /\ pc' = [pc EXCEPT ![m] = "error"]
  /\ UNCHANGED <<to, ref, pending, timer, urc, late, net, events, expiredBy>>

Track(m) ==
  /\ pc[m] = "sent"
  /\ pc' = [pc EXCEPT ![m] = "tracked"]
  /\ LET old == pending[makeKey(m)] IN
       timer' = [d \in Msgs |-> IF d = m /\ HasTimeout THEN "armed"
                                ELSE IF d = old THEN Stopped(timer[d])
                                ELSE timer[d]]
  /\ pending' = [pending EXCEPT ![makeKey(m)] = m]
  /\ UNCHANGED <<to, ref, urc, late, net, events, expiredBy>>

(* onUpdate of Track, after the unlock.                                    *)
TrackCallback(m) ==
  /\ pc[m] = "tracked"
  /\ pc' = [pc EXCEPT ![m] = "done"]
  /\ events' = [events EXCEPT ![m] = Append(@, "pending")]
  /\ UNCHANGED <<to, ref, pending, timer, urc, late, net, expiredBy>>

-----------------------------------------------------------------------------
(* The URC goroutine: one report at a time, its callback included.         *)

(* Mutant: temporary codes count as delivered.                             *)
ReportStatus_LooseRange(code) == IF code = "permanent" THEN "failed" ELSE "delivered"

ReportStatus(code) == CASE code = "success" -> "delivered"
                        [] code = "permanent" -> "failed"
                        [] OTHER -> "pending"

(* The network (external) reports on m: temporary codes, then one last     *)
(* code, which it may repeat.  A report still on its way is one the        *)
(* network sends later.                                                    *)
NetworkReports(m, code) ==
  /\ net[m] = "open" \/ net[m] = code
  /\ net' = [net EXCEPT ![m] = IF code = "temporary" THEN @ ELSE code]

(* Mutant: the entry is left in the map.                                   *)
HandleReport_KeepsEntry(m, code, form) ==
  /\ urc = NIL
  /\ NetworkReports(m, code)
  /\ LET item == pending[makeKey(m)] IN
     IF ~canonicalRecipient(form) \/ item = NIL
     THEN UNCHANGED <<pending, timer, urc>>
     ELSE /\ timer' = [timer EXCEPT ![item] = Stopped(@)]
          /\ UNCHANGED pending
          /\ urc' = [m |-> item, status |-> ReportStatus(code)]
  /\ UNCHANGED <<to, ref, pc, late, events, expiredBy>>

(* decodeAndDispatchReport and HandleReport: the report names m's          *)
(* reference and, in some form, its recipient.                             *)
HandleReport(m, code, form) ==
  /\ urc = NIL
  /\ NetworkReports(m, code)
  /\ LET item == pending[makeKey(m)] IN
     IF ~canonicalRecipient(form) \/ item = NIL
     THEN UNCHANGED <<pending, timer, urc>>
     ELSE /\ timer' = [timer EXCEPT ![item] = Stopped(@)]
          /\ pending' = [pending EXCEPT ![makeKey(m)] = NIL]
          /\ urc' = [m |-> item, status |-> ReportStatus(code)]
  /\ UNCHANGED <<to, ref, pc, late, events, expiredBy>>

ReportCallback ==
  /\ urc # NIL
  /\ events' = [events EXCEPT ![urc.m] = Append(@, urc.status)]
  /\ urc' = NIL
  /\ UNCHANGED <<to, ref, pc, pending, timer, late, net, expiredBy>>

-----------------------------------------------------------------------------
(* Timers.                                                                 *)

TimerFires(m) ==
  /\ timer[m] = "armed"
  /\ timer' = [timer EXCEPT ![m] = "fired"]
  /\ UNCHANGED <<to, ref, pc, pending, urc, late, net, events, expiredBy>>

(* Mutant: the entry is expired but not deleted.                           *)
handleTimeout_KeepsEntry(m) ==
  /\ timer[m] = "fired"
  /\ timer' = [timer EXCEPT ![m] = "ran"]
  /\ LET item == pending[makeKey(m)] IN
       late' = IF item = NIL THEN late
               ELSE late \cup {[m |-> item, status |-> "expired"]}
  /\ UNCHANGED <<to, ref, pc, pending, urc, net, events, expiredBy>>

(* The function of m's timer expires whatever entry m's key holds now.     *)
handleTimeout(m) ==
  /\ timer[m] = "fired"
  /\ timer' = [timer EXCEPT ![m] = "ran"]
  /\ LET item == pending[makeKey(m)] IN
     IF item = NIL
     THEN UNCHANGED <<pending, late, expiredBy>>
     ELSE /\ pending' = [pending EXCEPT ![makeKey(m)] = NIL]
          /\ late' = late \cup {[m |-> item, status |-> "expired"]}
          /\ expiredBy' = [expiredBy EXCEPT ![item] = m]
  /\ UNCHANGED <<to, ref, pc, urc, net, events>>

TimeoutCallback(e) ==
  /\ e \in late
  /\ events' = [events EXCEPT ![e.m] = Append(@, e.status)]
  /\ late' = late \ {e}
  /\ UNCHANGED <<to, ref, pc, pending, timer, urc, net, expiredBy>>

-----------------------------------------------------------------------------
Step(m) == Track(m) \/ TrackCallback(m) \/ TimerFires(m) \/ handleTimeout(m)

Next ==
  \/ \E m \in Msgs : Sent(m) \/ SendFails(m) \/ Step(m)
  \/ \E m \in Msgs, code \in Codes, form \in Forms : HandleReport(m, code, form)
  \/ ReportCallback
  \/ \E e \in late : TimeoutCallback(e)

Spec == Init /\ [][Next]_vars

(* Goroutines run and armed timers fire; the network owes nothing.         *)
FairSpec == Spec /\ \A m \in Msgs : WF_vars(Step(m))
-----------------------------------------------------------------------------
(* Properties.                                                             *)

(* A message is given at most one outcome, whatever reports, timers and    *)
(* reused references race for its entry.                                   *)
AtMostOneOutcome ==
  \A m \in Msgs : \A i, j \in DOMAIN events[m] :
    events[m][i] \in Outcomes /\ events[m][j] \in Outcomes => i = j

(* While a message is tracked its own timer is still going to expire it,   *)
(* so no entry leaks (timeout > 0).                                        *)
TrackedHasTimer ==
  HasTimeout => \A k \in Keys : pending[k] # NIL =>
                  /\ makeKey(pending[k]) = k
                  /\ timer[pending[k]] \in {"armed", "fired"}

(* "delivered" and "failed" are published only for a message the network   *)
(* said so of, or one whose reused key stands for such a message by now.   *)
OutcomeIsReported ==
  \A m \in Msgs : \A i \in DOMAIN events[m] : events[m][i] \in {"delivered", "failed"} =>
    \E d \in Msgs : /\ makeKey(d) = makeKey(m)
                    /\ net[d] = IF events[m][i] = "delivered" THEN "success" ELSE "permanent"

(* Every tracked entry is eventually dropped: no report is waited for      *)
(* beyond the timeout.                                                     *)
EntriesLeave ==
  HasTimeout => \A m \in Msgs : pending[makeKey(m)] = m ~> pending[makeKey(m)] # m

(* tracker.go: callbacks are ordered, so no message is reported pending    *)
(* after its outcome.                                                      *)
OutcomeIsLast ==
  \A m \in Msgs : \A i, j \in DOMAIN events[m] :
    events[m][i] \in Outcomes => j <= i

(* tracker_test.go: the timer of an overwritten entry does not expire the  *)
(* entry that replaced it.                                                 *)
ExpiresByOwnTimer ==
  \A m \in Msgs : expiredBy[m] \in {m, NIL}
-----------------------------------------------------------------------------
(* The inductive strengthening the proofs use.                             *)

Untouched == {"idle", "sent", "error"}
NoOutcome(m) == \A i \in DOMAIN events[m] : events[m][i] \notin Outcomes

(* The right to give m its outcome is in one place: its entry, the URC     *)
(* goroutine, a timer goroutine, or spent.                                 *)
OneOwner ==
  /\ \A k \in Keys : pending[k] # NIL =>
       /\ makeKey(pending[k]) = k /\ pc[pending[k]] \notin Untouched
       /\ NoOutcome(pending[k])
       /\ urc # NIL => urc.m # pending[k]
       /\ \A e \in late : e.m # pending[k]
  /\ urc # NIL => NoOutcome(urc.m) /\ \A e \in late : e.m # urc.m
  /\ \A e \in late : NoOutcome(e.m)
  /\ \A e, f \in late : e.m = f.m => e = f
  /\ \A m \in Msgs : pc[m] \in Untouched =>
       /\ events[m] = <<>> /\ timer[m] = "none"
       /\ urc # NIL => urc.m # m
       /\ \A e \in late : e.m # m

(* The network has said of a message with m's key what status s tells.     *)
Reported(m, s) ==
  \E d \in Msgs : /\ makeKey(d) = makeKey(m)
                  /\ net[d] = IF s = "delivered" THEN "success" ELSE "permanent"

(* What the goroutines hold is no more than was reported or has timed out; *)
(* nothing is reported on a message the modem has not been given.          *)
ReportInHand ==
  /\ urc # NIL /\ urc.status \in {"delivered", "failed"} => Reported(urc.m, urc.status)
  /\ \A e \in late : e.status = "expired"
  /\ \A m \in Msgs : pc[m] = "idle" => net[m] = "none"
=============================================================================
