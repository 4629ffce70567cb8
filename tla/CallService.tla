---------------------------- MODULE CallService ----------------------------
(***************************************************************************)
(* Voice calls: internal/services/call.go and call_urc.go.  Dial and       *)
(* Hangup run on goroutines of MQTT handlers and HTTP requests, URCs on    *)
(* the URC goroutine, and every accepted call has an auto-drop timer and,  *)
(* when the driver has CheckCallState, a monitor goroutine.                *)
(*                                                                         *)
(* A Dial names the timer, the stop channel and the monitor it makes.      *)
(* Critical sections of mu are single steps, and so is an AT command.      *)
(* "completed", "busy" and "failed" are one state, "over": the code never  *)
(* asks which of them it is.  Events only leave the service and are left   *)
(* out; Answer has no caller outside tests, SendDTMF changes no state, and *)
(* SetAutoDropTimeout sets a duration, which the model does not measure.   *)
(***************************************************************************)
EXTENDS Naturals, FiniteSets

CONSTANTS
  Dials,        \* calls of Dial
  Hangups,      \* goroutines that call Hangup, any number of times
  URCs,         \* notifications the modem may emit, at any time
  HangupFails,  \* may ATH fail?
  HasChecker,   \* does the driver implement CallStateChecker?
  Incoming,     \* status.Number and Direction of an incoming call
  Urc,          \* the URC goroutine
  NIL

ASSUME CallAssumption ==
  /\ NIL \notin Dials /\ Incoming \notin Dials /\ Urc \notin Dials
  /\ Incoming # NIL
  /\ HangupFails \in BOOLEAN /\ HasChecker \in BOOLEAN
  /\ URCs \subseteq {"CLIP", "COLP", "NO CARRIER", "BUSY"}

VARIABLES
  state, number,           \* CallService.status
  dropTimer, monitorStop,  \* the Dial that made the timer / the stop channel
  timer, stopCh, mon,      \* per Dial: its timer, stop channel and monitor
  dial, hangup,            \* per Dial, per caller of Hangup: where it is
  drop,                    \* per goroutine: where it is in handleCallAnsweredDrop
  line                     \* the modem: the Dial whose call is up

statusVars == <<state, number>>
timerVars  == <<dropTimer, monitorStop, timer, stopCh>>
vars == <<statusVars, timerVars, mon, dial, hangup, drop, line>>

States == {"idle", "dialing", "ringing", "answered", "over"}
Trying == {"dialing", "ringing"}
InProgress == {"dialing", "refused", "failed", "accepted"}
Droppers == Dials \cup {Urc}

TypeOK ==
  /\ state \in States
  /\ number \in Dials \cup {Incoming, NIL}
  /\ dropTimer \in Dials \cup {NIL} /\ monitorStop \in Dials \cup {NIL}
  /\ timer \in [Dials -> {"off", "armed", "fired", "hangup"}]
  /\ stopCh \in [Dials -> {"none", "open", "closed"}]
  /\ mon \in [Dials -> {"none", "select", "check", "ringing", "answered"}]
  /\ dial \in [Dials -> {"idle", "done"} \cup InProgress]
  /\ hangup \in [Hangups -> {"idle", "locked"}]
  /\ drop \in [Droppers -> {"none", "hangup", "hungup"}]
  /\ line \in Dials \cup {NIL}

Init ==
  /\ state = "idle" /\ number = NIL
  /\ dropTimer = NIL /\ monitorStop = NIL
  /\ timer = [d \in Dials |-> "off"]
  /\ stopCh = [d \in Dials |-> "none"]
  /\ mon = [d \in Dials |-> "none"]
  /\ dial = [d \in Dials |-> "idle"]
  /\ hangup = [h \in Hangups |-> "idle"]
  /\ drop = [a \in Droppers |-> "none"]
  /\ line = NIL

(* ATH: no call is up afterwards, unless the command fails.                *)
ATH == \/ line' = NIL
       \/ HangupFails /\ UNCHANGED line

(* Mutant: the channel is closed but not forgotten.                        *)
closeMonitor_KeepsPointer ==
  /\ stopCh' = [d \in Dials |-> IF d = monitorStop THEN "closed" ELSE stopCh[d]]
  /\ UNCHANGED monitorStop

closeMonitor ==
  /\ stopCh' = [d \in Dials |-> IF d = monitorStop THEN "closed" ELSE stopCh[d]]
  /\ monitorStop' = NIL

(* A timer whose function has started is not stopped.                      *)
stopDropTimer ==
  /\ timer' = [d \in Dials |-> IF d = dropTimer /\ timer[d] = "armed"
                               THEN "off" ELSE timer[d]]
  /\ dropTimer' = NIL
  /\ closeMonitor

-----------------------------------------------------------------------------
(* Dial, with BaseDriver.Dial.                                             *)

(* A number without digits.                                                *)
DialEmpty(d) ==
  /\ dial[d] = "idle"
  /\ dial' = [dial EXCEPT ![d] = "done"]
  /\ UNCHANGED <<statusVars, timerVars, mon, hangup, drop, line>>

Dial(d) ==
  /\ dial[d] = "idle"
  /\ stopDropTimer
  /\ state' = "dialing"
  /\ number' = d
  /\ dial' = [dial EXCEPT ![d] = "dialing"]
  /\ UNCHANGED <<mon, hangup, drop, line>>

(* ATD.  The modem has one line: a second call is refused.                 *)
ATD(d) ==
  /\ dial[d] = "dialing"
  /\ \/ /\ line = NIL
        /\ line' = d
        /\ dial' = [dial EXCEPT ![d] = "accepted"]
     \/ /\ dial' = [dial EXCEPT ![d] = "refused"]
        /\ UNCHANGED line
  /\ UNCHANGED <<statusVars, timerVars, mon, hangup, drop>>

(* The driver's ATH after a failed ATD.                                    *)
CleanUp(d) ==
  /\ dial[d] = "refused"
  /\ ATH
  /\ dial' = [dial EXCEPT ![d] = "failed"]
  /\ UNCHANGED <<statusVars, timerVars, mon, hangup, drop>>

DialFailed(d) ==
  /\ dial[d] = "failed"
  /\ state' = "over"
  /\ dial' = [dial EXCEPT ![d] = "done"]
  /\ UNCHANGED <<number, timerVars, mon, hangup, drop, line>>

(* Mutant: the monitor is started, the timer is not.                       *)
startDialMonitoring_NoTimer(d) ==
  /\ dial[d] = "accepted"
  /\ state' = "ringing"
  /\ monitorStop' = d
  /\ stopCh' = [stopCh EXCEPT ![d] = "open"]
  /\ mon' = [mon EXCEPT ![d] = IF HasChecker THEN "select" ELSE "none"]
  /\ dial' = [dial EXCEPT ![d] = "done"]
  /\ UNCHANGED <<number, dropTimer, timer, hangup, drop, line>>

(* The pointers of a concurrent Dial are overwritten without being used.   *)
startDialMonitoring(d) ==
  /\ dial[d] = "accepted"
  /\ state' = "ringing"
  /\ dropTimer' = d
  /\ timer' = [timer EXCEPT ![d] = "armed"]
  /\ monitorStop' = d
  /\ stopCh' = [stopCh EXCEPT ![d] = "open"]
  /\ mon' = [mon EXCEPT ![d] = IF HasChecker THEN "select" ELSE "none"]
  /\ dial' = [dial EXCEPT ![d] = "done"]
  /\ UNCHANGED <<number, hangup, drop, line>>

DialStep(d) == ATD(d) \/ CleanUp(d) \/ DialFailed(d) \/ startDialMonitoring(d)

-----------------------------------------------------------------------------
(* The auto-drop timer.                                                    *)

TimerFires(d) ==
  /\ timer[d] = "armed"
  /\ timer' = [timer EXCEPT ![d] = "fired"]
  /\ UNCHANGED <<statusVars, dropTimer, monitorStop, stopCh, mon, dial, hangup,
                 drop, line>>

(* Mutant: only a call still being dialled is timed out.                   *)
onAutoDropTimeout_DialingOnly(d) ==
  /\ timer[d] = "fired"
  /\ IF state # "dialing"
     THEN /\ timer' = [timer EXCEPT ![d] = "off"]
          /\ UNCHANGED <<state, monitorStop, stopCh>>
     ELSE /\ timer' = [timer EXCEPT ![d] = "hangup"]
          /\ state' = "over"
          /\ closeMonitor
  /\ UNCHANGED <<number, dropTimer, mon, dial, hangup, drop, line>>

onAutoDropTimeout(d) ==
  /\ timer[d] = "fired"
  /\ IF state \notin Trying
     THEN /\ timer' = [timer EXCEPT ![d] = "off"]
          /\ UNCHANGED <<state, monitorStop, stopCh>>
     ELSE /\ timer' = [timer EXCEPT ![d] = "hangup"]
          /\ state' = "over"
          /\ closeMonitor
  /\ UNCHANGED <<number, dropTimer, mon, dial, hangup, drop, line>>

TimeoutHangup(d) ==
  /\ timer[d] = "hangup"
  /\ ATH
  /\ timer' = [timer EXCEPT ![d] = "off"]
  /\ UNCHANGED <<statusVars, dropTimer, monitorStop, stopCh, mon, dial, hangup, drop>>

TimerStep(d) == TimerFires(d) \/ onAutoDropTimeout(d) \/ TimeoutHangup(d)

-----------------------------------------------------------------------------
(* handleCallAnsweredDrop, on goroutine a.                                 *)

Answered(a) ==
  /\ drop[a] = "none"
  /\ stopDropTimer
  /\ state' = "answered"
  /\ drop' = [drop EXCEPT ![a] = "hangup"]

DropHangup(a) ==
  /\ drop[a] = "hangup"
  /\ ATH
  /\ drop' = [drop EXCEPT ![a] = "hungup"]
  /\ UNCHANGED <<statusVars, timerVars, mon, dial, hangup>>

(* Mutant: the status is left as it was before the hang-up.                *)
Dropped_KeepsState(a) ==
  /\ drop[a] = "hungup"
  /\ drop' = [drop EXCEPT ![a] = "none"]
  /\ UNCHANGED <<statusVars, timerVars, mon, dial, hangup, line>>

(* The status is overwritten whatever call it describes by now.            *)
Dropped(a) ==
  /\ drop[a] = "hungup"
  /\ state' = "over"
  /\ drop' = [drop EXCEPT ![a] = "none"]
  /\ UNCHANGED <<number, timerVars, mon, dial, hangup, line>>

-----------------------------------------------------------------------------
(* monitorCall: a loop around a select over the stop channel and a ticker. *)

MonitorStops(d) ==
  /\ mon[d] = "select" /\ stopCh[d] = "closed"
  /\ mon' = [mon EXCEPT ![d] = "none"]
  /\ UNCHANGED <<statusVars, timerVars, dial, hangup, drop, line>>

Tick(d) ==
  /\ mon[d] = "select"
  /\ mon' = [mon EXCEPT ![d] = IF state \in Trying THEN "check" ELSE "none"]
  /\ UNCHANGED <<statusVars, timerVars, dial, hangup, drop, line>>

(* AT+CLCC.  An error, or a call that is being dialled: on to the next tick. *)
CheckCallState(d) ==
  /\ mon[d] = "check"
  /\ \E r \in {"select"} \cup (IF line = NIL THEN {"none"} ELSE {"ringing", "answered"}) :
       mon' = [mon EXCEPT ![d] = r]
  /\ UNCHANGED <<statusVars, timerVars, dial, hangup, drop, line>>

MonitorRinging(d) ==
  /\ mon[d] = "ringing"
  /\ state' = IF state = "dialing" THEN "ringing" ELSE state
  /\ mon' = [mon EXCEPT ![d] = "select"]
  /\ UNCHANGED <<number, timerVars, dial, hangup, drop, line>>

MonitorAnswered(d) ==
  /\ mon[d] = "answered"
  /\ Answered(d)
  /\ mon' = [mon EXCEPT ![d] = "none"]
  /\ UNCHANGED <<number, dial, hangup, line>>

MonitorStep(d) == \/ MonitorStops(d) \/ Tick(d) \/ CheckCallState(d)
                  \/ MonitorRinging(d) \/ MonitorAnswered(d)

-----------------------------------------------------------------------------
(* Hangup.                                                                 *)

Hangup(h) ==
  /\ hangup[h] = "idle"
  /\ stopDropTimer
  /\ state' = "over"
  /\ hangup' = [hangup EXCEPT ![h] = "locked"]
  /\ UNCHANGED <<number, mon, dial, drop, line>>

HangupATH(h) ==
  /\ hangup[h] = "locked"
  /\ ATH
  /\ hangup' = [hangup EXCEPT ![h] = "idle"]
  /\ UNCHANGED <<statusVars, timerVars, mon, dial, drop>>

-----------------------------------------------------------------------------
(* HandleURC, on the URC goroutine.                                        *)

handleClipURC ==
  /\ state' = "ringing" /\ number' = Incoming
  /\ UNCHANGED drop
  /\ stopDropTimer

(* NO CARRIER, BUSY.                                                       *)
handleEndURC ==
  /\ state' = "over"
  /\ UNCHANGED <<number, drop>>
  /\ stopDropTimer

handleColpURC == Answered(Urc) /\ UNCHANGED number

HandleURC(k) ==
  /\ drop[Urc] = "none"
  /\ \/ k = "CLIP" /\ handleClipURC
     \/ k \in {"NO CARRIER", "BUSY"} /\ handleEndURC
     \/ k = "COLP" /\ handleColpURC
  /\ UNCHANGED <<mon, dial, hangup, line>>

(* The remote party or the network ends the call.                          *)
RemoteEnds ==
  /\ line # NIL
  /\ line' = NIL
  /\ UNCHANGED <<statusVars, timerVars, mon, dial, hangup, drop>>

-----------------------------------------------------------------------------
Next ==
  \/ \E d \in Dials : \/ DialEmpty(d) \/ Dial(d)
                      \/ DialStep(d) \/ TimerStep(d) \/ MonitorStep(d)
  \/ \E a \in Droppers : DropHangup(a) \/ Dropped(a)
  \/ \E h \in Hangups : Hangup(h) \/ HangupATH(h)
  \/ \E k \in URCs : HandleURC(k)
  \/ RemoteEnds

Spec == Init /\ [][Next]_vars

(* AT commands return (ATEngine), timers fire, and the goroutines that run *)
(* Dial, Hangup, a timer's function or handleCallAnsweredDrop go on.       *)
(* Monitors, new callers, modem and remote party owe nothing.              *)
Fairness ==
  /\ \A d \in Dials : WF_vars(DialStep(d)) /\ WF_vars(TimerStep(d))
  /\ \A h \in Hangups : WF_vars(HangupATH(h))
  /\ \A a \in Droppers : WF_vars(DropHangup(a) \/ Dropped(a))

FairSpec == Spec /\ Fairness
-----------------------------------------------------------------------------
(* Properties.                                                             *)

OutgoingTrying == number \in Dials /\ state \in Trying

(* While the status is that of an outgoing call not yet answered, a Dial   *)
(* is still at work on it or the current timer will end it: concurrent     *)
(* Dials, hang-ups and URCs never leave a ringing call without its timer.  *)
OutgoingIsTimed ==
  OutgoingTrying => \/ \E d \in Dials : dial[d] \in InProgress
                    \/ dropTimer # NIL /\ timer[dropTimer] \in {"armed", "fired"}

(* monitorStop is never a closed channel: closing one again would panic.   *)
NoDoubleClose == monitorStop # NIL => stopCh[monitorStop] = "open"

(* An outgoing call does not stay "dialing" or "ringing" for ever, even    *)
(* when the modem never says what became of it.                            *)
RingingEnds == OutgoingTrying ~> ~OutgoingTrying

(* The call-drop: "answered" does not last.                                *)
AnsweredIsDropped == state = "answered" ~> state # "answered"

(* call.go, DefaultAutoDropTimeout: an outgoing call is allowed to ring    *)
(* that long and is then hung up.                                          *)
CallsAreHungUp == \A d \in Dials : line = d ~> line # d
=============================================================================
