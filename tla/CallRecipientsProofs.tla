------------------------ MODULE CallRecipientsProofs ------------------------
(***************************************************************************)
(* Proofs about CallService, for any number of concurrent Dials and        *)
(* hang-ups and any notifications of the modem, and about Recipients, the  *)
(* numbers that alerts go to, for any requests, connections and faults.    *)
(* The two share no state; every name of Recipients that both would have   *)
(* carries its prefix.                                                     *)
(***************************************************************************)
EXTENDS CallService, Recipients, WellFoundedInduction, TLAPS

USE DEF statusVars, timerVars, Trying, InProgress, Droppers

(* What stopDropTimer leaves behind.                                       *)
LEMMA StopDropTimerType ==
  ASSUME TypeOK, stopDropTimer
  PROVE  /\ dropTimer' = NIL /\ monitorStop' = NIL
         /\ timer' \in [Dials -> {"off", "armed", "fired", "hangup"}]
         /\ stopCh' \in [Dials -> {"none", "open", "closed"}]
BY DEF TypeOK, stopDropTimer, closeMonitor

LEMMA ATHType == TypeOK /\ ATH => line' \in Dials \cup {NIL}
BY DEF TypeOK, ATH

LEMMA CallTypeInit == Init => TypeOK
BY DEF Init, TypeOK, States

LEMMA CallTypeNext == TypeOK /\ [Next]_vars => TypeOK'
<1> SUFFICES ASSUME TypeOK, [Next]_vars PROVE TypeOK'
  OBVIOUS
<1>1. ASSUME NEW d \in Dials, DialEmpty(d) PROVE TypeOK'
  BY <1>1 DEF DialEmpty, TypeOK
<1>2. ASSUME NEW d \in Dials, Dial(d) PROVE TypeOK'
  BY <1>2, StopDropTimerType DEF Dial, TypeOK, States
<1>3. ASSUME NEW d \in Dials, DialStep(d) PROVE TypeOK'
  <2>1. CASE ATD(d)
    BY <2>1 DEF ATD, TypeOK
  <2>2. CASE CleanUp(d)
    BY <2>2, ATHType DEF CleanUp, TypeOK
  <2>3. CASE DialFailed(d)
    BY <2>3 DEF DialFailed, TypeOK, States
  <2>4. CASE startDialMonitoring(d)
    BY <2>4 DEF startDialMonitoring, TypeOK, States
  <2> QED
    BY <1>3, <2>1, <2>2, <2>3, <2>4 DEF DialStep
<1>4. ASSUME NEW d \in Dials, TimerStep(d) PROVE TypeOK'
  <2>1. CASE TimerFires(d)
    BY <2>1 DEF TimerFires, TypeOK
  <2>2. CASE onAutoDropTimeout(d)
    BY <2>2 DEF onAutoDropTimeout, closeMonitor, TypeOK, States
  <2>3. CASE TimeoutHangup(d)
    BY <2>3, ATHType DEF TimeoutHangup, TypeOK
  <2> QED
    BY <1>4, <2>1, <2>2, <2>3 DEF TimerStep
<1>5. ASSUME NEW d \in Dials, MonitorStep(d) PROVE TypeOK'
  <2>1. CASE MonitorStops(d)
    BY <2>1 DEF MonitorStops, TypeOK
  <2>2. CASE Tick(d)
    BY <2>2 DEF Tick, TypeOK
  <2>3. CASE CheckCallState(d)
    BY <2>3 DEF CheckCallState, TypeOK
  <2>4. CASE MonitorRinging(d)
    BY <2>4 DEF MonitorRinging, TypeOK, States
  <2>5. CASE MonitorAnswered(d)
    BY <2>5, StopDropTimerType DEF MonitorAnswered, Answered, TypeOK, States
  <2> QED
    BY <1>5, <2>1, <2>2, <2>3, <2>4, <2>5 DEF MonitorStep
<1>6. ASSUME NEW a \in Droppers, DropHangup(a) PROVE TypeOK'
  BY <1>6, ATHType DEF DropHangup, TypeOK
<1>7. ASSUME NEW a \in Droppers, Dropped(a) PROVE TypeOK'
  BY <1>7 DEF Dropped, TypeOK, States
<1>8. ASSUME NEW h \in Hangups, Hangup(h) PROVE TypeOK'
  BY <1>8, StopDropTimerType DEF Hangup, TypeOK, States
<1>9. ASSUME NEW h \in Hangups, HangupATH(h) PROVE TypeOK'
  BY <1>9, ATHType DEF HangupATH, TypeOK
<1>10. ASSUME NEW k \in URCs, HandleURC(k) PROVE TypeOK'
  <2>1. /\ stopDropTimer
        /\ state' \in States /\ number' \in Dials \cup {Incoming, NIL}
        /\ drop' \in [Droppers -> {"none", "hangup", "hungup"}]
        /\ UNCHANGED <<mon, dial, hangup, line>>
    BY <1>10 DEF HandleURC, handleClipURC, handleEndURC, handleColpURC, Answered,
                 TypeOK, States
  <2> QED
    BY <2>1, StopDropTimerType DEF TypeOK
<1>11. CASE RemoteEnds
  BY <1>11 DEF RemoteEnds, TypeOK
<1>12. CASE UNCHANGED vars
  BY <1>12 DEF vars, TypeOK
<1> QED
  BY <1>1, <1>2, <1>3, <1>4, <1>5, <1>6, <1>7, <1>8, <1>9, <1>10, <1>11, <1>12 DEF Next

(* Type correctness of the call service.                                   *)
THEOREM CallTypeCorrect == Spec => []TypeOK
BY CallTypeInit, CallTypeNext, PTL DEF Spec

-----------------------------------------------------------------------------
(* Every goroutine that stops the current timer also takes the status out  *)
(* of "dialing" and "ringing", or is a Dial that will arm a new one.       *)
LEMMA TimedNext == TypeOK /\ OutgoingIsTimed /\ [Next]_vars => OutgoingIsTimed'
<1> SUFFICES ASSUME TypeOK, OutgoingIsTimed, [Next]_vars, OutgoingTrying'
             PROVE  OutgoingIsTimed'
  BY DEF OutgoingIsTimed
<1> USE DEF OutgoingTrying
<1>0. /\ DOMAIN dial = Dials /\ DOMAIN timer = Dials
      /\ dial = [d \in Dials |-> dial[d]] /\ timer = [d \in Dials |-> timer[d]]
      /\ dropTimer \in Dials \cup {NIL} /\ NIL \notin Dials
  BY CallAssumption DEF TypeOK
<1>1. ASSUME NEW d \in Dials, DialEmpty(d) PROVE OutgoingIsTimed'
  <2>1. OutgoingTrying /\ UNCHANGED <<dropTimer, timer>>
    BY <1>1 DEF DialEmpty
  <2>2. \A e \in Dials : dial[e] \in InProgress => dial'[e] \in InProgress
    BY <1>0, <1>1 DEF DialEmpty
  <2> QED
    BY <2>1, <2>2 DEF OutgoingIsTimed
<1>2. ASSUME NEW d \in Dials, Dial(d) PROVE OutgoingIsTimed'
  BY <1>0, <1>2 DEF Dial, OutgoingIsTimed
<1>3. ASSUME NEW d \in Dials, DialStep(d) PROVE OutgoingIsTimed'
  <2>1. CASE ATD(d) \/ CleanUp(d)
    <3>1. \/ dial' = [dial EXCEPT ![d] = "accepted"]
          \/ dial' = [dial EXCEPT ![d] = "refused"]
          \/ dial' = [dial EXCEPT ![d] = "failed"]
      BY <2>1 DEF ATD, CleanUp
    <3>2. dial'[d] \in InProgress
      BY <1>0, <3>1
    <3> QED
      BY <3>2 DEF OutgoingIsTimed
  <2>2. CASE DialFailed(d)
    BY <2>2 DEF DialFailed
  <2>3. CASE startDialMonitoring(d)
    BY <1>0, <2>3 DEF startDialMonitoring, OutgoingIsTimed
  <2> QED
    BY <1>3, <2>1, <2>2, <2>3 DEF DialStep
<1>4. ASSUME NEW d \in Dials, TimerStep(d) PROVE OutgoingIsTimed'
  <2>1. CASE TimerFires(d)
    BY <1>0, <2>1 DEF TimerFires, OutgoingIsTimed
  <2>2. CASE onAutoDropTimeout(d)
    BY <2>2 DEF onAutoDropTimeout
  <2>3. CASE TimeoutHangup(d)
    BY <1>0, <2>3 DEF TimeoutHangup, OutgoingIsTimed
  <2> QED
    BY <1>4, <2>1, <2>2, <2>3 DEF TimerStep
<1>5. ASSUME NEW d \in Dials, MonitorStep(d) PROVE OutgoingIsTimed'
  <2>1. ~MonitorAnswered(d)
    BY DEF MonitorAnswered, Answered
  <2>2. OutgoingTrying /\ UNCHANGED <<dial, dropTimer, timer>>
    BY <1>5, <2>1 DEF MonitorStep, MonitorStops, Tick, CheckCallState, MonitorRinging
  <2> QED
    BY <2>2 DEF OutgoingIsTimed
<1>6. ASSUME NEW a \in Droppers, DropHangup(a) PROVE OutgoingIsTimed'
  BY <1>6 DEF DropHangup, OutgoingIsTimed
<1>7. ASSUME NEW a \in Droppers, Dropped(a) PROVE OutgoingIsTimed'
  BY <1>7 DEF Dropped
<1>8. ASSUME NEW h \in Hangups, Hangup(h) PROVE OutgoingIsTimed'
  BY <1>8 DEF Hangup
<1>9. ASSUME NEW h \in Hangups, HangupATH(h) PROVE OutgoingIsTimed'
  BY <1>9 DEF HangupATH, OutgoingIsTimed
<1>10. ASSUME NEW k \in URCs, HandleURC(k) PROVE OutgoingIsTimed'
  BY <1>10, CallAssumption DEF HandleURC, handleClipURC, handleEndURC, handleColpURC, Answered
<1>11. CASE RemoteEnds
  BY <1>11 DEF RemoteEnds, OutgoingIsTimed
<1>12. CASE UNCHANGED vars
  BY <1>12 DEF vars, OutgoingIsTimed
<1> QED
  BY <1>1, <1>2, <1>3, <1>4, <1>5, <1>6, <1>7, <1>8, <1>9, <1>10, <1>11, <1>12 DEF Next

(* A ringing outgoing call always has a Dial or a live timer behind it,    *)
(* however many Dials, hang-ups, monitors and URCs interleave.             *)
THEOREM TimedCalls == Spec => []OutgoingIsTimed
<1>1. Init => OutgoingIsTimed
  BY DEF Init, OutgoingIsTimed, OutgoingTrying
<1> QED
  BY <1>1, TimedNext, CallTypeInit, CallTypeNext, PTL DEF Spec

-----------------------------------------------------------------------------
LEMMA CloseNext == TypeOK /\ NoDoubleClose /\ [Next]_vars => NoDoubleClose'
<1> SUFFICES ASSUME TypeOK, NoDoubleClose, [Next]_vars PROVE NoDoubleClose'
  OBVIOUS
<1>1. CASE UNCHANGED <<monitorStop, stopCh>>
  BY <1>1 DEF NoDoubleClose
<1>2. CASE monitorStop' = NIL
  BY <1>2 DEF NoDoubleClose
<1>3. ASSUME NEW d \in Dials, startDialMonitoring(d) PROVE NoDoubleClose'
  BY <1>3 DEF startDialMonitoring, NoDoubleClose, TypeOK
<1>4. ASSUME NEW d \in Dials, DialEmpty(d) \/ Dial(d) \/ DialStep(d) PROVE NoDoubleClose'
  BY <1>1, <1>2, <1>3, <1>4 DEF DialEmpty, Dial, stopDropTimer, closeMonitor, DialStep,
     ATD, CleanUp, DialFailed
<1>5. ASSUME NEW d \in Dials, TimerStep(d) PROVE NoDoubleClose'
  BY <1>1, <1>2, <1>5 DEF TimerStep, TimerFires, onAutoDropTimeout, closeMonitor,
     TimeoutHangup
<1>6. ASSUME NEW d \in Dials, MonitorStep(d) PROVE NoDoubleClose'
  BY <1>1, <1>2, <1>6 DEF MonitorStep, MonitorStops, Tick, CheckCallState,
     MonitorRinging, MonitorAnswered, Answered, stopDropTimer, closeMonitor
<1>7. ASSUME NEW a \in Droppers, DropHangup(a) \/ Dropped(a) PROVE NoDoubleClose'
  BY <1>1, <1>7 DEF DropHangup, Dropped
<1>8. ASSUME NEW h \in Hangups, Hangup(h) \/ HangupATH(h) PROVE NoDoubleClose'
  BY <1>1, <1>2, <1>8 DEF Hangup, HangupATH, stopDropTimer, closeMonitor
<1>9. ASSUME NEW k \in URCs, HandleURC(k) PROVE NoDoubleClose'
  BY <1>2, <1>9 DEF HandleURC, handleClipURC, handleEndURC, handleColpURC, Answered,
     stopDropTimer, closeMonitor
<1>10. CASE RemoteEnds \/ UNCHANGED vars
  BY <1>1, <1>10 DEF RemoteEnds, vars
<1> QED
  BY <1>4, <1>5, <1>6, <1>7, <1>8, <1>9, <1>10 DEF Next

(* No goroutine ever closes a stop channel that is closed already.         *)
THEOREM StopChannels == Spec => []NoDoubleClose
<1>1. Init => NoDoubleClose
  BY DEF Init, NoDoubleClose
<1> QED
  BY <1>1, CloseNext, CallTypeInit, CallTypeNext, PTL DEF Spec
-----------------------------------------------------------------------------
(* Recipients.                                                             *)
HIDE DEF statusVars, timerVars, Trying, InProgress, Droppers

USE DEF list, gate, wire, Goto

LEMMA LoadedIsKept ==
  ASSUME NEW f PROVE Loaded(f) = <<>> \/ Kept(f) = File(Loaded(f))
BY DEF Kept

(* A list that is not empty is read back as it was written.                *)
LEMMA WrittenIsLoaded ==
  ASSUME NEW l, l # <<>> PROVE Loaded(File(l)) = l
<1>1. File(l) # Torn /\ File(l) # File(<<>>) /\ File(l).list = l
  BY DEF File, Torn
<1> QED
  BY <1>1 DEF Loaded

LEMMA RecipientsInvInit == RecipientsInit => RecipientsInv
<1> SUFFICES ASSUME RecipientsInit PROVE RecipientsInv
  OBVIOUS
<1>1. pc \in [Procs -> Steps] /\ copy = [p \in Procs |-> copy[p]]
  BY DEF RecipientsInit, Started, Steps, NoCopies
<1>2. \A p \in Procs : pc[p] \notin {"save", "notify", "publish"}
  BY DEF RecipientsInit, Started
<1>3. SaverHolds
  BY <1>2, RecipientsAssumption DEF RecipientsInit, SaverHolds, Procs
<1>4. CopiesAreCurrent /\ SomebodyShows
  BY <1>2 DEF RecipientsInit, CopiesAreCurrent, SomebodyShows, InFlight
<1>5. FileIsCurrent
  BY LoadedIsKept DEF RecipientsInit, FileIsCurrent
<1> QED
  BY <1>1, <1>3, <1>4, <1>5 DEF RecipientsInv

(* What a step of one process does to the program counters.                *)
LEMMA GotoStep ==
  ASSUME RecipientsInv, NEW p \in Procs, NEW l \in Steps, Goto(p, l)
  PROVE  pc' \in [Procs -> Steps] /\ pc'[p] = l /\ \A q \in Procs \ {p} : pc'[q] = pc[q]
BY DEF RecipientsInv

(* A change: whoever else has a copy on its way makes the changes overlap. *)
LEMMA CommitStep ==
  ASSUME RecipientsInv, NEW p \in Procs, NEW new, pc[p] = "change", saving = NONE, Commit(p, new)
  PROVE  RecipientsInv'
<1>1. pc' \in [Procs -> Steps] /\ pc'[p] = "save" /\ \A q \in Procs \ {p} : pc'[q] = pc[q]
  BY GotoStep DEF Commit, Steps
<1>2. copy' = [q \in Procs |-> copy'[q]] /\ copy'[p] = new
  BY DEF RecipientsInv, Commit
<1>3. SaverHolds'
  BY <1>1, RecipientsAssumption DEF RecipientsInv, SaverHolds, Commit, Procs
<1>4. CopiesAreCurrent'
  BY <1>1, <1>2 DEF CopiesAreCurrent, InFlight, Commit
<1>5. SomebodyShows'
  BY <1>1 DEF SomebodyShows, InFlight
<1>6. FileIsCurrent'
  BY RecipientsAssumption DEF FileIsCurrent, Commit, Procs
<1> QED
  BY <1>1, <1>2, <1>3, <1>4, <1>5, <1>6 DEF RecipientsInv

(* A step that leaves the list, its file and the topic alone, of a process *)
(* that is not on its way to the topic.                                    *)
LEMMA AsideStep ==
  ASSUME RecipientsInv, NEW p \in Procs, NEW l \in Steps, Goto(p, l),
         pc[p] \notin {"save", "notify", "publish", "get"}, l \notin {"save", "notify", "publish"},
         UNCHANGED <<list, copy, shown>>,
         \/ UNCHANGED <<client, connected>> 
         \/ l = "get" \/ ~(client /\ connected)'
  PROVE  RecipientsInv'
<1>1. pc' \in [Procs -> Steps] /\ pc'[p] = l /\ \A q \in Procs \ {p} : pc'[q] = pc[q]
  BY GotoStep
<1>2. \A q \in Procs : InFlight(q)' <=> InFlight(q)
  BY <1>1 DEF InFlight
<1>3. SaverHolds' /\ CopiesAreCurrent' /\ FileIsCurrent'
  BY <1>1, <1>2 DEF RecipientsInv, SaverHolds, CopiesAreCurrent, FileIsCurrent
<1>4. SomebodyShows'
  BY <1>1, <1>2 DEF RecipientsInv, SomebodyShows
<1> QED
  BY <1>1, <1>3, <1>4 DEF RecipientsInv

LEMMA RecipientsInvNext == RecipientsInv /\ [RecipientsNext]_recipientsVars => RecipientsInv'
<1> SUFFICES ASSUME RecipientsInv, [RecipientsNext]_recipientsVars PROVE RecipientsInv'
  OBVIOUS
<1>0. /\ pc \in [Procs -> Steps] /\ copy = [p \in Procs |-> copy[p]]
      /\ SaverHolds /\ CopiesAreCurrent /\ SomebodyShows /\ FileIsCurrent
  BY DEF RecipientsInv
<1>1. ASSUME NEW p \in Procs, Change(p) PROVE RecipientsInv'
  <2>1. pc[p] = "change" /\ saving = NONE
    BY <1>1 DEF Change
  <2>2. ASSUME NEW new, Commit(p, new) PROVE RecipientsInv'
    BY <2>1, <2>2, CommitStep
  <2>3. ASSUME Refuse(p) PROVE RecipientsInv'
    BY <1>1, <2>1, <2>3, AsideStep DEF Refuse, Change, Steps
  <2> QED
    BY <1>1, <2>2, <2>3 DEF Change, AddRecipient, RemoveRecipient, SetRecipients
<1>2. ASSUME NEW p \in Procs, Save(p) PROVE RecipientsInv'
  <2>1. pc' \in [Procs -> Steps] /\ pc'[p] = "notify" /\ \A q \in Procs \ {p} : pc'[q] = pc[q]
    BY <1>2, GotoStep DEF Save, Steps
  <2>2. pc[p] = "save" /\ saving = p /\ saving' = NONE /\ UNCHANGED <<numbers, overlap, copy, client, connected, shown>>
    BY <1>0, <1>2 DEF Save, SaverHolds
  <2>3. SaverHolds'
    BY <1>0, <2>1, <2>2, RecipientsAssumption DEF SaverHolds, Procs
  <2>4. CopiesAreCurrent' /\ SomebodyShows'
    BY <1>0, <2>1, <2>2 DEF CopiesAreCurrent, SomebodyShows, InFlight
  <2>5. FileIsCurrent'
    BY <1>2 DEF Save, FileIsCurrent, File
  <2> QED
    BY <1>0, <2>1, <2>2, <2>3, <2>4, <2>5 DEF RecipientsInv
<1>3. ASSUME NEW p \in Procs, Notify(p) PROVE RecipientsInv'
  <2>1. pc[p] = "notify" /\ UNCHANGED <<numbers, file, saving, unsaved, overlap, client, connected, shown>>
    BY <1>3 DEF Notify
  <2>2. CASE client /\ connected
    <3>1. pc' \in [Procs -> Steps] /\ pc'[p] = "publish" /\ \A q \in Procs \ {p} : pc'[q] = pc[q]
      BY <1>3, <2>2, GotoStep DEF Notify, Steps
    <3>2. copy' = copy
      BY <1>3, <2>2 DEF Notify
    <3>3. \A q \in Procs : (InFlight(q)' <=> InFlight(q)) /\ (pc'[q] = "save" <=> pc[q] = "save") /\ (pc'[q] = "get" <=> pc[q] = "get")
      BY <2>1, <3>1 DEF InFlight
    <3> QED
      BY <1>0, <2>1, <3>1, <3>2, <3>3 DEF RecipientsInv, SaverHolds, CopiesAreCurrent, SomebodyShows, FileIsCurrent
  <2>3. CASE ~(client /\ connected)
    <3>1. Ends(p)
      BY <1>3, <2>3 DEF Notify
    <3>2. pc' \in [Procs -> Steps] /\ pc'[p] \in {"lock", "idle"} /\ \A q \in Procs \ {p} : pc'[q] = pc[q]
      BY <3>1, GotoStep DEF Ends, Steps
    <3>3. copy' = [q \in Procs |-> copy'[q]] /\ \A q \in Procs \ {p} : copy'[q] = copy[q]
      BY <1>0, <3>1 DEF Ends
    <3> QED
      BY <1>0, <2>1, <2>3, <3>2, <3>3 DEF RecipientsInv, SaverHolds, CopiesAreCurrent, SomebodyShows, FileIsCurrent, InFlight
  <2> QED
    BY <2>2, <2>3
<1>4. ASSUME NEW p \in Procs, Publish(p) PROVE RecipientsInv'
  <2>1. pc[p] = "publish" /\ UNCHANGED <<numbers, file, saving, unsaved, overlap, client, connected>> /\ Ends(p)
        /\ shown' = IF connected THEN copy[p] ELSE shown
    BY <1>4 DEF Publish
  <2>2. pc' \in [Procs -> Steps] /\ pc'[p] \in {"lock", "idle"} /\ \A q \in Procs \ {p} : pc'[q] = pc[q]
    BY <2>1, GotoStep DEF Ends, Steps
  <2>3. copy' = [q \in Procs |-> copy'[q]] /\ \A q \in Procs \ {p} : copy'[q] = copy[q]
    BY <1>0, <2>1 DEF Ends
  <2>4. connected /\ ~overlap => shown' = numbers
    BY <1>0, <2>1 DEF CopiesAreCurrent, InFlight
  <2>5. SomebodyShows'
    BY <2>1, <2>4 DEF SomebodyShows
  <2> QED
    BY <1>0, <2>1, <2>2, <2>3, <2>5 DEF RecipientsInv, SaverHolds, CopiesAreCurrent, FileIsCurrent, InFlight
<1>5. ASSUME NEW p \in Procs, Get(p) PROVE RecipientsInv'
  <2>1. pc[p] = "get" /\ UNCHANGED <<numbers, file, saving, unsaved, overlap, client, connected, shown>>
    BY <1>5 DEF Get
  <2>2. pc' \in [Procs -> Steps] /\ pc'[p] = "notify" /\ \A q \in Procs \ {p} : pc'[q] = pc[q]
    BY <1>5, GotoStep DEF Get, Steps
  <2>3. copy' = [q \in Procs |-> copy'[q]] /\ copy'[p] = numbers /\ \A q \in Procs \ {p} : copy'[q] = copy[q]
    BY <1>0, <1>5 DEF Get
  <2>4. CopiesAreCurrent'
    BY <1>0, <2>1, <2>2, <2>3 DEF CopiesAreCurrent, InFlight
  <2>5. SomebodyShows'
    BY <2>2 DEF SomebodyShows, InFlight
  <2> QED
    BY <1>0, <2>1, <2>2, <2>3, <2>4, <2>5 DEF RecipientsInv, SaverHolds, FileIsCurrent
<1>6. ASSUME Lock PROVE RecipientsInv'
  <2>1. PICK l \in {"set", "register", "done"} : Goto("main", l)
    BY <1>6 DEF Lock
  <2> QED
    BY <1>6, <2>1, AsideStep DEF Lock, Steps, Procs
<1>7. ASSUME SetMQTT PROVE RecipientsInv'
  <2>1. "main" \in Procs /\ {"get", "lock"} \subseteq Steps
    BY DEF Procs, Steps
  <2>2. CASE connected
    <3>1. Goto("main", "get") /\ pc["main"] = "set" /\ UNCHANGED <<list, copy, shown>>
      BY <1>7, <2>2 DEF SetMQTT
    <3> QED
      BY <2>1, <3>1, AsideStep
  <2>3. CASE ~connected
    <3>1. Goto("main", "lock") /\ pc["main"] = "set" /\ UNCHANGED <<list, copy, shown, connected>>
      BY <1>7, <2>3 DEF SetMQTT
    <3> QED
      BY <2>1, <2>3, <3>1, AsideStep
  <2> QED
    BY <2>2, <2>3
<1>8. ASSUME Register PROVE RecipientsInv'
  BY <1>8, AsideStep DEF Register, Steps, Procs
<1>9. ASSUME NEW p \in Requests, RLock(p) PROVE RecipientsInv'
  BY <1>9, AsideStep DEF RLock, Steps, Procs
<1>10. ASSUME Disconnect PROVE RecipientsInv'
  BY <1>0, <1>10 DEF Disconnect, RecipientsInv, SaverHolds, CopiesAreCurrent, SomebodyShows, FileIsCurrent, InFlight
<1>11. ASSUME NEW c \in Conns, Connect(c) PROVE RecipientsInv'
  BY <1>11, AsideStep DEF Connect, Steps, Procs
<1>12. ASSUME Restart PROVE RecipientsInv'
  <2>1. pc' \in [Procs -> Steps] /\ copy' = [p \in Procs |-> copy'[p]]
    BY <1>12 DEF Restart, Started, Steps, NoCopies
  <2>2. \A p \in Procs : pc'[p] \notin {"save", "notify", "publish"}
    BY <1>12 DEF Restart, Started
  <2>3. SaverHolds'
    BY <1>12, <2>2, RecipientsAssumption DEF Restart, SaverHolds, Procs
  <2>4. CopiesAreCurrent' /\ SomebodyShows'
    BY <1>12, <2>2 DEF Restart, CopiesAreCurrent, SomebodyShows, InFlight
  <2>5. FileIsCurrent'
    BY <1>12, LoadedIsKept DEF Restart, FileIsCurrent, File
  <2> QED
    BY <2>1, <2>3, <2>4, <2>5 DEF RecipientsInv
<1>13. ASSUME UNCHANGED recipientsVars PROVE RecipientsInv'
  BY <1>0, <1>13 DEF recipientsVars, RecipientsInv, SaverHolds, CopiesAreCurrent, SomebodyShows, FileIsCurrent, InFlight, File
<1> QED
  BY <1>1, <1>2, <1>3, <1>4, <1>5, <1>6, <1>7, <1>8, <1>9, <1>10, <1>11, <1>12, <1>13 DEF RecipientsNext, Startup, Work

LEMMA RecipientsInvariant == RecipientsSpec => []RecipientsInv
BY RecipientsInvInit, RecipientsInvNext, PTL DEF RecipientsSpec

(* For any requests, connections and faults: once nobody is on the way to  *)
(* the broker, the retained list is the list of the manager, unless two    *)
(* changes have overlapped.                                                *)
THEOREM RetainedIsCurrent == RecipientsSpec => []ShownIsCurrent
<1>1. RecipientsInv => ShownIsCurrent
  BY DEF RecipientsInv, SomebodyShows, ShownIsCurrent, Quiet
<1> QED
  BY RecipientsInvariant, <1>1, PTL

(* A start after a crash finds the list that was saved last.               *)
THEOREM RestartsWithTheList == RecipientsSpec => RestartKeeps
<1> DEFINE Keeps == Restart => numbers' = numbers \/ numbers = <<>> \/ saving # NONE \/ unsaved
<1>1. RecipientsInv /\ [RecipientsNext]_recipientsVars => [Keeps]_recipientsVars
  <2> SUFFICES ASSUME RecipientsInv, Restart, numbers # <<>>, saving = NONE, ~unsaved PROVE numbers' = numbers
    OBVIOUS
  <2>1. file = File(numbers)
    BY DEF RecipientsInv, FileIsCurrent
  <2> QED
    BY <2>1, WrittenIsLoaded DEF Restart
<1> QED
  BY RecipientsInvariant, <1>1, PTL DEF RecipientsSpec, RestartKeeps
-----------------------------------------------------------------------------
(* Nobody is in the list twice.                                            *)

(* The order of the numbers is well-founded.                               *)
LEMMA SmallestOf ==
  ASSUME NEW T, T \subseteq Nat, T # {}
  PROVE  \E x \in T : \A y \in T : x <= y
<1>1. PICK x \in T : \A y \in T : ~ (<<y, x>> \in OpToRel(<, Nat))
  BY WFMin, NatLessThanWellFounded, Zenon
<1>2. ASSUME NEW y \in T PROVE x <= y
  <2>1. x \in Nat /\ y \in Nat
    OBVIOUS
  <2>2. y < x => <<y, x>> \in OpToRel(<, Nat)
    BY <2>1 DEF OpToRel
  <2>3. ~(y < x)
    BY <1>1, <2>2, Zenon
  <2> QED
    BY <2>1, <2>3
<1> QED
  BY <1>2

(* Induction, for a set of numbers.                                        *)
LEMMA FromZeroOn ==
  ASSUME NEW n \in Nat, NEW T, 0 \in T, \A i \in 0..n : i \in T /\ i < n => i + 1 \in T
  PROVE  0..n \subseteq T
<1> DEFINE B == {i \in 0..n : i \notin T}
<1>1. SUFFICES ASSUME B # {} PROVE FALSE
  OBVIOUS
<1>2. B \subseteq Nat
  OBVIOUS
<1>3. PICK x \in B : \A y \in B : x <= y
  <2> HIDE DEF B
  <2> QED
    BY <1>1, <1>2, SmallestOf
<1>4. x # 0 /\ x - 1 \in 0..n /\ x - 1 \notin B
  BY <1>3
<1>5. x - 1 \in T /\ x - 1 < n
  BY <1>4
<1> QED
  BY <1>3, <1>4, <1>5

(* Normalized, whose recursive function is shown to exist.                 *)
LEMMA NormalizedDef ==
  ASSUME NEW raws, Len(raws) \in Nat
  PROVE  \E f : /\ Normalized(raws) = f[Len(raws)] /\ f[0] = <<>>
                /\ \A i \in 1..Len(raws) : f[i] = Plus(f[i - 1], raws[i])
<1> DEFINE n == Len(raws)
           Body(g, k) == [i \in 0..k |-> IF i = 0 THEN <<>> ELSE Plus(g[i - 1], raws[i])]
           T == {k \in 0..n : \E g : g = Body(g, k)}
<1>0. n \in Nat
  OBVIOUS
<1>1. 0 \in T
  <2> DEFINE g == [i \in 0..0 |-> <<>>]
  <2>1. g = Body(g, 0)
    OBVIOUS
  <2>2. 0 \in 0..n
    BY <1>0
  <2> HIDE DEF g, Body, n
  <2> QED
    BY <2>1, <2>2
<1>2. ASSUME NEW k \in 0..n, k \in T, k < n PROVE k + 1 \in T
  <2>1. PICK g : g = Body(g, k)
    BY <1>2
  <2> DEFINE h == [i \in 0..(k + 1) |-> IF i = k + 1 THEN Plus(g[k], raws[k + 1]) ELSE g[i]]
  <2>2. ASSUME NEW i \in 0..(k + 1) PROVE h[i] = IF i = 0 THEN <<>> ELSE Plus(h[i - 1], raws[i])
    <3>0. k \in Nat /\ k \in 0..(k + 1)
      BY <1>0
    <3>1. CASE i = k + 1
      <4>1. i # 0 /\ i - 1 = k /\ h[i] = Plus(g[k], raws[k + 1]) /\ k # k + 1
        BY <3>0, <3>1
      <4>2. h[k] = g[k]
        BY <3>0, <4>1
      <4> QED
        BY <3>1, <4>1, <4>2
    <3>2. CASE i \in 0..k
      <4>1. h[i] = g[i] /\ (i # 0 => h[i - 1] = g[i - 1])
        BY <3>0, <3>2
      <4>2. g[i] = IF i = 0 THEN <<>> ELSE Plus(g[i - 1], raws[i])
        BY <2>1, <3>2
      <4> HIDE DEF h
      <4> QED
        BY <4>1, <4>2
    <3> QED
      BY <3>0, <3>1, <3>2
  <2>3. h = Body(h, k + 1)
    <3>1. h = [i \in 0..(k + 1) |-> h[i]]
      OBVIOUS
    <3> HIDE DEF h
    <3> QED
      BY <2>2, <3>1
  <2> HIDE DEF h, Body
  <2> QED
    BY <1>2, <2>3
<1>3. n \in T
  <2> HIDE DEF T
  <2>1. 0..n \subseteq T
    BY <1>0, <1>1, <1>2, FromZeroOn
  <2> QED
    BY <1>0, <2>1
<1> DEFINE f == CHOOSE h : h = Body(h, n)
<1>4. f = Body(f, n)
  <2>1. PICK g : g = Body(g, n)
    BY <1>3
  <2> HIDE DEF Body
  <2> QED
    BY <2>1
<1>5. Normalized(raws) = f[Len(raws)]
  BY DEF Normalized
<1> HIDE DEF f
<1>6. f[0] = <<>> /\ \A i \in 1..Len(raws) : f[i] = Plus(f[i - 1], raws[i])
  BY <1>0, <1>4
<1> QED
  BY <1>5, <1>6

(* A number that is new is the only one of its kind.                       *)
LEMMA PlusOnce ==
  ASSUME NEW s \in OnceEach, NEW r, Valid(r) => NormalizeNumber(r) \in Numbers
  PROVE  Plus(s, r) \in OnceEach
<1>1. CASE Valid(r) /\ NormalizeNumber(r) \notin Range(s)
  <2>1. PICK n \in Numbers : n = NormalizeNumber(r)
    BY <1>1
  <2>2. s \in Seq(Numbers) /\ Plus(s, r) = Append(s, n)
    BY <1>1, <2>1 DEF OnceEach, Plus
  <2>3. \A i \in 1..Len(s) : s[i] # n
    BY <1>1, <2>1, <2>2 DEF Range
  <2>4. Append(s, n) \in Seq(Numbers)
    BY <2>2
  <2>5. IsInjective(Append(s, n))
    <3> SUFFICES ASSUME NEW a \in 1..(Len(s) + 1), NEW b \in 1..(Len(s) + 1), Append(s, n)[a] = Append(s, n)[b]
                 PROVE  a = b
      BY <2>2 DEF IsInjective
    <3>1. \A i \in 1..Len(s), j \in 1..Len(s) : s[i] = s[j] => i = j
      BY <2>2 DEF OnceEach, IsInjective
    <3> QED
      BY <2>2, <2>3, <3>1
  <2> QED
    BY <2>2, <2>4, <2>5 DEF OnceEach
<1>2. CASE ~(Valid(r) /\ NormalizeNumber(r) \notin Range(s))
  BY <1>2 DEF Plus
<1> QED
  BY <1>1, <1>2

LEMMA EmptyOnce == <<>> \in OnceEach
BY DEF OnceEach, IsInjective

(* What Set, load and the whitelist make of a list has nobody twice.       *)
LEMMA NormalizedOnce ==
  ASSUME NEW R, NEW raws \in Seq(R), \A r \in R : Valid(r) => NormalizeNumber(r) \in Numbers
  PROVE  Normalized(raws) \in OnceEach
<1>1. PICK n \in Nat : n = Len(raws)
  OBVIOUS
<1>2. PICK f : /\ Normalized(raws) = f[n] /\ f[0] = <<>>
               /\ \A i \in 1..n : f[i] = Plus(f[i - 1], raws[i])
  BY <1>1, NormalizedDef
<1> DEFINE T == {i \in 0..n : f[i] \in OnceEach}
<1>3. 0 \in T
  BY <1>2, EmptyOnce
<1>4. ASSUME NEW i \in 0..n, i \in T, i < n PROVE i + 1 \in T
  <2>1. i + 1 \in 1..n /\ (i + 1) - 1 = i /\ i + 1 \in 0..n
    BY <1>4
  <2>2. PICK s \in OnceEach, r \in R : s = f[i] /\ r = raws[i + 1]
    BY <1>1, <1>4, <2>1
  <2>3. f[i + 1] = Plus(s, r)
    BY <1>2, <2>1, <2>2
  <2>4. Plus(s, r) \in OnceEach
    BY PlusOnce
  <2> QED
    BY <2>1, <2>3, <2>4
<1>5. 0..n \subseteq T
  <2> HIDE DEF T
  <2> QED
    BY <1>3, <1>4, FromZeroOn
<1>6. n \in 0..n
  OBVIOUS
<1> QED
  BY <1>2, <1>5, <1>6

(* What RemoveAt leaves.                                                   *)
LEMMA RemovedAt ==
  ASSUME NEW S, NEW s \in Seq(S), NEW k \in 1..Len(s)
  PROVE  /\ RemoveAt(s, k) \in Seq(S) /\ Len(RemoveAt(s, k)) = Len(s) - 1
         /\ \A i \in 1..(Len(s) - 1) : RemoveAt(s, k)[i] = IF i < k THEN s[i] ELSE s[i + 1]
<1> DEFINE a == SubSeq(s, 1, k - 1)
           b == SubSeq(s, k + 1, Len(s))
<1>1. a \in Seq(S) /\ Len(a) = k - 1 /\ \A i \in 1..(k - 1) : a[i] = s[i]
  OBVIOUS
<1>2. b \in Seq(S) /\ Len(b) = Len(s) - k /\ \A i \in 1..(Len(s) - k) : b[i] = s[k + i]
  OBVIOUS
<1>3. RemoveAt(s, k) = a \o b
  BY DEF RemoveAt
<1> HIDE DEF a, b
<1>4. a \o b \in Seq(S) /\ Len(a \o b) = Len(s) - 1
  <2>0. a \in Seq(S) /\ b \in Seq(S)
    BY <1>1, <1>2
  <2>1. a \o b \in Seq(S)
    BY <2>0
  <2>2. Len(a \o b) = Len(a) + Len(b)
    BY <2>0
  <2>3. Len(s) \in Nat
    OBVIOUS
  <2> QED
    BY <1>1, <1>2, <2>1, <2>2, <2>3
<1>5. ASSUME NEW i \in 1..(Len(s) - 1) PROVE (a \o b)[i] = IF i < k THEN s[i] ELSE s[i + 1]
  <2>1. CASE i < k
    BY <1>1, <1>2, <2>1
  <2>2. CASE ~(i < k)
    <3>1. i - (k - 1) \in 1..(Len(s) - k) /\ k + (i - (k - 1)) = i + 1
      BY <2>2
    <3>2. (a \o b)[i] = b[i - (k - 1)]
      BY <1>1, <1>2, <2>2
    <3> QED
      BY <1>2, <2>2, <3>1, <3>2
  <2> QED
    BY <2>1, <2>2
<1> QED
  BY <1>3, <1>4, <1>5

(* Remove takes one entry out; as nobody is in the list twice the number   *)
(* is gone with it.                                                        *)
LEMMA WithoutOnce ==
  ASSUME NEW s \in OnceEach, NEW n, n \in Range(s)
  PROVE  Without(s, n) \in OnceEach /\ n \notin Range(Without(s, n))
<1> DEFINE First(i) == s[i] = n /\ \A j \in 1..(i - 1) : s[j] # n
<1>1. s \in Seq(Numbers) /\ \A i, j \in 1..Len(s) : s[i] = s[j] => i = j
  BY DEF OnceEach, IsInjective
<1>2. PICK k0 \in 1..Len(s) : s[k0] = n
  BY <1>1 DEF Range
<1>3. First(k0)
  BY <1>1, <1>2
<1>4. PICK k \in 1..Len(s) : Without(s, n) = RemoveAt(s, k) /\ s[k] = n
  <2> DEFINE c == CHOOSE i \in DOMAIN s : First(i)
  <2>1. DOMAIN s = 1..Len(s)
    BY <1>1
  <2>2. c \in DOMAIN s /\ First(c)
    <3> HIDE DEF First
    <3> QED
      BY <1>2, <1>3, <2>1
  <2>3. Without(s, n) = RemoveAt(s, c)
    BY DEF Without
  <2> HIDE DEF c
  <2> QED
    BY <2>1, <2>2, <2>3
<1> DEFINE t == RemoveAt(s, k)
<1>5. /\ t \in Seq(Numbers) /\ Len(t) = Len(s) - 1
      /\ \A i \in 1..(Len(s) - 1) : t[i] = IF i < k THEN s[i] ELSE s[i + 1]
  BY <1>1, <1>4, RemovedAt
<1>6. Len(s) \in Nat
  BY <1>1
<1> HIDE DEF t
<1>7. IsInjective(t)
  BY <1>1, <1>5, <1>6 DEF IsInjective
<1>8. \A i \in 1..Len(t) : t[i] # n
  BY <1>1, <1>4, <1>5, <1>6
<1>9. n \notin Range(t)
  BY <1>5, <1>8 DEF Range
<1> QED
  BY <1>4, <1>5, <1>7, <1>9 DEF OnceEach, t

(* The whitelist, and every list a request carries.                        *)
LEMMA ListsOnce ==
  /\ Normalized(Whitelist) \in OnceEach
  /\ \A l \in Lists : Normalized(l) \in OnceEach
<1>1. \A r \in Raws \cup Range(Whitelist) : Valid(r) => NormalizeNumber(r) \in Numbers
  BY DEF Numbers
<1>2. Normalized(Whitelist) \in OnceEach
  <2>1. PICK R : R = Range(Whitelist)
    OBVIOUS
  <2>2. Whitelist \in Seq(R) /\ \A r \in R : Valid(r) => NormalizeNumber(r) \in Numbers
    BY <1>1, <2>1, RecipientsAssumption
  <2> QED
    BY <2>2, NormalizedOnce
<1>3. ASSUME NEW l \in Lists PROVE Normalized(l) \in OnceEach
  <2>1. l \in Seq(Raws) /\ \A r \in Raws : Valid(r) => NormalizeNumber(r) \in Numbers
    BY <1>1, RecipientsAssumption
  <2> QED
    BY <2>1, NormalizedOnce
<1> QED
  BY <1>2, <1>3

(* What a start makes of the file.                                         *)
FileType == [ok : BOOLEAN, list : OnceEach]

LEMMA FilesOnce ==
  /\ Torn \in FileType
  /\ \A s \in OnceEach : File(s) \in FileType
  /\ \A f \in FileType : Loaded(f) \in OnceEach /\ Kept(f) \in FileType
<1>1. Torn \in FileType
  BY EmptyOnce DEF Torn, FileType
<1>2. ASSUME NEW s \in OnceEach PROVE File(s) \in FileType
  BY DEF File, FileType
<1>3. ASSUME NEW f \in FileType PROVE Loaded(f) \in OnceEach
  <2>1. f.list \in OnceEach
    BY DEF FileType
  <2> QED
    BY <2>1, ListsOnce DEF Loaded
<1>4. ASSUME NEW f \in FileType PROVE Kept(f) \in FileType
  BY <1>2, <1>3 DEF Kept
<1> QED
  BY <1>1, <1>2, <1>3, <1>4

(* Only requests change the list, and main registers only modems that are  *)
(* there.                                                                  *)
RecipientsTypes ==
  /\ RecipientsTypeOK
  /\ \A p \in Procs : pc[p] = "change" => p \in Requests
  /\ pc["main"] = "register" => registered < Modems

LEMMA RecipientsTypesInit == RecipientsInit => RecipientsTypes
<1> SUFFICES ASSUME RecipientsInit PROVE RecipientsTypes
  OBVIOUS
<1>1. PICK f \in {Torn, File(<<>>)} \cup {File(Normalized(l)) : l \in Lists} : numbers = Loaded(f) /\ file = Kept(f)
  BY DEF RecipientsInit
<1>2. f \in FileType
  BY FilesOnce, EmptyOnce, ListsOnce
<1>3. numbers \in OnceEach /\ file \in FileType
  BY <1>1, <1>2, FilesOnce
<1>4. pc \in [Procs -> Steps] /\ copy \in [Procs -> OnceEach \cup {NONE}]
  BY DEF RecipientsInit, Started, Steps, NoCopies
<1>5. \A p \in Procs : pc[p] \notin {"change", "register"}
  BY DEF RecipientsInit, Started
<1>6. registered \in 0..Modems /\ count \in 0..MaxFaults
  BY RecipientsAssumption DEF RecipientsInit
<1>7. saving \in Requests \cup {NONE} /\ reader \subseteq Requests /\ shown \in OnceEach \cup {NONE}
  BY DEF RecipientsInit
<1>8. {client, subscribed, connected, unsaved, overlap} \subseteq BOOLEAN
  BY DEF RecipientsInit
<1> QED
  BY <1>3, <1>4, <1>5, <1>6, <1>7, <1>8 DEF RecipientsTypes, RecipientsTypeOK, FileType, Procs

(* Where a process goes next.                                              *)
LEMMA GoesOn ==
  ASSUME RecipientsTypes, NEW p \in Procs, NEW l \in Steps, Goto(p, l), registered' = registered,
         l # "change" \/ p \in Requests, l # "register" \/ registered < Modems
  PROVE  /\ pc' \in [Procs -> Steps]
         /\ (\A q \in Procs : pc[q] = "change" => q \in Requests)'
         /\ (pc["main"] = "register" => registered < Modems)'
<1>1. pc \in [Procs -> Steps] /\ "main" \in Procs
  BY DEF RecipientsTypes, RecipientsTypeOK, Procs
<1>2. pc' \in [Procs -> Steps] /\ \A q \in Procs : pc'[q] = IF q = p THEN l ELSE pc[q]
  BY <1>1
<1> QED
  BY <1>1, <1>2 DEF RecipientsTypes

(* A change of the list, to one with nobody twice.                         *)
LEMMA CommitTypes ==
  ASSUME RecipientsTypes, NEW p \in Requests, NEW new \in OnceEach, Commit(p, new),
         UNCHANGED <<client, registered, subscribed, wire, count>>
  PROVE  RecipientsTypes'
<1>1. pc' \in [Procs -> Steps]
      /\ (\A q \in Procs : pc[q] = "change" => q \in Requests)'
      /\ (pc["main"] = "register" => registered < Modems)'
  BY GoesOn DEF Commit, Steps, Procs
<1>2. copy' \in [Procs -> OnceEach \cup {NONE}]
  BY DEF RecipientsTypes, RecipientsTypeOK, Commit
<1>3. numbers' \in OnceEach /\ file' \in FileType /\ saving' \in Requests \cup {NONE}
  BY FilesOnce DEF Commit
<1>4. overlap' \in BOOLEAN
  BY Zenon DEF Commit
<1>5. {client', subscribed', connected', unsaved', overlap'} \subseteq BOOLEAN
  BY <1>4 DEF RecipientsTypes, RecipientsTypeOK, Commit
<1>6. /\ reader' \subseteq Requests /\ registered' \in 0..Modems
      /\ shown' \in OnceEach \cup {NONE} /\ count' \in 0..MaxFaults
  BY DEF RecipientsTypes, RecipientsTypeOK, Commit
<1> QED
  BY <1>1, <1>2, <1>3, <1>5, <1>6 DEF RecipientsTypes, RecipientsTypeOK, FileType

LEMMA RefuseTypes ==
  ASSUME RecipientsTypes, NEW p \in Procs, Refuse(p), UNCHANGED <<client, registered, subscribed, wire, count>>
  PROVE  RecipientsTypes'
<1>1. pc' \in [Procs -> Steps]
      /\ (\A q \in Procs : pc[q] = "change" => q \in Requests)'
      /\ (pc["main"] = "register" => registered < Modems)'
  BY GoesOn DEF Refuse, Steps
<1> QED
  BY <1>1 DEF RecipientsTypes, RecipientsTypeOK, Refuse, Unlocked

(* What the three requests make of a list with nobody twice.               *)
LEMMA RequestsOnce ==
  ASSUME RecipientsTypes, NEW p
  PROVE  /\ \A r \in Raws : AddRecipient(p, r) => Refuse(p) \/ \E new \in OnceEach : Commit(p, new)
         /\ \A r \in Raws : RemoveRecipient(p, r) => Refuse(p) \/ \E new \in OnceEach : Commit(p, new)
         /\ \A l \in Lists : SetRecipients(p, l) => Refuse(p) \/ \E new \in OnceEach : Commit(p, new)
<1>0. numbers \in OnceEach
  BY DEF RecipientsTypes, RecipientsTypeOK
<1>1. ASSUME NEW r \in Raws, AddRecipient(p, r) PROVE Refuse(p) \/ \E new \in OnceEach : Commit(p, new)
  <2>1. Valid(r) => NormalizeNumber(r) \in Numbers
    BY DEF Numbers
  <2>2. PICK new \in OnceEach : new = Plus(numbers, r)
    BY <1>0, <2>1, PlusOnce
  <2>3. CASE Valid(r) /\ NormalizeNumber(r) \notin Range(numbers)
    BY <1>1, <2>2, <2>3 DEF AddRecipient, Plus
  <2>4. CASE ~(Valid(r) /\ NormalizeNumber(r) \notin Range(numbers))
    BY <1>1, <2>4 DEF AddRecipient
  <2> QED
    BY <2>3, <2>4
<1>2. ASSUME NEW r \in Raws, RemoveRecipient(p, r) PROVE Refuse(p) \/ \E new \in OnceEach : Commit(p, new)
  <2>1. CASE Valid(r) /\ NormalizeNumber(r) \in Range(numbers)
    <3>1. PICK new \in OnceEach : new = Without(numbers, NormalizeNumber(r))
      BY <1>0, <2>1, WithoutOnce
    <3> QED
      BY <1>2, <2>1, <3>1 DEF RemoveRecipient
  <2>2. CASE ~(Valid(r) /\ NormalizeNumber(r) \in Range(numbers))
    BY <1>2, <2>2 DEF RemoveRecipient
  <2> QED
    BY <2>1, <2>2
<1>3. ASSUME NEW l \in Lists, SetRecipients(p, l) PROVE Refuse(p) \/ \E new \in OnceEach : Commit(p, new)
  BY <1>3, ListsOnce, Zenon DEF SetRecipients
<1> QED
  BY <1>1, <1>2, <1>3

LEMMA RecipientsTypesNext == RecipientsTypes /\ [RecipientsNext]_recipientsVars => RecipientsTypes'
<1> SUFFICES ASSUME RecipientsTypes, [RecipientsNext]_recipientsVars PROVE RecipientsTypes'
  OBVIOUS
<1> USE DEF RecipientsTypes, RecipientsTypeOK
<1> DEFINE Places == /\ pc' \in [Procs -> Steps]
                     /\ (\A q \in Procs : pc[q] = "change" => q \in Requests)'
                     /\ (pc["main"] = "register" => registered < Modems)'
<1>0. "main" \in Procs /\ Requests \subseteq Procs /\ Conns \subseteq Procs
  BY DEF Procs
<1>1. ASSUME NEW p \in Procs, Change(p) PROVE RecipientsTypes'
  <2>1. p \in Requests /\ UNCHANGED <<client, registered, subscribed, wire, count>>
    BY <1>1 DEF Change
  <2>2. Refuse(p) \/ \E new \in OnceEach : Commit(p, new)
    BY <1>1, RequestsOnce, Zenon DEF Change
  <2> QED
    BY <2>1, <2>2, CommitTypes, RefuseTypes
<1>2. ASSUME NEW p \in Procs, Save(p) PROVE RecipientsTypes'
  <2>1. Places
    BY <1>2, GoesOn DEF Save, Steps
  <2>2. file' \in FileType
    BY <1>2, FilesOnce DEF Save, FileType
  <2>3. count' \in 0..MaxFaults
    BY <1>2, RecipientsAssumption DEF Save, Fault
  <2>4. unsaved' \in BOOLEAN
    BY <1>2 DEF Save
  <2> QED
    BY <1>2, <2>1, <2>2, <2>3, <2>4 DEF Save, FileType
<1>3. ASSUME NEW p \in Procs, Ends(p), registered' = registered
      PROVE  Places /\ copy' \in [Procs -> OnceEach \cup {NONE}] /\ reader' \subseteq Requests
  <2>1. PICK l \in {"lock", "idle"} : Goto(p, l)
    BY <1>3 DEF Ends
  <2>2. l \in Steps /\ l # "change" /\ l # "register"
    BY DEF Steps
  <2>3. Places
    BY <1>3, <2>1, <2>2, GoesOn
  <2> QED
    BY <1>3, <2>3 DEF Ends, Unlocked
<1>4. ASSUME NEW p \in Procs, Notify(p) PROVE RecipientsTypes'
  <2>1. Places /\ copy' \in [Procs -> OnceEach \cup {NONE}] /\ reader' \subseteq Requests
    <3>1. CASE Goto(p, "publish") /\ UNCHANGED <<copy, reader>>
      <4>1. Places
        BY <1>4, <3>1, GoesOn DEF Notify, Steps
      <4> QED
        BY <3>1, <4>1
    <3>2. CASE Ends(p)
      BY <1>3, <1>4, <3>2 DEF Notify
    <3> QED
      BY <1>4, <3>1, <3>2 DEF Notify
  <2> QED
    BY <1>4, <2>1 DEF Notify
<1>5. ASSUME NEW p \in Procs, Publish(p) PROVE RecipientsTypes'
  <2>1. Places /\ copy' \in [Procs -> OnceEach \cup {NONE}] /\ reader' \subseteq Requests
    BY <1>3, <1>5 DEF Publish
  <2>2. shown' \in OnceEach \cup {NONE}
    BY <1>5 DEF Publish
  <2> QED
    BY <1>5, <2>1, <2>2 DEF Publish
<1>6. ASSUME NEW p \in Procs, Get(p) PROVE RecipientsTypes'
  <2>1. Places
    BY <1>6, GoesOn DEF Get, Steps
  <2>2. copy' \in [Procs -> OnceEach \cup {NONE}]
    BY <1>6 DEF Get
  <2> QED
    BY <1>6, <2>1, <2>2 DEF Get
<1>7. ASSUME Lock PROVE RecipientsTypes'
  <2>1. PICK l \in {"set", "register", "done"} : Goto("main", l) /\ (l = "register" => registered < Modems)
    BY <1>7 DEF Lock
  <2>2. l \in Steps /\ l # "change"
    BY DEF Steps
  <2>3. Places
    BY <1>0, <1>7, <2>1, <2>2, GoesOn DEF Lock
  <2> QED
    BY <1>7, <2>3 DEF Lock
<1>8. ASSUME SetMQTT PROVE RecipientsTypes'
  <2>1. PICK l \in {"get", "lock"} : Goto("main", l)
    BY <1>8 DEF SetMQTT
  <2>2. l \in Steps /\ l # "change" /\ l # "register"
    BY DEF Steps
  <2>3. Places
    BY <1>0, <1>8, <2>1, <2>2, GoesOn DEF SetMQTT
  <2> QED
    BY <1>8, <2>3 DEF SetMQTT
<1>9. ASSUME Register PROVE RecipientsTypes'
  <2>1. registered' \in 0..Modems
    BY <1>9, RecipientsAssumption DEF Register
  <2>2. pc' \in [Procs -> Steps] /\ \A q \in Procs : pc'[q] = IF q = "main" THEN "lock" ELSE pc[q]
    BY <1>0, <1>9 DEF Register, Steps
  <2>3. Places
    BY <1>0, <2>2
  <2> QED
    BY <1>9, <2>1, <2>3 DEF Register
<1>10. ASSUME NEW p \in Requests, RLock(p) PROVE RecipientsTypes'
  <2>1. Places
    BY <1>0, <1>10, GoesOn DEF RLock, Steps
  <2>2. reader' \subseteq Requests
    BY <1>10 DEF RLock
  <2> QED
    BY <1>10, <2>1, <2>2 DEF RLock
<1>11. ASSUME Disconnect PROVE RecipientsTypes'
  <2>1. count' \in 0..MaxFaults
    BY <1>11, RecipientsAssumption DEF Disconnect, Fault
  <2> QED
    BY <1>11, <2>1 DEF Disconnect
<1>12. ASSUME NEW c \in Conns, Connect(c) PROVE RecipientsTypes'
  <2>1. Places
    BY <1>0, <1>12, GoesOn DEF Connect, Steps
  <2> QED
    BY <1>12, <2>1 DEF Connect
<1>13. ASSUME Restart PROVE RecipientsTypes'
  <2>1. numbers' \in OnceEach /\ file' \in FileType
    BY <1>13, FilesOnce DEF Restart, FileType
  <2>2. count' \in 0..MaxFaults /\ registered' \in 0..Modems
    BY <1>13, RecipientsAssumption DEF Restart, Fault
  <2>3. pc' \in [Procs -> Steps] /\ copy' \in [Procs -> OnceEach \cup {NONE}]
    BY <1>13 DEF Restart, Started, Steps, NoCopies
  <2>4. \A q \in Procs : pc'[q] \notin {"change", "register"}
    BY <1>13 DEF Restart, Started
  <2>5. {client', subscribed', connected', unsaved', overlap'} \subseteq BOOLEAN
    BY <1>13 DEF Restart
  <2>6. saving' \in Requests \cup {NONE} /\ reader' \subseteq Requests /\ shown' \in OnceEach \cup {NONE}
    BY <1>13 DEF Restart
  <2> QED
    BY <1>0, <2>1, <2>2, <2>3, <2>4, <2>5, <2>6 DEF FileType
<1>14. ASSUME UNCHANGED recipientsVars PROVE RecipientsTypes'
  BY <1>14 DEF recipientsVars
<1> QED
  BY <1>1, <1>2, <1>4, <1>5, <1>6, <1>7, <1>8, <1>9, <1>10, <1>11, <1>12, <1>13, <1>14 DEF RecipientsNext, Startup, Work

(* Every variable has its type, for any requests, connections and faults:  *)
(* among them, no number is twice in memory, in the file, in a copy or in  *)
(* the topic.                                                              *)
THEOREM RecipientsTypeCorrect == RecipientsSpec => []RecipientsTypeOK
<1>1. RecipientsTypes => RecipientsTypeOK
  BY DEF RecipientsTypes
<1> QED
  BY RecipientsTypesInit, RecipientsTypesNext, <1>1, PTL DEF RecipientsSpec

(* Remove takes the first entry only, and still leaves nothing of the      *)
(* number in the list.                                                     *)
THEOREM RemovedNumbersAreGone ==
  RecipientsSpec => [][\A p \in Requests, r \in Raws :
                         RemoveRecipient(p, r) /\ Valid(r) => NormalizeNumber(r) \notin Range(numbers')]_recipientsVars
<1> DEFINE Gone == \A p \in Requests, r \in Raws :
                     RemoveRecipient(p, r) /\ Valid(r) => NormalizeNumber(r) \notin Range(numbers')
<1>1. RecipientsTypes /\ [RecipientsNext]_recipientsVars => [Gone]_recipientsVars
  <2> SUFFICES ASSUME RecipientsTypes, NEW p \in Requests, NEW r \in Raws, RemoveRecipient(p, r), Valid(r)
               PROVE  NormalizeNumber(r) \notin Range(numbers')
    OBVIOUS
  <2>1. numbers \in OnceEach
    BY DEF RecipientsTypes, RecipientsTypeOK
  <2>2. CASE NormalizeNumber(r) \in Range(numbers)
    <3>1. numbers' = Without(numbers, NormalizeNumber(r))
      BY <2>2 DEF RemoveRecipient, Commit
    <3> QED
      BY <2>1, <2>2, <3>1, WithoutOnce
  <2>3. CASE NormalizeNumber(r) \notin Range(numbers)
    BY <2>3 DEF RemoveRecipient, Refuse
  <2> QED
    BY <2>2, <2>3
<1> QED
  BY RecipientsTypesInit, RecipientsTypesNext, <1>1, PTL DEF RecipientsSpec
=============================================================================
