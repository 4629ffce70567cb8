-------------------------- MODULE SMSPackageProofs --------------------------
(***************************************************************************)
(* Proofs about the package sms and its subpackage pdu: DeliveryTracker,   *)
(* for every set of messages, recipients and references, with or without a *)
(* timeout; and PDU, for every text and number, every transliteration and  *)
(* every country code of at most five digits.                              *)
(***************************************************************************)
EXTENDS DeliveryTracker, PDU, FiniteSetTheorems, SequenceTheorems, WellFoundedInduction, TLAPS

(* The delivery tracker (tracker.go).                                      *)

LEMMA EventTypes ==
  /\ \A m \in Msgs, code \in Codes : [m |-> m, status |-> ReportStatus(code)] \in Event
  /\ \A m \in Msgs : [m |-> m, status |-> "expired"] \in Event
BY DEF Event, ReportStatus, Codes, Statuses

(* Publishing one more status for one message.                             *)
LEMMA PublishType ==
  ASSUME events \in [Msgs -> Seq(Statuses)], NEW m \in Msgs, NEW s \in Statuses,
         events' = [events EXCEPT ![m] = Append(@, s)]
  PROVE  events' \in [Msgs -> Seq(Statuses)]
<1>1. \A q \in Seq(Statuses) : Append(q, s) \in Seq(Statuses)
  OBVIOUS
<1> QED
  BY <1>1

LEMMA KeyType == ASSUME TypeOK, NEW m \in Msgs PROVE makeKey(m) \in Keys
BY DEF TypeOK, makeKey, Keys

LEMMA TrackerTypeInit == Init => TypeOK
<1> SUFFICES ASSUME Init PROVE TypeOK
  OBVIOUS
<1>1. events \in [Msgs -> Seq(Statuses)]
  <2>1. <<>> \in Seq(Statuses)
    OBVIOUS
  <2> QED
    BY <2>1 DEF Init
<1>2. pending \in [Keys -> Msgs \cup {NIL}] /\ expiredBy \in [Msgs -> Msgs \cup {NIL}]
  BY DEF Init
<1> QED
  BY <1>1, <1>2 DEF Init, TypeOK

LEMMA TrackerTypeNext == TypeOK /\ [Next]_vars => TypeOK'
<1> SUFFICES ASSUME TypeOK, [Next]_vars PROVE TypeOK'
  OBVIOUS
<1>1. ASSUME NEW m \in Msgs, Sent(m) \/ SendFails(m) \/ TimerFires(m) PROVE TypeOK'
  BY <1>1 DEF Sent, SendFails, TimerFires, TypeOK
<1>2. ASSUME NEW m \in Msgs, Track(m) PROVE TypeOK'
  <2>1. timer' \in [Msgs -> {"none", "armed", "stopped", "fired", "ran"}]
    BY <1>2 DEF Track, TypeOK, Stopped
  <2>2. pending' \in [Keys -> Msgs \cup {NIL}]
    BY <1>2, KeyType DEF Track, TypeOK
  <2> QED
    BY <1>2, <2>1, <2>2 DEF Track, TypeOK
<1>3. ASSUME NEW m \in Msgs, TrackCallback(m) PROVE TypeOK'
  <2>1. events' \in [Msgs -> Seq(Statuses)]
    BY <1>3, PublishType DEF TrackCallback, TypeOK, Statuses
  <2> QED
    BY <1>3, <2>1 DEF TrackCallback, TypeOK
<1>4. ASSUME NEW m \in Msgs, NEW code \in Codes, NEW form \in Forms, HandleReport(m, code, form)
      PROVE  TypeOK'
  <2>1. net' \in [Msgs -> {"none", "open"} \cup Codes]
    BY <1>4 DEF HandleReport, NetworkReports, TypeOK
  <2>2. CASE UNCHANGED <<pending, timer, urc>>
    BY <1>4, <2>1, <2>2 DEF HandleReport, TypeOK
  <2>3. CASE ~UNCHANGED <<pending, timer, urc>>
    <3> DEFINE item == pending[makeKey(m)]
    <3>1. /\ item # NIL
          /\ timer' = [timer EXCEPT ![item] = Stopped(@)]
          /\ pending' = [pending EXCEPT ![makeKey(m)] = NIL]
          /\ urc' = [m |-> item, status |-> ReportStatus(code)]
          /\ UNCHANGED <<to, ref, pc, late, events, expiredBy>>
      BY <1>4, <2>3 DEF HandleReport
    <3>2. item \in Msgs
      BY <3>1, KeyType DEF TypeOK
    <3>3. urc' \in Event
      BY <3>1, <3>2, EventTypes
    <3>4. timer' \in [Msgs -> {"none", "armed", "stopped", "fired", "ran"}]
      BY <3>1, <3>2 DEF TypeOK, Stopped
    <3>5. pending' \in [Keys -> Msgs \cup {NIL}]
      BY <3>1, KeyType DEF TypeOK
    <3> QED
      BY <2>1, <3>1, <3>3, <3>4, <3>5 DEF TypeOK
  <2> QED
    BY <2>2, <2>3
<1>5. CASE ReportCallback
  <2>1. urc.m \in Msgs /\ urc.status \in Statuses
    BY <1>5 DEF ReportCallback, TypeOK, Event
  <2>2. events' \in [Msgs -> Seq(Statuses)]
    BY <1>5, <2>1, PublishType DEF ReportCallback, TypeOK
  <2> QED
    BY <1>5, <2>2 DEF ReportCallback, TypeOK
<1>6. ASSUME NEW m \in Msgs, handleTimeout(m) PROVE TypeOK'
  <2> DEFINE item == pending[makeKey(m)]
  <2>1. timer' \in [Msgs -> {"none", "armed", "stopped", "fired", "ran"}]
    BY <1>6 DEF handleTimeout, TypeOK
  <2>2. CASE item = NIL
    BY <1>6, <2>1, <2>2 DEF handleTimeout, TypeOK
  <2>3. CASE item # NIL
    <3>1. item \in Msgs
      BY <2>3, KeyType DEF TypeOK
    <3>2. pending' \in [Keys -> Msgs \cup {NIL}]
      BY <1>6, <2>3, KeyType DEF handleTimeout, TypeOK
    <3>3. late' \subseteq Event
      BY <1>6, <2>3, <3>1, EventTypes DEF handleTimeout, TypeOK
    <3>4. expiredBy' \in [Msgs -> Msgs \cup {NIL}]
      BY <1>6, <2>3, <3>1 DEF handleTimeout, TypeOK
    <3> QED
      BY <1>6, <2>1, <3>2, <3>3, <3>4 DEF handleTimeout, TypeOK
  <2> QED
    BY <2>2, <2>3
<1>7. ASSUME NEW e \in late, TimeoutCallback(e) PROVE TypeOK'
  <2>1. e.m \in Msgs /\ e.status \in Statuses
    BY <1>7 DEF TypeOK, Event
  <2>2. events' \in [Msgs -> Seq(Statuses)]
    BY <1>7, <2>1, PublishType DEF TimeoutCallback, TypeOK
  <2> QED
    BY <1>7, <2>2 DEF TimeoutCallback, TypeOK
<1>8. CASE UNCHANGED vars
  BY <1>8 DEF vars, TypeOK
<1> QED
  BY <1>1, <1>2, <1>3, <1>4, <1>5, <1>6, <1>7, <1>8 DEF Next, Step

(* The tracker's maps, timers and pending callbacks keep their types.      *)
THEOREM TrackerTypeCorrect == Spec => []TypeOK
BY TrackerTypeInit, TrackerTypeNext, PTL DEF Spec

-----------------------------------------------------------------------------
(***************************************************************************)
(* OneOwner is inductive.                                                  *)
(***************************************************************************)

LEMMA OneOwnerInit == Init => OneOwner
BY DEF Init, OneOwner, Untouched

(* Publishing for m keeps what is published for the others; a status that  *)
(* is not an outcome gives m none.                                         *)
LEMMA PublishOutcome ==
  ASSUME TypeOK, NEW m \in Msgs, NEW s \in Statuses,
         events' = [events EXCEPT ![m] = Append(@, s)]
  PROVE  /\ \A d \in Msgs : d # m => events'[d] = events[d]
         /\ \A d \in Msgs : d # m => (NoOutcome(d) => NoOutcome(d)')
         /\ s \notin Outcomes => (NoOutcome(m) => NoOutcome(m)')
<1>1. events[m] \in Seq(Statuses) /\ events'[m] = Append(events[m], s)
  BY DEF TypeOK
<1>2. /\ DOMAIN events'[m] = 1..(Len(events[m]) + 1)
      /\ DOMAIN events[m] = 1..Len(events[m])
      /\ \A i \in 1..Len(events[m]) : events'[m][i] = events[m][i]
      /\ events'[m][Len(events[m]) + 1] = s
      /\ Len(events[m]) \in Nat
  BY <1>1
<1>3. s \notin Outcomes => (NoOutcome(m) => NoOutcome(m)')
  BY <1>2 DEF NoOutcome
<1>4. \A d \in Msgs : d # m => events'[d] = events[d]
  BY DEF TypeOK
<1> QED
  BY <1>3, <1>4 DEF NoOutcome

LEMMA OneOwnerNext == TypeOK /\ OneOwner /\ [Next]_vars => OneOwner'
<1> SUFFICES ASSUME TypeOK, OneOwner, [Next]_vars PROVE OneOwner'
  OBVIOUS
<1> USE TrackerAssumption DEF Untouched
<1>1. ASSUME NEW m \in Msgs, Sent(m) \/ SendFails(m) PROVE OneOwner'
  <2>1. /\ pc[m] \in Untouched
        /\ \E x \in Untouched : pc' = [pc EXCEPT ![m] = x]
        /\ UNCHANGED <<to, ref, pending, timer, urc, late, events>>
    BY <1>1 DEF Sent, SendFails
  <2>2. \A d \in Msgs : pc'[d] \in Untouched <=> pc[d] \in Untouched
    BY <2>1 DEF TypeOK
  <2>3. \A d \in Msgs : (NoOutcome(d)' <=> NoOutcome(d)) /\ makeKey(d)' = makeKey(d)
    BY <2>1 DEF NoOutcome, makeKey
  <2> QED
    BY <2>1, <2>2, <2>3 DEF OneOwner, TypeOK, Event
<1>2. ASSUME NEW m \in Msgs, TimerFires(m) PROVE OneOwner'
  BY <1>2 DEF TimerFires, TypeOK, OneOwner, NoOutcome, makeKey
<1>3. ASSUME NEW m \in Msgs, Track(m) PROVE OneOwner'
  <2>1. /\ pending' = [pending EXCEPT ![makeKey(m)] = m]
        /\ pc[m] = "sent" /\ pc' = [pc EXCEPT ![m] = "tracked"]
        /\ UNCHANGED <<to, ref, urc, late, events>>
    BY <1>3 DEF Track
  <2>2. NoOutcome(m) /\ (urc # NIL => urc.m # m) /\ \A e \in late : e.m # m
    BY <2>1 DEF OneOwner, NoOutcome
  <2>3. \A d \in Msgs : pc'[d] \in Untouched => timer'[d] = "none" /\ pc[d] \in Untouched
    BY <1>3 DEF Track, OneOwner, TypeOK, Stopped
  <2>4. \A k \in Keys : pending'[k] # NIL =>
          (pending'[k] = m /\ k = makeKey(m)) \/ pending'[k] = pending[k]
    BY <2>1, KeyType DEF TypeOK
  <2>5. \A d \in Msgs : pc[d] \notin Untouched => pc'[d] \notin Untouched
    BY <2>1 DEF TypeOK
  <2>6. pc'[m] \notin Untouched
    BY <2>1 DEF TypeOK
  <2>7. \A d \in Msgs : NoOutcome(d)' <=> NoOutcome(d)
    BY <2>1 DEF NoOutcome
  <2>8. \A d \in Msgs : makeKey(d)' = makeKey(d)
    BY <2>1 DEF makeKey
  <2>9. \A k \in Keys : pending'[k] # NIL =>
           /\ makeKey(pending'[k]) = k /\ pc'[pending'[k]] \notin Untouched
           /\ NoOutcome(pending'[k]) /\ pending'[k] \in Msgs
           /\ urc' # NIL => urc'.m # pending'[k]
           /\ \A e \in late' : e.m # pending'[k]
    <3> SUFFICES ASSUME NEW k \in Keys, pending'[k] # NIL
                 PROVE  /\ makeKey(pending'[k]) = k /\ pc'[pending'[k]] \notin Untouched
                        /\ NoOutcome(pending'[k]) /\ pending'[k] \in Msgs
                        /\ urc' # NIL => urc'.m # pending'[k]
                        /\ \A e \in late' : e.m # pending'[k]
      OBVIOUS
    <3>1. CASE pending'[k] = m /\ k = makeKey(m)
      BY <2>1, <2>2, <2>6, <3>1
    <3>2. CASE pending'[k] = pending[k]
      <4>1. pending[k] \in Msgs
        BY <3>2 DEF TypeOK
      <4> QED
        BY <2>1, <2>5, <3>2, <4>1 DEF OneOwner
    <3> QED
      BY <2>4, <3>1, <3>2
  <2> QED
    BY <2>1, <2>3, <2>7, <2>8, <2>9 DEF OneOwner, TypeOK, Event
<1>4. ASSUME NEW m \in Msgs, TrackCallback(m) PROVE OneOwner'
  <2>1. /\ UNCHANGED <<to, ref, pending, timer, urc, late>>
        /\ events' = [events EXCEPT ![m] = Append(@, "pending")]
        /\ pc' = [pc EXCEPT ![m] = "done"]
        /\ pc[m] = "tracked"
    BY <1>4 DEF TrackCallback
  <2>2. \A d \in Msgs : NoOutcome(d) => NoOutcome(d)'
    BY <2>1, PublishOutcome DEF Statuses, Outcomes
  <2>3. \A d \in Msgs : pc'[d] \in Untouched => pc[d] \in Untouched /\ events'[d] = events[d]
    BY <2>1, PublishOutcome DEF TypeOK, Statuses
  <2>4. \A d \in Msgs : pc[d] \notin Untouched => pc'[d] \notin Untouched
    BY <2>1 DEF TypeOK
  <2>5. \A d \in Msgs : makeKey(d)' = makeKey(d)
    BY <2>1 DEF makeKey
  <2> QED
    BY <2>1, <2>2, <2>3, <2>4, <2>5 DEF OneOwner, TypeOK, Event
<1>5. ASSUME NEW m \in Msgs, NEW code \in Codes, NEW form \in Forms, HandleReport(m, code, form)
      PROVE  OneOwner'
  <2>0. UNCHANGED <<to, ref, pc, late, events>>
    BY <1>5 DEF HandleReport
  <2>1. CASE UNCHANGED <<pending, timer, urc>>
    BY <2>0, <2>1 DEF OneOwner, NoOutcome, makeKey
  <2>2. CASE ~UNCHANGED <<pending, timer, urc>>
    <3> DEFINE item == pending[makeKey(m)]
    <3>1. /\ item # NIL
          /\ timer' = [timer EXCEPT ![item] = Stopped(@)]
          /\ pending' = [pending EXCEPT ![makeKey(m)] = NIL]
          /\ urc' = [m |-> item, status |-> ReportStatus(code)]
      BY <1>5, <2>2 DEF HandleReport
    <3>2. item \in Msgs /\ makeKey(m) \in Keys
      BY <3>1, KeyType DEF TypeOK
    <3>3. /\ makeKey(item) = makeKey(m) /\ pc[item] \notin Untouched /\ NoOutcome(item)
          /\ \A e \in late : e.m # item
      BY <3>1, <3>2 DEF OneOwner
    <3>4. \A k \in Keys : pending'[k] # NIL => pending'[k] = pending[k] /\ pending[k] # item
      <4>1. \A k \in Keys : pending'[k] # NIL => pending'[k] = pending[k] /\ k # makeKey(m)
        BY <3>1, <3>2 DEF TypeOK
      <4> QED
        BY <3>3, <4>1 DEF OneOwner
    <3>5. urc'.m = item
      BY <3>1
    <3>6. \A d \in Msgs : (NoOutcome(d)' <=> NoOutcome(d)) /\ makeKey(d)' = makeKey(d)
      BY <2>0 DEF NoOutcome, makeKey
    <3>7. \A d \in Msgs : pc[d] \in Untouched => timer'[d] = timer[d]
      BY <3>1, <3>2, <3>3 DEF TypeOK
    <3> HIDE DEF item
    <3>8. \A k \in Keys : pending'[k] # NIL => pending'[k] \in Msgs
      BY <3>4 DEF TypeOK
    <3>9. \A k \in Keys : pending'[k] # NIL =>
             /\ makeKey(pending'[k]) = k /\ pc'[pending'[k]] \notin Untouched
             /\ NoOutcome(pending'[k])
             /\ urc'.m # pending'[k]
             /\ \A e \in late' : e.m # pending'[k]
      BY <2>0, <3>4, <3>5 DEF OneOwner
    <3>10. NoOutcome(urc'.m) /\ urc'.m \in Msgs /\ \A e \in late' : e.m # urc'.m
      BY <2>0, <3>2, <3>3, <3>5
    <3>11. \A d \in Msgs : pc'[d] \in Untouched =>
             /\ events'[d] = <<>> /\ timer'[d] = "none" /\ urc'.m # d
             /\ \A e \in late' : e.m # d
      BY <2>0, <3>3, <3>5, <3>7 DEF OneOwner
    <3>12. /\ \A e \in late' : NoOutcome(e.m) /\ e.m \in Msgs
           /\ \A e, f \in late' : e.m = f.m => e = f
      BY <2>0 DEF OneOwner, TypeOK, Event
    <3> QED
      BY <3>6, <3>8, <3>9, <3>10, <3>11, <3>12 DEF OneOwner
  <2> QED
    BY <2>1, <2>2
<1>6. CASE ReportCallback
  <2>1. /\ urc # NIL /\ urc' = NIL
        /\ events' = [events EXCEPT ![urc.m] = Append(@, urc.status)]
        /\ UNCHANGED <<to, ref, pc, pending, timer, late>>
    BY <1>6 DEF ReportCallback
  <2>2. urc.m \in Msgs /\ urc.status \in Statuses
    BY <2>1 DEF TypeOK, Event
  <2>3. \A d \in Msgs : d # urc.m => events'[d] = events[d] /\ (NoOutcome(d) => NoOutcome(d)')
    BY <2>1, <2>2, PublishOutcome
  <2>4. \A d \in Msgs : makeKey(d)' = makeKey(d)
    BY <2>1 DEF makeKey
  <2> QED
    BY <2>1, <2>2, <2>3, <2>4 DEF OneOwner, TypeOK, Event
<1>7. ASSUME NEW m \in Msgs, handleTimeout(m) PROVE OneOwner'
  <2> DEFINE item == pending[makeKey(m)]
  <2>0. /\ timer[m] = "fired" /\ timer' = [timer EXCEPT ![m] = "ran"]
        /\ UNCHANGED <<to, ref, pc, urc, events>>
    BY <1>7 DEF handleTimeout
  <2>1. \A d \in Msgs : (NoOutcome(d)' <=> NoOutcome(d)) /\ makeKey(d)' = makeKey(d)
    BY <2>0 DEF NoOutcome, makeKey
  <2>2. \A d \in Msgs : pc[d] \in Untouched => timer'[d] = timer[d]
    BY <2>0 DEF TypeOK, OneOwner
  <2>3. CASE item = NIL
    <3>1. UNCHANGED <<pending, late>>
      BY <1>7, <2>3 DEF handleTimeout
    <3> QED
      BY <2>0, <2>1, <2>2, <3>1 DEF OneOwner, TypeOK, Event
  <2>4. CASE item # NIL
    <3>1. /\ pending' = [pending EXCEPT ![makeKey(m)] = NIL]
          /\ late' = late \cup {[m |-> item, status |-> "expired"]}
      BY <1>7, <2>4 DEF handleTimeout
    <3>2. item \in Msgs /\ makeKey(m) \in Keys
      BY <2>4, KeyType DEF TypeOK
    <3>3. /\ makeKey(item) = makeKey(m) /\ pc[item] \notin Untouched /\ NoOutcome(item)
          /\ \A e \in late : e.m # item
          /\ urc # NIL => urc.m # item
      BY <2>4, <3>2 DEF OneOwner
    <3>4. \A k \in Keys : pending'[k] # NIL => pending'[k] = pending[k] /\ pending[k] # item
      <4>1. \A k \in Keys : pending'[k] # NIL => pending'[k] = pending[k] /\ k # makeKey(m)
        BY <3>1, <3>2 DEF TypeOK
      <4> QED
        BY <3>3, <4>1 DEF OneOwner
    <3>5. \A e \in late' : e \in late \/ e.m = item
      BY <3>1
    <3>6. \A e, f \in late' : e.m = f.m => e = f
      BY <3>1, <3>3 DEF OneOwner
    <3> HIDE DEF item
    <3> QED
      BY <2>0, <2>1, <2>2, <3>2, <3>3, <3>4, <3>5, <3>6 DEF OneOwner, TypeOK, Event
  <2> QED
    BY <2>3, <2>4
<1>8. ASSUME NEW e \in late, TimeoutCallback(e) PROVE OneOwner'
  <2>1. /\ late' = late \ {e}
        /\ events' = [events EXCEPT ![e.m] = Append(@, e.status)]
        /\ UNCHANGED <<to, ref, pc, pending, timer, urc>>
    BY <1>8 DEF TimeoutCallback
  <2>2. e.m \in Msgs /\ e.status \in Statuses
    BY DEF TypeOK, Event
  <2>3. \A d \in Msgs : d # e.m => events'[d] = events[d] /\ (NoOutcome(d) => NoOutcome(d)')
    BY <2>1, <2>2, PublishOutcome
  <2>4. \A d \in Msgs : makeKey(d)' = makeKey(d)
    BY <2>1 DEF makeKey
  <2>5. \A f \in late' : f \in late /\ f.m # e.m
    BY <2>1 DEF OneOwner
  <2> QED
    BY <2>1, <2>2, <2>3, <2>4, <2>5 DEF OneOwner, TypeOK, Event
<1>9. CASE UNCHANGED vars
  BY <1>9 DEF vars, OneOwner, NoOutcome, makeKey
<1> QED
  BY <1>1, <1>2, <1>3, <1>4, <1>5, <1>6, <1>7, <1>8, <1>9 DEF Next, Step


LEMMA OneOwnerInvariant == Spec => []OneOwner
BY TrackerTypeInit, TrackerTypeNext, OneOwnerInit, OneOwnerNext, PTL DEF Spec

(* A status is published for m only by a goroutine that owns m's outcome.  *)
LEMMA OutcomeStep ==
  TypeOK /\ OneOwner /\ AtMostOneOutcome /\ [Next]_vars => AtMostOneOutcome'
<1> SUFFICES ASSUME TypeOK, OneOwner, AtMostOneOutcome, [Next]_vars PROVE AtMostOneOutcome'
  OBVIOUS
<1>1. CASE UNCHANGED events
  BY <1>1 DEF AtMostOneOutcome
<1>2. ASSUME NEW m \in Msgs, NEW s \in Statuses,
             events' = [events EXCEPT ![m] = Append(@, s)],
             NoOutcome(m) \/ s \notin Outcomes
      PROVE  AtMostOneOutcome'
  <2>1. events[m] \in Seq(Statuses) /\ events'[m] = Append(events[m], s)
    BY <1>2 DEF TypeOK
  <2>2. /\ DOMAIN events'[m] = 1..(Len(events[m]) + 1)
        /\ DOMAIN events[m] = 1..Len(events[m])
        /\ \A i \in 1..Len(events[m]) : events'[m][i] = events[m][i]
        /\ events'[m][Len(events[m]) + 1] = s
        /\ Len(events[m]) \in Nat
    BY <2>1
  <2>3. \A i, j \in DOMAIN events'[m] :
          events'[m][i] \in Outcomes /\ events'[m][j] \in Outcomes => i = j
    <3>1. CASE NoOutcome(m)
      <4>1. \A i \in 1..(Len(events[m]) + 1) : events'[m][i] \in Outcomes => i = Len(events[m]) + 1
        <5>1. \A i \in 1..Len(events[m]) : events[m][i] \notin Outcomes
          BY <2>2, <3>1 DEF NoOutcome
        <5>2. \A i \in 1..(Len(events[m]) + 1) :
                i \in 1..Len(events[m]) \/ i = Len(events[m]) + 1
          BY <2>2
        <5> QED
          BY <2>2, <5>1, <5>2
      <4> QED
        BY <2>2, <4>1
    <3>2. CASE s \notin Outcomes
      <4>1. \A i \in 1..(Len(events[m]) + 1) :
              events'[m][i] \in Outcomes => i \in 1..Len(events[m]) /\ events[m][i] \in Outcomes
        BY <2>2, <3>2
      <4> QED
        BY <2>2, <4>1 DEF AtMostOneOutcome
    <3> QED
      BY <1>2, <3>1, <3>2
  <2>4. \A d \in Msgs : d # m => events'[d] = events[d]
    BY <1>2 DEF TypeOK
  <2> QED
    BY <2>3, <2>4 DEF AtMostOneOutcome
<1>3. ASSUME NEW m \in Msgs, TrackCallback(m) PROVE AtMostOneOutcome'
  BY <1>2, <1>3 DEF TrackCallback, Statuses, Outcomes
<1>4. CASE ReportCallback
  <2>1. urc # NIL /\ events' = [events EXCEPT ![urc.m] = Append(@, urc.status)]
    BY <1>4 DEF ReportCallback
  <2>2. urc.m \in Msgs /\ urc.status \in Statuses /\ NoOutcome(urc.m)
    BY <2>1 DEF TypeOK, Event, OneOwner
  <2> QED
    BY <1>2, <2>1, <2>2
<1>5. ASSUME NEW e \in late, TimeoutCallback(e) PROVE AtMostOneOutcome'
  <2>1. e.m \in Msgs /\ e.status \in Statuses /\ NoOutcome(e.m)
    BY DEF TypeOK, Event, OneOwner
  <2> QED
    BY <1>2, <1>5, <2>1 DEF TimeoutCallback
<1> QED
  BY <1>1, <1>3, <1>4, <1>5 DEF Next, Step, Sent, SendFails, Track, TimerFires, handleTimeout,
                                HandleReport, vars

(* No message is given two outcomes, however reports, timers and reused    *)
(* references race for its entry (tracker.go HandleReport, handleTimeout). *)
THEOREM OneOutcome == Spec => []AtMostOneOutcome
<1>1. Init => AtMostOneOutcome
  BY DEF Init, AtMostOneOutcome
<1> QED
  BY <1>1, OutcomeStep, TrackerTypeCorrect, OneOwnerInvariant, PTL DEF Spec

LEMMA SameKeys == [Next]_vars => UNCHANGED <<to, ref>>
BY DEF Next, Step, Sent, SendFails, Track, TrackCallback, TimerFires, handleTimeout,
       HandleReport, ReportCallback, TimeoutCallback, vars

(* Entries keep their timers.                                              *)
LEMMA TimerStep ==
  TypeOK /\ OneOwner /\ TrackedHasTimer /\ [Next]_vars => TrackedHasTimer'
<1> SUFFICES ASSUME TypeOK, OneOwner, TrackedHasTimer, [Next]_vars, HasTimeout,
                    NEW k \in Keys, pending'[k] # NIL
             PROVE  makeKey(pending'[k]) = k /\ timer'[pending'[k]] \in {"armed", "fired"}
  BY SameKeys DEF TrackedHasTimer, makeKey
<1>1. CASE UNCHANGED <<pending, timer>>
  BY <1>1 DEF TrackedHasTimer
<1>2. ASSUME NEW m \in Msgs, TimerFires(m)
      PROVE  makeKey(pending'[k]) = k /\ timer'[pending'[k]] \in {"armed", "fired"}
  BY <1>2 DEF TimerFires, TrackedHasTimer, TypeOK
<1>3. ASSUME NEW m \in Msgs, Track(m)
      PROVE  makeKey(pending'[k]) = k /\ timer'[pending'[k]] \in {"armed", "fired"}
  <2>1. CASE k = makeKey(m)
    BY <1>3, <2>1 DEF Track, TypeOK
  <2>2. CASE k # makeKey(m)
    <3>1. pending'[k] = pending[k] /\ pending[k] \in Msgs
      BY <1>3, <2>2 DEF Track, TypeOK
    <3>2. makeKey(pending[k]) = k /\ timer[pending[k]] \in {"armed", "fired"}
      BY <3>1 DEF TrackedHasTimer
    <3>3. pending[k] # m /\ pending[k] # pending[makeKey(m)]
      BY <2>2, <3>1, <3>2, KeyType, TrackerAssumption DEF OneOwner
    <3>4. timer'[pending[k]] = timer[pending[k]]
      BY <1>3, <3>1, <3>3 DEF Track
    <3> QED
      BY <3>1, <3>2, <3>4
  <2> QED
    BY <2>1, <2>2
<1>4. ASSUME NEW m \in Msgs, handleTimeout(m)
      PROVE  makeKey(pending'[k]) = k /\ timer'[pending'[k]] \in {"armed", "fired"}
  <2>1. pending'[k] = pending[k] /\ pending[k] \in Msgs
    <3>1. pending' \in {pending, [pending EXCEPT ![makeKey(m)] = NIL]}
      BY <1>4 DEF handleTimeout
    <3>2. pending \in [Keys -> Msgs \cup {NIL}]
      BY DEF TypeOK
    <3> QED
      BY <3>1, <3>2
  <2>2. makeKey(pending[k]) = k /\ timer[pending[k]] \in {"armed", "fired"}
    BY <2>1 DEF TrackedHasTimer
  <2>3. pending[k] # m
    <3>1. ASSUME pending[k] = m PROVE FALSE
      <4>1. k = makeKey(m)
        BY <2>2, <3>1
      <4> QED
        BY <1>4, <2>1, <3>1, <4>1 DEF handleTimeout, TypeOK
    <3> QED
      BY <3>1
  <2> QED
    BY <1>4, <2>1, <2>2, <2>3 DEF handleTimeout, TypeOK
<1>5. ASSUME NEW m \in Msgs, NEW code \in Codes, NEW form \in Forms, HandleReport(m, code, form),
             ~UNCHANGED <<pending, timer>>
      PROVE  makeKey(pending'[k]) = k /\ timer'[pending'[k]] \in {"armed", "fired"}
  <2>1. /\ timer' = [timer EXCEPT ![pending[makeKey(m)]] = Stopped(@)]
        /\ pending' = [pending EXCEPT ![makeKey(m)] = NIL]
    BY <1>5 DEF HandleReport
  <2>2. k # makeKey(m) /\ pending'[k] = pending[k] /\ pending[k] \in Msgs
    BY <2>1 DEF TypeOK
  <2>3. makeKey(pending[k]) = k /\ timer[pending[k]] \in {"armed", "fired"}
    BY <2>2 DEF TrackedHasTimer
  <2>4. pending[k] # pending[makeKey(m)]
    BY <2>2, <2>3, KeyType, TrackerAssumption DEF OneOwner
  <2> QED
    BY <2>1, <2>2, <2>3, <2>4 DEF TypeOK
<1> QED
  BY <1>1, <1>2, <1>3, <1>4, <1>5 DEF Next, Step, Sent, SendFails, TrackCallback, ReportCallback,
                                     TimeoutCallback, vars

(* With a timeout configured no entry of the tracker is without a timer of *)
(* its own, also when a reused reference overwrites an entry.              *)
THEOREM TrackedTimers == Spec => []TrackedHasTimer
<1>1. Init => TrackedHasTimer
  BY DEF Init, TrackedHasTimer
<1> QED
  BY <1>1, TimerStep, TrackerTypeCorrect, OneOwnerInvariant, PTL DEF Spec

-----------------------------------------------------------------------------
(***************************************************************************)
(* "delivered" and "failed" come from the network.                         *)
(***************************************************************************)

(* What the network has decided it never takes back.                       *)
LEMMA ReportStays ==
  ASSUME TypeOK, ReportInHand, [Next]_vars, NEW m \in Msgs, NEW s, Reported(m, s)
  PROVE  Reported(m, s)'
<1>1. PICK d \in Msgs : /\ makeKey(d) = makeKey(m)
                        /\ net[d] = IF s = "delivered" THEN "success" ELSE "permanent"
  BY DEF Reported
<1>2. makeKey(d)' = makeKey(m)'
  BY <1>1, SameKeys DEF makeKey
<1>3. net[d] \in {"success", "permanent"}
  BY <1>1
<1>4. net'[d] = net[d]
  <2>1. ASSUME NEW e \in Msgs, Sent(e) PROVE net'[d] = net[d]
    BY <1>3, <2>1 DEF Sent, ReportInHand, TypeOK
  <2>2. ASSUME NEW e \in Msgs, NEW code \in Codes, NEW form \in Forms, HandleReport(e, code, form)
        PROVE  net'[d] = net[d]
    BY <1>3, <2>2 DEF HandleReport, NetworkReports, TypeOK
  <2>3. CASE UNCHANGED net
    BY <2>3
  <2> QED
    BY <2>1, <2>2, <2>3 DEF Next, Step, SendFails, Track, TrackCallback, TimerFires, handleTimeout,
                            ReportCallback, TimeoutCallback, vars
<1> QED
  BY <1>1, <1>2, <1>4 DEF Reported

LEMMA ReportInHandNext == TypeOK /\ OneOwner /\ ReportInHand /\ [Next]_vars => ReportInHand'
<1> SUFFICES ASSUME TypeOK, OneOwner, ReportInHand, [Next]_vars PROVE ReportInHand'
  OBVIOUS
<1>1. \A m \in Msgs : pc'[m] = "idle" => net'[m] = "none"
  <2> SUFFICES ASSUME NEW d \in Msgs, pc'[d] = "idle" PROVE net'[d] = "none"
    OBVIOUS
  <2>1. ASSUME NEW m \in Msgs, Sent(m) \/ SendFails(m) \/ Track(m) \/ TrackCallback(m)
        PROVE  net'[d] = "none"
    BY <2>1 DEF Sent, SendFails, Track, TrackCallback, ReportInHand, TypeOK
  <2>2. ASSUME NEW m \in Msgs, NEW code \in Codes, NEW form \in Forms, HandleReport(m, code, form)
        PROVE  net'[d] = "none"
    <3>1. net[d] = "none"
      BY <2>2 DEF HandleReport, ReportInHand
    <3>2. m # d
      BY <2>2, <3>1 DEF HandleReport, NetworkReports, Codes
    <3> QED
      BY <2>2, <3>1, <3>2 DEF HandleReport, NetworkReports, TypeOK
  <2>3. CASE UNCHANGED <<pc, net>>
    BY <2>3 DEF ReportInHand
  <2> QED
    BY <2>1, <2>2, <2>3 DEF Next, Step, TimerFires, handleTimeout, ReportCallback, TimeoutCallback, vars
<1>2. \A e \in late' : e.status = "expired"
  <2>1. ASSUME NEW m \in Msgs, handleTimeout(m) PROVE \A e \in late' : e.status = "expired"
    BY <2>1 DEF handleTimeout, ReportInHand
  <2>2. CASE late' \subseteq late
    BY <2>2 DEF ReportInHand
  <2> QED
    BY <2>1, <2>2 DEF Next, Step, Sent, SendFails, Track, TrackCallback, TimerFires, HandleReport,
                      ReportCallback, TimeoutCallback, vars
<1>3. ASSUME urc' # NIL, urc'.status \in {"delivered", "failed"} PROVE Reported(urc.m, urc.status)'
  <2>1. CASE urc' = urc
    <3>1. Reported(urc.m, urc.status) /\ urc.m \in Msgs
      BY <1>3, <2>1 DEF ReportInHand, TypeOK, Event
    <3>2. PICK m \in Msgs, s \in {urc.status} : m = urc.m
      BY <3>1
    <3>3. Reported(m, s)
      BY <3>1, <3>2
    <3>4. Reported(m, s)'
      BY <3>3, ReportStays
    <3> QED
      BY <2>1, <3>2, <3>4 DEF Reported, makeKey
  <2>2. ASSUME NEW m \in Msgs, NEW code \in Codes, NEW form \in Forms, HandleReport(m, code, form),
               urc' # urc
        PROVE  Reported(urc.m, urc.status)'
    <3> DEFINE item == pending[makeKey(m)]
    <3>1. /\ item # NIL /\ NetworkReports(m, code) /\ UNCHANGED <<to, ref>>
          /\ urc' = [m |-> item, status |-> ReportStatus(code)]
      BY <2>2 DEF HandleReport
    <3>2. item \in Msgs /\ makeKey(item) = makeKey(m)
      BY <3>1, KeyType DEF TypeOK, OneOwner
    <3>3. urc'.m = item /\ urc'.status = ReportStatus(code)
      BY <3>1
    <3>4. makeKey(m)' = <<to'[item], ref'[item]>>
      BY <3>1, <3>2 DEF makeKey
    <3>5. net'[m] = IF ReportStatus(code) = "delivered" THEN "success" ELSE "permanent"
      <4>1. code \in {"success", "permanent"}
        BY <1>3, <3>3 DEF ReportStatus, Codes
      <4>2. net'[m] = code
        BY <3>1, <4>1 DEF NetworkReports, TypeOK
      <4> QED
        BY <4>1, <4>2 DEF ReportStatus
    <3> QED
      BY <3>3, <3>4, <3>5 DEF Reported, makeKey
  <2>3. CASE ReportCallback
    BY <1>3, <2>3 DEF ReportCallback
  <2> QED
    BY <2>1, <2>2, <2>3 DEF Next, Step, Sent, SendFails, Track, TrackCallback, TimerFires, handleTimeout,
                            TimeoutCallback, vars
<1> QED
  BY <1>1, <1>2, <1>3 DEF ReportInHand

(* Publishing a status that was reported.                                  *)
LEMMA PublishReported ==
  ASSUME TypeOK, ReportInHand, OutcomeIsReported, [Next]_vars,
         NEW m \in Msgs, NEW s \in Statuses,
         events' = [events EXCEPT ![m] = Append(@, s)],
         s \in {"delivered", "failed"} => Reported(m, s)
  PROVE  OutcomeIsReported'
<1> SUFFICES ASSUME NEW d \in Msgs, NEW i \in DOMAIN events'[d],
                    events'[d][i] \in {"delivered", "failed"}
             PROVE  \E e \in Msgs :
                      /\ makeKey(e)' = makeKey(d)'
                      /\ net'[e] = IF events'[d][i] = "delivered" THEN "success" ELSE "permanent"
  BY DEF OutcomeIsReported
<1>1. events[m] \in Seq(Statuses) /\ events'[m] = Append(events[m], s)
  BY DEF TypeOK
<1>2. \/ i \in DOMAIN events[d] /\ events'[d][i] = events[d][i]
      \/ d = m /\ events'[d][i] = s
  <2>1. CASE d = m
    <3>1. \/ i \in DOMAIN events[m] /\ Append(events[m], s)[i] = events[m][i]
          \/ Append(events[m], s)[i] = s
      BY <1>1, <2>1
    <3> QED
      BY <1>1, <2>1, <3>1
  <2>2. CASE d # m
    BY <2>2 DEF TypeOK
  <2> QED
    BY <2>1, <2>2
<1>3. Reported(d, events'[d][i])
  BY <1>2 DEF OutcomeIsReported, Reported
<1>4. PICK v : v = events'[d][i]
  OBVIOUS
<1>5. Reported(d, v)'
  BY <1>3, <1>4, ReportStays
<1> QED
  BY <1>4, <1>5 DEF Reported

(* A published "delivered" or "failed" is what the network said of the     *)
(* message, or of one the reused key stands for (tracker.go HandleReport,  *)
(* sms_urc.go decodeAndDispatchReport): no timeout, stale entry or report  *)
(* of a temporary error is shown as a delivery.                            *)
THEOREM OutcomesReported == Spec => []OutcomeIsReported
<1>1. Init => ReportInHand /\ OutcomeIsReported
  BY DEF Init, ReportInHand, OutcomeIsReported
<1>2. TypeOK /\ OneOwner /\ ReportInHand /\ OutcomeIsReported /\ [Next]_vars => OutcomeIsReported'
  <2> SUFFICES ASSUME TypeOK, OneOwner, ReportInHand, OutcomeIsReported, [Next]_vars
               PROVE  OutcomeIsReported'
    OBVIOUS
  <2>1. ASSUME NEW m \in Msgs, TrackCallback(m) PROVE OutcomeIsReported'
    BY <2>1, PublishReported DEF TrackCallback, Statuses
  <2>2. CASE ReportCallback
    <3>1. urc # NIL /\ events' = [events EXCEPT ![urc.m] = Append(@, urc.status)]
      BY <2>2 DEF ReportCallback
    <3>2. urc.m \in Msgs /\ urc.status \in Statuses
      BY <3>1 DEF TypeOK, Event
    <3> QED
      BY <3>1, <3>2, PublishReported DEF ReportInHand
  <2>3. ASSUME NEW e \in late, TimeoutCallback(e) PROVE OutcomeIsReported'
    <3>1. e.m \in Msgs /\ e.status \in Statuses /\ e.status = "expired"
      BY DEF TypeOK, Event, ReportInHand
    <3> QED
      BY <2>3, <3>1, PublishReported DEF TimeoutCallback
  <2>4. CASE UNCHANGED events
    <3> SUFFICES ASSUME NEW m \in Msgs, NEW i \in DOMAIN events[m],
                        events[m][i] \in {"delivered", "failed"}
                 PROVE  \E d \in Msgs :
                          /\ makeKey(d)' = makeKey(m)'
                          /\ net'[d] = IF events[m][i] = "delivered" THEN "success" ELSE "permanent"
      BY <2>4 DEF OutcomeIsReported
    <3>1. PICK v : v = events[m][i]
      OBVIOUS
    <3>2. Reported(m, v)
      BY <3>1 DEF OutcomeIsReported, Reported
    <3>3. Reported(m, v)'
      BY <3>2, ReportStays
    <3> QED
      BY <3>1, <3>3 DEF Reported
  <2> QED
    BY <2>1, <2>2, <2>3, <2>4 DEF Next, Step, Sent, SendFails, Track, TimerFires, handleTimeout,
                                  HandleReport, vars
<1> QED
  BY <1>1, <1>2, ReportInHandNext, TrackerTypeCorrect, OneOwnerInvariant, PTL DEF Spec
(* What packing is about: the septet at a place (zero where there is       *)
(* none), an octet made of two septets, and a septet read from two octets. *)
Septets == 0..127
At(s, k) == IF k \in DOMAIN s THEN s[k] ELSE 0
Joined(x, y, r) == (x \div 2^r) + ((y * 2^(7 - r)) % 256)
Rejoined(first, second, off) ==
  ((first \div 2^off) + (IF off > 1 THEN (second * 2^(8 - off)) % 256 ELSE 0)) % 128

(* What a text is made of.                                                 *)
Runes == {r \in Nat : IsRune(r)}

-----------------------------------------------------------------------------
(* Numbers and sequences.                                                  *)

(* Every induction below is through the smallest counterexample: the order *)
(* of the numbers is well-founded.                                         *)
LEMMA Smallest ==
  ASSUME NEW T, T \subseteq Nat, T # {}
  PROVE  \E x \in T : \A y \in T : x <= y
<1>1. \E x \in T : \A y \in T : ~ (<<y, x>> \in OpToRel(<, Nat))
  BY WFMin, NatLessThanWellFounded, Zenon
<1>2. PICK x \in T : \A y \in T : ~ (<<y, x>> \in OpToRel(<, Nat))
  BY <1>1
<1>3. ASSUME NEW y \in T PROVE x <= y
  <2>1. x \in Nat /\ y \in Nat
    OBVIOUS
  <2>2. y < x => <<y, x>> \in OpToRel(<, Nat)
    BY <2>1 DEF OpToRel
  <2>3. ~(y < x)
    BY <1>2, <2>2, Zenon
  <2> QED
    BY <2>1, <2>3
<1> QED
  BY <1>3

(* Induction, for a set of numbers.                                        *)
LEMMA Upwards ==
  ASSUME NEW n \in Nat, NEW T, 1 \in T, \A i \in 1..n : i \in T /\ i < n => i + 1 \in T
  PROVE  1..n \subseteq T
<1> DEFINE B == {i \in 1..n : i \notin T}
<1>1. SUFFICES ASSUME B # {} PROVE FALSE
  OBVIOUS
<1>a. B \subseteq Nat
  OBVIOUS
<1>2. PICK x \in B : \A y \in B : x <= y
  <2> HIDE DEF B
  <2> QED
    BY <1>1, <1>a, Smallest
<1>3. x # 1 /\ x - 1 \in 1..n /\ x - 1 \notin B
  BY <1>2
<1>4. x - 1 \in T /\ x - 1 < n
  BY <1>3
<1> QED
  BY <1>2, <1>3, <1>4

(* FlattenSeq, whose recursive function is shown to exist: the pieces are  *)
(* joined from the first on.                                               *)
LEMMA FlattenDef ==
  ASSUME NEW S, NEW seqs \in Seq(Seq(S)), Len(seqs) # 0
  PROVE  \E f \in [1..Len(seqs) -> Seq(S)] :
           /\ FlattenSeq(seqs) = f[Len(seqs)]
           /\ f[1] = seqs[1]
           /\ \A i \in 1..Len(seqs) : i > 1 => f[i] = f[i-1] \o seqs[i]
<1> DEFINE n == Len(seqs)
           Good(g, k) == \A i \in 1..k : g[i] = IF i = 1 THEN seqs[i] ELSE g[i-1] \o seqs[i]
           T == {k \in 1..n : \E g \in [1..k -> Seq(S)] : Good(g, k)}
<1>0. n \in Nat \ {0} /\ \A i \in 1..n : seqs[i] \in Seq(S)
  OBVIOUS
<1>1. 1 \in T
  <2> DEFINE g == [i \in 1..1 |-> seqs[1]]
  <2>1. g \in [1..1 -> Seq(S)] /\ Good(g, 1) /\ 1 \in 1..n
    BY <1>0
  <2> HIDE DEF g, Good, n
  <2> QED
    BY <2>1
<1>2. ASSUME NEW k \in 1..n, k \in T, k < n PROVE k + 1 \in T
  <2>1. PICK g \in [1..k -> Seq(S)] : Good(g, k)
    BY <1>2
  <2> DEFINE h == [i \in 1..(k+1) |-> IF i = k + 1 THEN g[k] \o seqs[k+1] ELSE g[i]]
  <2>2. g[k] \o seqs[k+1] \in Seq(S)
    BY <1>0, <1>2
  <2>3. h \in [1..(k+1) -> Seq(S)]
    BY <2>2
  <2>4. Good(h, k+1)
    <3>1. ASSUME NEW i \in 1..(k+1) PROVE h[i] = IF i = 1 THEN seqs[i] ELSE h[i-1] \o seqs[i]
      <4>0. k \in Nat /\ k >= 1 /\ k \in 1..k
        BY <1>0
      <4>1. CASE i = k + 1
        <5>1. i # 1 /\ i - 1 = k /\ h[i] = g[k] \o seqs[k+1]
          BY <4>0, <4>1
        <5>2. h[k] = g[k]
          BY <4>0
        <5> QED
          BY <5>1, <5>2, <4>1
      <4>2. CASE i \in 1..k
        <5>1. h[i] = g[i]
          BY <4>0, <4>2
        <5>2. i # 1 => h[i-1] = g[i-1]
          BY <4>0, <4>2
        <5>3. g[i] = IF i = 1 THEN seqs[i] ELSE g[i-1] \o seqs[i]
          BY <2>1, <4>2
        <5> HIDE DEF h
        <5> QED
          BY <5>1, <5>2, <5>3
      <4> QED
        BY <4>1, <4>2
    <3> QED
      BY <3>1
  <2> HIDE DEF h, Good
  <2> QED
    BY <2>3, <2>4, <1>2
<1>3. n \in T
  <2> HIDE DEF T
  <2>1. 1..n \subseteq T
    BY <1>0, <1>1, <1>2, Upwards
  <2> QED
    BY <2>1, <1>0
<1>4. PICK g \in [1..n -> Seq(S)] : Good(g, n)
  BY <1>3
<1>5. g = [i \in 1..Len(seqs) |-> IF i = 1 THEN seqs[i] ELSE g[i-1] \o seqs[i]]
  BY <1>4
<1> DEFINE f == CHOOSE h : h = [i \in 1..Len(seqs) |-> IF i = 1 THEN seqs[i] ELSE h[i-1] \o seqs[i]]
<1>6. f = [i \in 1..Len(seqs) |-> IF i = 1 THEN seqs[i] ELSE f[i-1] \o seqs[i]]
  BY <1>5
<1>7. FlattenSeq(seqs) = f[Len(seqs)]
  BY DEF FlattenSeq
<1> HIDE DEF f
<1>8. f \in [1..n -> Seq(S)]
  <2> DEFINE U == {i \in 1..n : f[i] \in Seq(S)}
  <2>1. 1 \in U
    BY <1>0, <1>6
  <2>2. \A i \in 1..n : i \in U /\ i < n => i + 1 \in U
    <3>1. ASSUME NEW i \in 1..n, f[i] \in Seq(S), i < n PROVE f[i+1] \in Seq(S)
      <4>1. i + 1 \in 1..n /\ i + 1 # 1 /\ (i + 1) - 1 = i
        BY <1>0, <3>1
      <4>2. f[i+1] = f[i] \o seqs[i+1]
        BY <1>6, <4>1
      <4> QED
        BY <1>0, <3>1, <4>1, <4>2
    <3> QED
      BY <1>0, <3>1
  <2>3. 1..n \subseteq U
    <3> HIDE DEF U
    <3> QED
      BY <1>0, <2>1, <2>2, Upwards
  <2>4. \A i \in 1..n : f[i] \in Seq(S)
    BY <2>3
  <2> QED
    BY <1>6, <2>4
<1>9. f[1] = seqs[1]
  BY <1>0, <1>6
<1>10. ASSUME NEW i \in 1..n, i > 1 PROVE f[i] = f[i-1] \o seqs[i]
  <2>1. i # 1 /\ i \in 1..Len(seqs)
    BY <1>10
  <2> QED
    BY <1>6, <2>1
<1> QED
  BY <1>7, <1>8, <1>9, <1>10

(* Joined pieces are a sequence of what the pieces hold.                   *)
LEMMA FlattenType ==
  ASSUME NEW S, NEW seqs \in Seq(Seq(S))
  PROVE  FlattenSeq(seqs) \in Seq(S)
<1>1. CASE Len(seqs) = 0
  <2>1. seqs = <<>> /\ FlattenSeq(seqs) = seqs
    BY <1>1 DEF FlattenSeq
  <2>2. <<>> \in Seq(S)
    OBVIOUS
  <2> QED
    BY <2>1, <2>2
<1>2. CASE Len(seqs) # 0
  <2>1. PICK f \in [1..Len(seqs) -> Seq(S)] : FlattenSeq(seqs) = f[Len(seqs)]
    BY <1>2, FlattenDef
  <2>2. Len(seqs) \in 1..Len(seqs)
    BY <1>2
  <2> QED
    BY <2>1, <2>2
<1> QED
  BY <1>1, <1>2

(* Where the pieces end, and what stands there.                            *)
LEMMA FlattenAt ==
  ASSUME NEW S, NEW seqs \in Seq(Seq(S))
  PROVE  \E end \in [0..Len(seqs) -> Nat] :
           /\ end[0] = 0
           /\ \A k \in 1..Len(seqs) : end[k] = end[k-1] + Len(seqs[k])
           /\ Len(FlattenSeq(seqs)) = end[Len(seqs)]
           /\ \A k \in 1..Len(seqs) :
                /\ end[k] <= end[Len(seqs)]
                /\ \A m \in 1..Len(seqs[k]) : FlattenSeq(seqs)[end[k-1] + m] = seqs[k][m]
<1>1. CASE Len(seqs) = 0
  <2>1. seqs = <<>> /\ FlattenSeq(seqs) = <<>>
    BY <1>1 DEF FlattenSeq
  <2>2. [k \in 0..Len(seqs) |-> 0] \in [0..Len(seqs) -> Nat] /\ 1..Len(seqs) = {} /\ 0 \in 0..Len(seqs)
    BY <1>1
  <2>3. Len(FlattenSeq(seqs)) = 0
    BY <2>1
  <2> QED
    BY <1>1, <2>2, <2>3
<1>2. CASE Len(seqs) # 0
  <2> DEFINE n == Len(seqs)
  <2>1. PICK f \in [1..n -> Seq(S)] :
           /\ FlattenSeq(seqs) = f[n]
           /\ f[1] = seqs[1]
           /\ \A i \in 1..n : i > 1 => f[i] = f[i-1] \o seqs[i]
    BY <1>2, FlattenDef
  <2> DEFINE end == [k \in 0..n |-> IF k = 0 THEN 0 ELSE Len(f[k])]
  <2>2. n \in Nat \ {0} /\ \A k \in 1..n : seqs[k] \in Seq(S) /\ Len(seqs[k]) \in Nat
    BY <1>2
  <2> HIDE DEF n
  <2>3. end \in [0..n -> Nat] /\ end[0] = 0 /\ \A k \in 1..n : end[k] = Len(f[k])
    BY <2>1, <2>2
  <2> HIDE DEF end
  <2>4. ASSUME NEW k \in 1..n PROVE end[k] = end[k-1] + Len(seqs[k])
    <3>1. CASE k = 1
      BY <2>1, <2>2, <2>3, <3>1
    <3>2. CASE k > 1
      <4>1. k - 1 \in 1..n
        BY <3>2, <2>2
      <4>2. f[k] = f[k-1] \o seqs[k] /\ f[k-1] \in Seq(S) /\ seqs[k] \in Seq(S)
        BY <2>1, <2>2, <3>2, <4>1
      <4>3. Len(f[k]) = Len(f[k-1]) + Len(seqs[k])
        BY <4>2
      <4> QED
        BY <2>3, <4>1, <4>3
    <3> QED
      BY <2>2, <3>1, <3>2
  <2> DEFINE Done(i, k) == /\ end[k] <= end[i]
                           /\ \A m \in 1..Len(seqs[k]) : f[i][end[k-1] + m] = seqs[k][m]
             T == {i \in 1..n : \A k \in 1..i : Done(i, k)}
  <2>5. 1 \in T
    <3>1. Done(1, 1)
      BY <2>1, <2>2, <2>3
    <3>2. \A k \in 1..1 : k = 1
      OBVIOUS
    <3>3. 1 \in 1..n
      BY <2>2
    <3> HIDE DEF Done
    <3> QED
      BY <3>1, <3>2, <3>3
  <2>6. ASSUME NEW i \in 1..n, i \in T, i < n PROVE i + 1 \in T
    <3>1. i + 1 \in 1..n /\ i + 1 > 1 /\ (i + 1) - 1 = i /\ i \in Nat /\ i \in 1..i
      BY <2>2, <2>6
    <3>2. f[i+1] = f[i] \o seqs[i+1] /\ f[i] \in Seq(S) /\ seqs[i+1] \in Seq(S)
      BY <2>1, <2>2, <3>1
    <3>3. end[i] = Len(f[i]) /\ end[i+1] = end[i] + Len(seqs[i+1]) /\ end[i] \in Nat /\ Len(seqs[i+1]) \in Nat
      BY <2>2, <2>3, <2>4, <3>1
    <3>4. ASSUME NEW k \in 1..(i+1) PROVE Done(i+1, k)
      <4>1. CASE k = i + 1
        <5>1. ASSUME NEW m \in 1..Len(seqs[i+1]) PROVE f[i+1][end[i] + m] = seqs[i+1][m]
          BY <3>2, <3>3
        <5>2. \A m \in 1..Len(seqs[i+1]) : f[i+1][end[(i+1)-1] + m] = seqs[i+1][m]
          BY <3>1, <5>1
        <5>3. Done(i+1, i+1)
          BY <2>3, <3>1, <5>2
        <5> QED
          BY <4>1, <5>3
      <4>2. CASE k \in 1..i
        <5>1. Done(i, k)
          BY <2>6, <4>2
        <5>2. k \in 1..n /\ k - 1 \in 0..n
          BY <3>1, <4>2, <2>2
        <5>3. end[k] = end[k-1] + Len(seqs[k]) /\ end[k-1] \in Nat /\ Len(seqs[k]) \in Nat
          BY <2>2, <2>3, <2>4, <5>2
        <5>4. ASSUME NEW m \in 1..Len(seqs[k]) PROVE f[i+1][end[k-1] + m] = seqs[k][m]
          <6>0. end[k] <= end[i]
            BY <5>1
          <6>1. end[k-1] + m \in 1..Len(f[i])
            <7>1. \A a, l, e \in Nat : \A q \in 1..l : a + l <= e => a + q \in 1..e
              OBVIOUS
            <7> QED
              BY <7>1, <6>0, <5>3, <3>3
          <6>2. f[i+1][end[k-1] + m] = f[i][end[k-1] + m]
            BY <3>2, <6>1
          <6> QED
            BY <5>1, <6>2
        <5>5. end[k] <= end[i+1]
          BY <5>1, <5>3, <3>3
        <5> QED
          BY <5>4, <5>5
      <4> QED
        BY <3>1, <4>1, <4>2
    <3> HIDE DEF Done
    <3> QED
      BY <3>1, <3>4
  <2>7. n \in T
    <3> HIDE DEF T
    <3>1. 1..n \subseteq T
      BY <2>2, <2>5, <2>6, Upwards
    <3> QED
      BY <2>2, <3>1
  <2>8. \A k \in 1..n : Done(n, k)
    BY <2>7
  <2>9. Len(FlattenSeq(seqs)) = end[n]
    BY <2>1, <2>2, <2>3
  <2> QED
    BY <2>1, <2>3, <2>4, <2>8, <2>9 DEF n
<1> QED
  BY <1>1, <1>2

(* A sequence that the pieces build up step by step is what they make.     *)
LEMMA FlattenIs ==
  ASSUME NEW S, NEW seqs \in Seq(Seq(S)), NEW t \in Seq(S),
         NEW end \in [0..Len(seqs) -> 0..Len(t)], end[0] = 0, end[Len(seqs)] = Len(t),
         \A i \in 1..Len(seqs) : SubSeq(t, 1, end[i-1]) \o seqs[i] = SubSeq(t, 1, end[i])
  PROVE  FlattenSeq(seqs) = t
<1>0. Len(seqs) \in Nat /\ Len(t) \in Nat
  OBVIOUS
<1>1. CASE Len(seqs) = 0
  <2>1. seqs = <<>> /\ FlattenSeq(seqs) = <<>> /\ Len(t) = 0
    BY <1>1 DEF FlattenSeq
  <2> QED
    BY <2>1
<1>2. CASE Len(seqs) # 0
  <2> DEFINE n == Len(seqs)
  <2>1. PICK f \in [1..n -> Seq(S)] :
           /\ FlattenSeq(seqs) = f[n]
           /\ f[1] = seqs[1]
           /\ \A i \in 1..n : i > 1 => f[i] = f[i-1] \o seqs[i]
    BY <1>2, FlattenDef
  <2>2. n \in Nat \ {0} /\ \A i \in 1..n : seqs[i] \in Seq(S)
    BY <1>2
  <2> DEFINE T == {i \in 1..n : f[i] = SubSeq(t, 1, end[i])}
  <2>3. 1 \in T
    <3>1. 1 \in 1..n /\ 1 - 1 = 0 /\ SubSeq(t, 1, 0) = <<>>
      BY <2>2
    <3>2. <<>> \o seqs[1] = seqs[1]
      BY <2>2, <3>1
    <3>3. SubSeq(t, 1, end[1]) = SubSeq(t, 1, end[1-1]) \o seqs[1]
      BY <3>1
    <3> QED
      BY <2>1, <3>1, <3>2, <3>3
  <2>4. ASSUME NEW i \in 1..n, i \in T, i < n PROVE i + 1 \in T
    <3>1. i + 1 \in 1..n /\ i + 1 > 1 /\ (i + 1) - 1 = i
      BY <2>2, <2>4
    <3>2. f[i+1] = f[i] \o seqs[i+1]
      BY <2>1, <3>1
    <3>3. SubSeq(t, 1, end[i]) \o seqs[i+1] = SubSeq(t, 1, end[i+1])
      BY <3>1
    <3> QED
      BY <2>4, <3>1, <3>2, <3>3
  <2>5. n \in T
    <3> HIDE DEF T
    <3>1. 1..n \subseteq T
      BY <2>2, <2>3, <2>4, Upwards
    <3>2. n \in 1..n
      BY <2>2
    <3> QED
      BY <3>1, <3>2
  <2>6. SubSeq(t, 1, Len(t)) = t
    OBVIOUS
  <2> QED
    BY <2>1, <2>5, <2>6
<1> QED
  BY <1>1, <1>2

-----------------------------------------------------------------------------
(* Septets and octets (gsm7.go).                                           *)

(* The powers of two that occur.                                           *)
LEMMA Powers ==
  \A i \in Int :
    /\ i = 0 => 2^i = 1
    /\ i = 1 => 2^i = 2
    /\ i = 2 => 2^i = 4
    /\ i = 3 => 2^i = 8
    /\ i = 4 => 2^i = 16
    /\ i = 5 => 2^i = 32
    /\ i = 6 => 2^i = 64
    /\ i = 7 => 2^i = 128
    /\ i = 8 => 2^i = 256
<1>0. ASSUME NEW i \in Int, i = 0 PROVE 2^i = 1
  BY <1>0
<1>1. ASSUME NEW i \in Int, i = 1 PROVE 2^i = 2
  BY <1>1
<1>2. ASSUME NEW i \in Int, i = 2 PROVE 2^i = 4
  BY <1>2
<1>3. ASSUME NEW i \in Int, i = 3 PROVE 2^i = 8
  BY <1>3
<1>4. ASSUME NEW i \in Int, i = 4 PROVE 2^i = 16
  BY <1>4
<1>5. ASSUME NEW i \in Int, i = 5 PROVE 2^i = 32
  BY <1>5
<1>6. ASSUME NEW i \in Int, i = 6 PROVE 2^i = 64
  BY <1>6
<1>7. ASSUME NEW i \in Int, i = 7 PROVE 2^i = 128
  BY <1>7
<1>8. ASSUME NEW i \in Int, i = 8 PROVE 2^i = 256
  BY <1>8
<1> QED
  BY <1>0, <1>1, <1>2, <1>3, <1>4, <1>5, <1>6, <1>7, <1>8

(* An octet made of the upper bits of a septet and the lower bits of the   *)
(* next one.                                                               *)
LEMMA JoinedBits ==
  ASSUME NEW x \in Septets, NEW y \in Septets, NEW r \in 0..6, NEW i \in 0..7
  PROVE  BitAt(Joined(x, y, r), i) =
           IF r + i < 7 THEN BitAt(x, r + i) ELSE BitAt(y, (r + i) - 7)
<1>0. CASE r = 0
  <2>0. CASE i = 0
    BY <1>0, <2>0, Powers DEF BitAt, Septets, Joined
  <2>1. CASE i = 1
    BY <1>0, <2>1, Powers DEF BitAt, Septets, Joined
  <2>2. CASE i = 2
    BY <1>0, <2>2, Powers DEF BitAt, Septets, Joined
  <2>3. CASE i = 3
    BY <1>0, <2>3, Powers DEF BitAt, Septets, Joined
  <2>4. CASE i = 4
    BY <1>0, <2>4, Powers DEF BitAt, Septets, Joined
  <2>5. CASE i = 5
    BY <1>0, <2>5, Powers DEF BitAt, Septets, Joined
  <2>6. CASE i = 6
    BY <1>0, <2>6, Powers DEF BitAt, Septets, Joined
  <2>7. CASE i = 7
    BY <1>0, <2>7, Powers DEF BitAt, Septets, Joined
  <2> QED
    BY <2>0, <2>1, <2>2, <2>3, <2>4, <2>5, <2>6, <2>7
<1>1. CASE r = 1
  <2>0. CASE i = 0
    BY <1>1, <2>0, Powers DEF BitAt, Septets, Joined
  <2>1. CASE i = 1
    BY <1>1, <2>1, Powers DEF BitAt, Septets, Joined
  <2>2. CASE i = 2
    BY <1>1, <2>2, Powers DEF BitAt, Septets, Joined
  <2>3. CASE i = 3
    BY <1>1, <2>3, Powers DEF BitAt, Septets, Joined
  <2>4. CASE i = 4
    BY <1>1, <2>4, Powers DEF BitAt, Septets, Joined
  <2>5. CASE i = 5
    BY <1>1, <2>5, Powers DEF BitAt, Septets, Joined
  <2>6. CASE i = 6
    BY <1>1, <2>6, Powers DEF BitAt, Septets, Joined
  <2>7. CASE i = 7
    BY <1>1, <2>7, Powers DEF BitAt, Septets, Joined
  <2> QED
    BY <2>0, <2>1, <2>2, <2>3, <2>4, <2>5, <2>6, <2>7
<1>2. CASE r = 2
  <2>0. CASE i = 0
    BY <1>2, <2>0, Powers DEF BitAt, Septets, Joined
  <2>1. CASE i = 1
    BY <1>2, <2>1, Powers DEF BitAt, Septets, Joined
  <2>2. CASE i = 2
    BY <1>2, <2>2, Powers DEF BitAt, Septets, Joined
  <2>3. CASE i = 3
    BY <1>2, <2>3, Powers DEF BitAt, Septets, Joined
  <2>4. CASE i = 4
    BY <1>2, <2>4, Powers DEF BitAt, Septets, Joined
  <2>5. CASE i = 5
    BY <1>2, <2>5, Powers DEF BitAt, Septets, Joined
  <2>6. CASE i = 6
    BY <1>2, <2>6, Powers DEF BitAt, Septets, Joined
  <2>7. CASE i = 7
    BY <1>2, <2>7, Powers DEF BitAt, Septets, Joined
  <2> QED
    BY <2>0, <2>1, <2>2, <2>3, <2>4, <2>5, <2>6, <2>7
<1>3. CASE r = 3
  <2>0. CASE i = 0
    BY <1>3, <2>0, Powers DEF BitAt, Septets, Joined
  <2>1. CASE i = 1
    BY <1>3, <2>1, Powers DEF BitAt, Septets, Joined
  <2>2. CASE i = 2
    BY <1>3, <2>2, Powers DEF BitAt, Septets, Joined
  <2>3. CASE i = 3
    BY <1>3, <2>3, Powers DEF BitAt, Septets, Joined
  <2>4. CASE i = 4
    BY <1>3, <2>4, Powers DEF BitAt, Septets, Joined
  <2>5. CASE i = 5
    BY <1>3, <2>5, Powers DEF BitAt, Septets, Joined
  <2>6. CASE i = 6
    BY <1>3, <2>6, Powers DEF BitAt, Septets, Joined
  <2>7. CASE i = 7
    BY <1>3, <2>7, Powers DEF BitAt, Septets, Joined
  <2> QED
    BY <2>0, <2>1, <2>2, <2>3, <2>4, <2>5, <2>6, <2>7
<1>4. CASE r = 4
  <2>0. CASE i = 0
    BY <1>4, <2>0, Powers DEF BitAt, Septets, Joined
  <2>1. CASE i = 1
    BY <1>4, <2>1, Powers DEF BitAt, Septets, Joined
  <2>2. CASE i = 2
    BY <1>4, <2>2, Powers DEF BitAt, Septets, Joined
  <2>3. CASE i = 3
    BY <1>4, <2>3, Powers DEF BitAt, Septets, Joined
  <2>4. CASE i = 4
    BY <1>4, <2>4, Powers DEF BitAt, Septets, Joined
  <2>5. CASE i = 5
    BY <1>4, <2>5, Powers DEF BitAt, Septets, Joined
  <2>6. CASE i = 6
    BY <1>4, <2>6, Powers DEF BitAt, Septets, Joined
  <2>7. CASE i = 7
    BY <1>4, <2>7, Powers DEF BitAt, Septets, Joined
  <2> QED
    BY <2>0, <2>1, <2>2, <2>3, <2>4, <2>5, <2>6, <2>7
<1>5. CASE r = 5
  <2>0. CASE i = 0
    BY <1>5, <2>0, Powers DEF BitAt, Septets, Joined
  <2>1. CASE i = 1
    BY <1>5, <2>1, Powers DEF BitAt, Septets, Joined
  <2>2. CASE i = 2
    BY <1>5, <2>2, Powers DEF BitAt, Septets, Joined
  <2>3. CASE i = 3
    BY <1>5, <2>3, Powers DEF BitAt, Septets, Joined
  <2>4. CASE i = 4
    BY <1>5, <2>4, Powers DEF BitAt, Septets, Joined
  <2>5. CASE i = 5
    BY <1>5, <2>5, Powers DEF BitAt, Septets, Joined
  <2>6. CASE i = 6
    BY <1>5, <2>6, Powers DEF BitAt, Septets, Joined
  <2>7. CASE i = 7
    BY <1>5, <2>7, Powers DEF BitAt, Septets, Joined
  <2> QED
    BY <2>0, <2>1, <2>2, <2>3, <2>4, <2>5, <2>6, <2>7
<1>6. CASE r = 6
  <2>0. CASE i = 0
    BY <1>6, <2>0, Powers DEF BitAt, Septets, Joined
  <2>1. CASE i = 1
    BY <1>6, <2>1, Powers DEF BitAt, Septets, Joined
  <2>2. CASE i = 2
    BY <1>6, <2>2, Powers DEF BitAt, Septets, Joined
  <2>3. CASE i = 3
    BY <1>6, <2>3, Powers DEF BitAt, Septets, Joined
  <2>4. CASE i = 4
    BY <1>6, <2>4, Powers DEF BitAt, Septets, Joined
  <2>5. CASE i = 5
    BY <1>6, <2>5, Powers DEF BitAt, Septets, Joined
  <2>6. CASE i = 6
    BY <1>6, <2>6, Powers DEF BitAt, Septets, Joined
  <2>7. CASE i = 7
    BY <1>6, <2>7, Powers DEF BitAt, Septets, Joined
  <2> QED
    BY <2>0, <2>1, <2>2, <2>3, <2>4, <2>5, <2>6, <2>7
<1> QED
  BY <1>0, <1>1, <1>2, <1>3, <1>4, <1>5, <1>6

(* Where septets end there are zeros, which are septets too.               *)
LEMMA AtType ==
  ASSUME NEW s \in Seq(Septets), NEW k \in Int
  PROVE  At(s, k) \in Septets
<1>1. k \in DOMAIN s => s[k] \in Septets
  OBVIOUS
<1>2. 0 \in Septets
  BY DEF Septets
<1> QED
  BY <1>1, <1>2 DEF At

(* The octet and the bit in it where a septet begins.                      *)
StartsAt(sb, k, o, m) == (sb + 7 * (k - 1)) \div 8 = o /\ (sb + 7 * (k - 1)) % 8 = m

(* What a septet leaves in the octet it begins in.                         *)
LEMMA ShareLow ==
  ASSUME NEW s, NEW sb, NEW k, NEW j \in Int, NEW m, StartsAt(sb, k, j, m)
  PROVE  Share(s, sb, k, j) = IF k \in DOMAIN s THEN LowPart(s[k], m) ELSE 0
<1>1. j # j - 1
  OBVIOUS
<1> QED
  BY <1>1 DEF Share, StartsAt

(* What a septet leaves in the next one.                                   *)
LEMMA ShareHigh ==
  ASSUME NEW s, NEW sb, NEW k, NEW j \in Int, NEW m, StartsAt(sb, k, j - 1, m)
  PROVE  Share(s, sb, k, j) = IF k \in DOMAIN s THEN HighPart(s[k], m) ELSE 0
<1>1. j # j - 1
  OBVIOUS
<1> QED
  BY <1>1 DEF Share, StartsAt

(* An octet of PackSeptets is made of the two septets that reach into it.  *)
LEMMA OctetIs ==
  ASSUME NEW s \in Seq(Septets), NEW sb \in 0..6, NEW j \in Nat, NEW k \in Int, NEW r \in 0..6,
         8 * j - sb = 7 * (k - 1) + r
  PROVE  Octet(s, sb, j) = Joined(At(s, k), At(s, k + 1), r)
<1>1. (8 * j - sb) \div 7 = k - 1
  OBVIOUS
<1>2. Octet(s, sb, j) = Share(s, sb, k, j) + Share(s, sb, k + 1, j)
  <2>1. ((8 * j - sb) \div 7) + 1 = k
    BY <1>1
  <2> QED
    BY <2>1 DEF Octet
<1>0. At(s, k) \in Septets /\ At(s, k + 1) \in Septets
  BY AtType
<1>3. Share(s, sb, k, j) = At(s, k) \div 2^r
  <2> DEFINE pos == sb + 7 * (k - 1)
  <2>1. pos = 8 * j - r
    OBVIOUS
  <2>2. CASE r = 0
    <3>0. j \in Int /\ 0 \in Int
      OBVIOUS
    <3>1. pos \div 8 = j /\ pos % 8 = 0
      BY <2>1, <2>2
    <3>2. Share(s, sb, k, j) = IF k \in DOMAIN s THEN LowPart(s[k], 0) ELSE 0
      <4>1. StartsAt(sb, k, j, 0)
        BY <3>1 DEF StartsAt
      <4> QED
        BY <3>0, <4>1, ShareLow
    <3>a. ASSUME NEW v \in Septets PROVE LowPart(v, 0) = v /\ v \div 2^r = v
      <4>1. 2^0 = 1 /\ 2^r = 1
        BY Powers, <2>2
      <4>2. v * 1 = v /\ v \div 1 = v /\ v % 256 = v
        BY DEF Septets
      <4> QED
        BY <4>1, <4>2 DEF LowPart, Byte
    <3>3. k \in DOMAIN s => LowPart(s[k], 0) = s[k]
      BY <1>0, <3>a DEF At
    <3>4. At(s, k) \div 2^r = At(s, k)
      BY <1>0, <3>a
    <3> QED
      BY <3>2, <3>3, <3>4 DEF At
  <2>3. CASE r # 0
    <3>0. j - 1 \in Int /\ 8 - r \in Int
      OBVIOUS
    <3>1. pos \div 8 = j - 1 /\ pos % 8 = 8 - r /\ j - 1 # j /\ 8 - (8 - r) = r
      BY <2>1, <2>3
    <3>2. Share(s, sb, k, j) = IF k \in DOMAIN s THEN HighPart(s[k], 8 - r) ELSE 0
      <4>1. PICK m \in Int : m = 8 - r
        BY <3>0
      <4>2. StartsAt(sb, k, j - 1, m) /\ j \in Int
        BY <3>1, <4>1 DEF StartsAt
      <4> QED
        BY <4>1, <4>2, ShareHigh
    <3>3. HighPart(s[k], 8 - r) = s[k] \div 2^r
      BY <3>1 DEF HighPart
    <3>4. 0 \div 2^r = 0
      BY Powers
    <3> QED
      BY <3>2, <3>3, <3>4 DEF At
  <2> QED
    BY <2>2, <2>3
<1>4. Share(s, sb, k + 1, j) = (At(s, k + 1) * 2^(7 - r)) % 256
  <2> DEFINE pos == sb + 7 * ((k + 1) - 1)
  <2>0. k + 1 \in Int /\ 7 - r \in Int
    OBVIOUS
  <2>1. pos = 8 * j + (7 - r)
    OBVIOUS
  <2>2. pos \div 8 = j /\ pos % 8 = 7 - r
    BY <2>1
  <2>3. Share(s, sb, k + 1, j) = IF k + 1 \in DOMAIN s THEN LowPart(s[k + 1], 7 - r) ELSE 0
    <3>1. PICK l \in Int, m \in Int : l = k + 1 /\ m = 7 - r
      BY <2>0
    <3>2. StartsAt(sb, l, j, m) /\ j \in Int
      BY <2>2, <3>1 DEF StartsAt
    <3> QED
      BY <3>1, <3>2, ShareLow
  <2>4. (0 * 2^(7 - r)) % 256 = 0
    BY Powers
  <2> QED
    BY <2>3, <2>4 DEF LowPart, Byte, At
<1> QED
  BY <1>2, <1>3, <1>4 DEF Joined

(* PackSeptets has an octet for every bit of the septets.                  *)
LEMMA PackedOctets ==
  ASSUME NEW s \in Seq(Septets), NEW sb \in 0..6, s # <<>>
  PROVE  /\ Len(PackSeptets(s, sb)) = (sb + 7 * Len(s) + 7) \div 8
         /\ \A j \in Nat : 8 * j < sb + 7 * Len(s) =>
              j < Len(PackSeptets(s, sb)) /\ PackSeptets(s, sb)[j + 1] = Octet(s, sb, j)
<1> DEFINE n == (sb + 7 * Len(s) + 7) \div 8
           p == [j \in 1..n |-> Octet(s, sb, j - 1)]
<1>1. n \in Nat
  OBVIOUS
<1>2. PackSeptets(s, sb) = p
  BY DEF PackSeptets, NumOctets
<1>3. Len(p) = n
  <2> HIDE DEF n
  <2> QED
    BY <1>1
<1>4. ASSUME NEW j \in Nat, 8 * j < sb + 7 * Len(s) PROVE j < n /\ p[j + 1] = Octet(s, sb, j)
  <2>1. j < n
    BY <1>4
  <2>2. j + 1 \in 1..n /\ (j + 1) - 1 = j
    BY <1>1, <2>1
  <2> HIDE DEF n
  <2> QED
    BY <2>1, <2>2
<1> QED
  BY <1>2, <1>3, <1>4

(* No octet of PackSeptets is over 255: the bits of two septets never      *)
(* meet.                                                                   *)
LEMMA PackedType ==
  ASSUME NEW s \in Seq(Septets), NEW sb \in 0..6
  PROVE  PackSeptets(s, sb) \in Seq(Octets)
<1> DEFINE n == (sb + 7 * Len(s) + 7) \div 8
<1>1. CASE s = <<>>
  <2>1. PackSeptets(s, sb) = <<>> /\ <<>> \in Seq(Octets)
    BY <1>1 DEF PackSeptets
  <2> QED
    BY <2>1
<1>2. CASE s # <<>>
  <2>1. \A x, y \in Septets, r \in 0..6 : Joined(x, y, r) \in Octets
    <3> SUFFICES ASSUME NEW x \in Septets, NEW y \in Septets, NEW r \in 0..6 PROVE Joined(x, y, r) \in Octets
      OBVIOUS
    <3>0. CASE r = 0
      BY <3>0, Powers DEF Joined, Septets, Octets
    <3>1. CASE r = 1
      BY <3>1, Powers DEF Joined, Septets, Octets
    <3>2. CASE r = 2
      BY <3>2, Powers DEF Joined, Septets, Octets
    <3>3. CASE r = 3
      BY <3>3, Powers DEF Joined, Septets, Octets
    <3>4. CASE r = 4
      BY <3>4, Powers DEF Joined, Septets, Octets
    <3>5. CASE r = 5
      BY <3>5, Powers DEF Joined, Septets, Octets
    <3>6. CASE r = 6
      BY <3>6, Powers DEF Joined, Septets, Octets
    <3> QED
      BY <3>0, <3>1, <3>2, <3>3, <3>4, <3>5, <3>6
  <2>2. ASSUME NEW j \in Nat PROVE Octet(s, sb, j) \in Octets
    <3>1. PICK k \in Int, r \in 0..6 : 8 * j - sb = 7 * (k - 1) + r
      <4>1. ((8 * j - sb) \div 7) + 1 \in Int /\ (8 * j - sb) % 7 \in 0..6
        OBVIOUS
      <4>2. 8 * j - sb = 7 * ((((8 * j - sb) \div 7) + 1) - 1) + ((8 * j - sb) % 7)
        OBVIOUS
      <4> QED
        BY <4>1, <4>2
    <3>2. k + 1 \in Int
      OBVIOUS
    <3>3. At(s, k) \in Septets /\ At(s, k + 1) \in Septets
      BY <3>2, AtType
    <3>4. Octet(s, sb, j) = Joined(At(s, k), At(s, k + 1), r)
      BY <3>1, OctetIs
    <3> QED
      BY <2>1, <3>3, <3>4
  <2>3. n \in Nat /\ \A j \in 1..n : j - 1 \in Nat
    OBVIOUS
  <2>4. PackSeptets(s, sb) = [j \in 1..n |-> Octet(s, sb, j - 1)]
    BY <1>2 DEF PackSeptets, NumOctets
  <2> HIDE DEF n
  <2>5. \A j \in 1..n : Octet(s, sb, j - 1) \in Octets
    BY <2>2, <2>3
  <2> QED
    BY <2>3, <2>4, <2>5
<1> QED
  BY <1>1, <1>2

(* A septet that two octets share is read from them as it was written.     *)
LEMMA Reassembled ==
  ASSUME NEW x \in Septets, NEW y \in Septets
  PROVE  /\ \A z : Rejoined(Joined(x, y, 0), z, 0) = x
         /\ \A w \in Septets, off \in 1..7 : Rejoined(Joined(w, x, 7 - off), Joined(x, y, 8 - off), off) = x
<1>0. ASSUME NEW z PROVE Rejoined(Joined(x, y, 0), z, 0) = x
  BY Powers DEF Rejoined, Joined, Septets
<1> SUFFICES ASSUME NEW w \in Septets, NEW off \in 1..7
             PROVE  Rejoined(Joined(w, x, 7 - off), Joined(x, y, 8 - off), off) = x
  BY <1>0
<1>1. CASE off = 1
  BY <1>1, Powers DEF Rejoined, Joined, Septets
<1>2. CASE off = 2
  BY <1>2, Powers DEF Rejoined, Joined, Septets
<1>3. CASE off = 3
  BY <1>3, Powers DEF Rejoined, Joined, Septets
<1>4. CASE off = 4
  BY <1>4, Powers DEF Rejoined, Joined, Septets
<1>5. CASE off = 5
  BY <1>5, Powers DEF Rejoined, Joined, Septets
<1>6. CASE off = 6
  BY <1>6, Powers DEF Rejoined, Joined, Septets
<1>7. CASE off = 7
  BY <1>7, Powers DEF Rejoined, Joined, Septets
<1> QED
  BY <1>1, <1>2, <1>3, <1>4, <1>5, <1>6, <1>7

(* The bits of the packed octets are those of the septets, in order.       *)
LEMMA PackedBits ==
  ASSUME NEW s \in Seq(Septets), NEW sb \in 0..6, NEW b \in 0..(7 * Len(s) - 1)
  PROVE  /\ (sb + b) \div 8 < Len(PackSeptets(s, sb))
         /\ Bit(PackSeptets(s, sb), sb + b) = SeptetBit(s, b)
<1> DEFINE j == (sb + b) \div 8
           i == (sb + b) % 8
           k == ((8 * j - sb) \div 7) + 1
           r == (8 * j - sb) % 7
<1>0. Len(s) \in Nat /\ b \in Nat /\ b < 7 * Len(s) /\ s # <<>>
  OBVIOUS
<1>1. j \in Nat /\ i \in 0..7 /\ sb + b = 8 * j + i
  BY <1>0
<1>2. k \in Int /\ r \in 0..6 /\ 8 * j - sb = 7 * (k - 1) + r
  <2> HIDE DEF j, i
  <2> QED
    BY <1>1
<1> HIDE DEF j, i, k, r
<1>3. j < Len(PackSeptets(s, sb)) /\ PackSeptets(s, sb)[j + 1] = Octet(s, sb, j)
  <2>1. 8 * j < sb + 7 * Len(s)
    BY <1>0, <1>1
  <2> QED
    BY <2>1, <1>0, <1>1, PackedOctets
<1>4. Octet(s, sb, j) = Joined(At(s, k), At(s, k + 1), r)
  BY <1>1, <1>2, OctetIs
<1>5. At(s, k) \in Septets /\ At(s, k + 1) \in Septets
  <2>1. k \in Int /\ k + 1 \in Int
    BY <1>2
  <2> QED
    BY <2>1, AtType
<1>6. BitAt(Octet(s, sb, j), i) = IF r + i < 7 THEN BitAt(At(s, k), r + i) ELSE BitAt(At(s, k + 1), (r + i) - 7)
  <2>1. BitAt(Joined(At(s, k), At(s, k + 1), r), i) =
          IF r + i < 7 THEN BitAt(At(s, k), r + i) ELSE BitAt(At(s, k + 1), (r + i) - 7)
    BY <1>1, <1>2, <1>5, JoinedBits
  <2> QED
    BY <1>4, <2>1
<1>7. Bit(PackSeptets(s, sb), sb + b) = BitAt(Octet(s, sb, j), i)
  BY <1>3 DEF Bit, i, j
<1>8. CASE r + i < 7
  <2>1. b \div 7 = k - 1 /\ b % 7 = r + i /\ (k - 1) + 1 = k
    BY <1>1, <1>2, <1>8
  <2>2. k \in 1..Len(s)
    BY <1>0, <1>1, <1>2, <1>8
  <2>3. At(s, k) = s[k]
    BY <2>2 DEF At
  <2> QED
    BY <1>3, <1>6, <1>7, <1>8, <2>1, <2>3 DEF SeptetBit, j
<1>9. CASE ~(r + i < 7)
  <2>1. b \div 7 = k /\ b % 7 = (r + i) - 7
    BY <1>1, <1>2, <1>9
  <2>2. k + 1 \in 1..Len(s)
    BY <1>0, <1>1, <1>2, <1>9
  <2>3. At(s, k + 1) = s[k + 1]
    BY <2>2 DEF At
  <2> QED
    BY <1>3, <1>6, <1>7, <1>9, <2>1, <2>3 DEF SeptetBit, j
<1> QED
  BY <1>8, <1>9

(* UnpackSeptets undoes PackSeptets, for every number of septets and       *)
(* behind every padding.                                                   *)
LEMMA UnpackedIsPacked ==
  ASSUME NEW s \in Seq(Septets), NEW sb \in 0..6
  PROVE  UnpackSeptets(PackSeptets(s, sb), Len(s), sb) = s
<1> DEFINE o == PackSeptets(s, sb)
           Septet(i) == LET pos == sb + 7 * (i - 1)
                            j == pos \div 8
                            off == pos % 8
                            low == IF j < Len(o) THEN o[j + 1] \div 2^off ELSE 0
                            high == IF off > 1 /\ j + 1 < Len(o) THEN Byte(o[j + 2] * 2^(8 - off)) ELSE 0
                        IN  (low + high) % 128
<1>0. Len(s) \in Nat
  OBVIOUS
<1>1. ASSUME NEW i \in 1..Len(s) PROVE Septet(i) = s[i]
  <2> DEFINE pos == sb + 7 * (i - 1)
             j == pos \div 8
             off == pos % 8
             low == IF j < Len(o) THEN o[j + 1] \div 2^off ELSE 0
             high == IF off > 1 /\ j + 1 < Len(o) THEN Byte(o[j + 2] * 2^(8 - off)) ELSE 0
  <2>1. s # <<>> /\ i \in Nat /\ i >= 1 /\ i <= Len(s) /\ pos \in Nat
    BY <1>0
  <2>2. j \in Nat /\ off \in 0..7 /\ sb + 7 * (i - 1) = 8 * j + off
    <3> HIDE DEF pos
    <3>1. j \in Nat /\ off \in 0..7 /\ pos = 8 * j + off
      BY <2>1
    <3> QED
      BY <3>1 DEF pos
  <2>3. Septet(i) = (low + high) % 128
    OBVIOUS
  <2> HIDE DEF pos, j, off, Septet
  <2>4. At(s, i) = s[i] /\ At(s, i - 1) \in Septets /\ At(s, i) \in Septets /\ At(s, i + 1) \in Septets
    <3>1. i \in DOMAIN s /\ i - 1 \in Int /\ i \in Int /\ i + 1 \in Int
      BY <2>1
    <3> QED
      BY <3>1, AtType DEF At
  <2>5. j < Len(o) /\ o[j + 1] = Octet(s, sb, j)
    <3>1. 8 * j < sb + 7 * Len(s)
      BY <1>0, <2>1, <2>2
    <3> QED
      BY <2>1, <2>2, <3>1, PackedOctets
  <2>6. ASSUME NEW second, off > 1 => j + 1 < Len(o) /\ o[j + 2] = second
        PROVE  Septet(i) = Rejoined(Octet(s, sb, j), second, off)
    BY <2>3, <2>5, <2>6 DEF Rejoined, Byte
  <2>7. CASE off = 0
    <3>1. 8 * j - sb = 7 * (i - 1) + 0 /\ i \in Int /\ 0 \in 0..6 /\ ~(0 > 1)
      BY <2>1, <2>2, <2>7
    <3>2. Octet(s, sb, j) = Joined(At(s, i), At(s, i + 1), 0)
      BY <2>2, <3>1, OctetIs
    <3>3. Septet(i) = Rejoined(Octet(s, sb, j), 0, 0)
      BY <2>6, <2>7, <3>1
    <3> QED
      BY <2>4, <3>2, <3>3, Reassembled
  <2>8. CASE off # 0
    <3>0. off \in 1..7 /\ off \in Nat
      BY <2>2, <2>8
    <3>1. 8 * j - sb = 7 * ((i - 1) - 1) + (7 - off) /\ i - 1 \in Int /\ 7 - off \in 0..6 /\ (i - 1) + 1 = i
      BY <2>1, <2>2, <3>0
    <3>2. Octet(s, sb, j) = Joined(At(s, i - 1), At(s, (i - 1) + 1), 7 - off)
      BY <2>2, <3>1, OctetIs
    <3>3. ASSUME off > 1
          PROVE  j + 1 < Len(o) /\ o[j + 2] = Joined(At(s, i), At(s, i + 1), 8 - off)
      <4>1. 8 * (j + 1) < sb + 7 * Len(s) /\ j + 1 \in Nat /\ (j + 1) + 1 = j + 2
        BY <1>0, <2>1, <2>2, <3>3
      <4>2. j + 1 < Len(o) /\ o[j + 2] = Octet(s, sb, j + 1)
        BY <2>1, <4>1, PackedOctets
      <4>3. 8 * (j + 1) - sb = 7 * (i - 1) + (8 - off) /\ 8 - off \in 0..6 /\ i \in Int
        BY <2>1, <2>2, <3>0, <3>3
      <4> QED
        BY <4>1, <4>2, <4>3, OctetIs
    <3>4. Septet(i) = Rejoined(Joined(At(s, i - 1), At(s, i), 7 - off), Joined(At(s, i), At(s, i + 1), 8 - off), off)
      BY <2>6, <3>1, <3>2, <3>3
    <3> QED
      BY <2>4, <3>0, <3>4, Reassembled
  <2> QED
    BY <2>7, <2>8
<1>2. UnpackSeptets(o, Len(s), sb) = [i \in 1..Len(s) |-> Septet(i)]
  BY DEF UnpackSeptets
<1> HIDE DEF Septet
<1> QED
  BY <1>0, <1>1, <1>2

-----------------------------------------------------------------------------
(* The messages (encoder.go, decoder.go).                                  *)

(* A sequence is one of the elements it has.                               *)
LEMMA SeqWithin ==
  ASSUME NEW S, NEW T, NEW s \in Seq(S), \A i \in 1..Len(s) : s[i] \in T
  PROVE  s \in Seq(T)
<1>1. Len(s) \in Nat /\ s = [i \in 1..Len(s) |-> s[i]]
  OBVIOUS
<1>2. s \in [1..Len(s) -> T]
  BY <1>1
<1> QED
  BY <1>1, <1>2

(* A text is a sequence of runes.                                          *)
LEMMA TextRunes == \A t : IsText(t) => t \in Seq(Runes)
<1> SUFFICES ASSUME NEW t, IsText(t) PROVE t \in Seq(Runes)
  OBVIOUS
<1>1. t \in Seq(Nat) /\ \A i \in DOMAIN t : IsRune(t[i])
  BY DEF IsText
<1>2. \A i \in 1..Len(t) : t[i] \in Runes
  BY <1>1 DEF Runes
<1> QED
  BY <1>1, <1>2, SeqWithin

(* What a rune becomes, with the codes of the tables written out.          *)
LEMMA SeptetsOfRune ==
  ASSUME NEW r \in Nat
  PROVE  /\ SeptetsOf(r) \in Seq(Septets)
         /\ r \notin Extension => Len(SeptetsOf(r)) = 1
         /\ r \in Basic => SeptetsOf(r)[1] = r /\ r # ESC
         /\ r \in Extension => /\ Len(SeptetsOf(r)) = 2 /\ SeptetsOf(r)[1] = ESC
                               /\ SeptetsOf(r)[2] = r - 128 /\ r - 128 \in ExtensionCodes
                               /\ r - 128 # ESC /\ 128 + (r - 128) = r
<1>1. CASE r \in Basic
  <2>1. r \in Septets /\ r # ESC /\ r \notin Extension
    BY <1>1 DEF Basic, Septets, Extension, ExtensionCodes
  <2>2. SeptetsOf(r) = <<r>>
    BY <1>1, <2>1 DEF SeptetsOf
  <2> QED
    BY <2>1, <2>2
<1>2. CASE r \in Extension
  <2>1. r \notin Basic /\ r - 128 \in Septets /\ ESC \in Septets /\ r - 128 \in ExtensionCodes /\ r - 128 # ESC
    BY <1>2 DEF Basic, Septets, Extension, ExtensionCodes, ESC
  <2>2. SeptetsOf(r) = <<ESC, r - 128>>
    BY <1>2, <2>1 DEF SeptetsOf
  <2> QED
    BY <1>2, <2>1, <2>2
<1>3. CASE r \notin Basic /\ r \notin Extension
  <2>1. SeptetsOf(r) = <<63>> /\ 63 \in Septets
    BY <1>3 DEF SeptetsOf, Septets
  <2> QED
    BY <1>3, <2>1
<1> QED
  BY <1>1, <1>2, <1>3

(* The pieces of EncodeGSM7, and their type.                               *)
LEMMA EncodedPieces ==
  ASSUME NEW t \in Seq(Runes)
  PROVE  /\ [i \in DOMAIN t |-> SeptetsOf(t[i])] \in Seq(Seq(Septets))
         /\ Len([i \in DOMAIN t |-> SeptetsOf(t[i])]) = Len(t)
         /\ \A i \in DOMAIN t : t[i] \in Nat
<1>1. \A i \in 1..Len(t) : t[i] \in Nat
  <2>1. ASSUME NEW i \in 1..Len(t) PROVE t[i] \in Runes
    OBVIOUS
  <2>2. \A r \in Runes : r \in Nat
    BY DEF Runes
  <2> QED
    BY <2>1, <2>2
<1>2. \A i \in 1..Len(t) : SeptetsOf(t[i]) \in Seq(Septets)
  BY <1>1, SeptetsOfRune
<1> QED
  BY <1>1, <1>2

LEMMA EncodedType ==
  ASSUME NEW t \in Seq(Runes)
  PROVE  EncodeGSM7(t) \in Seq(Septets)
BY EncodedPieces, FlattenType DEF EncodeGSM7

(* Transliteration keeps a text a text.                                    *)
LEMMA TransliteratedType ==
  ASSUME NEW t \in Seq(Runes)
  PROVE  Transliterate(t) \in Seq(Runes)
<1> DEFINE piece(i) == IF t[i] \in DOMAIN TranslitMap THEN TranslitMap[t[i]] ELSE <<t[i]>>
<1>1. ASSUME NEW i \in 1..Len(t) PROVE piece(i) \in Seq(Runes)
  <2>1. t[i] \in Runes
    OBVIOUS
  <2>2. CASE t[i] \in DOMAIN TranslitMap
    BY <2>2, TextRunes, PDUAssumption
  <2>3. CASE t[i] \notin DOMAIN TranslitMap
    BY <2>1, <2>3
  <2> QED
    BY <2>2, <2>3
<1> HIDE DEF piece
<1>2. [i \in DOMAIN t |-> piece(i)] \in Seq(Seq(Runes))
  BY <1>1
<1>3. Transliterate(t) = FlattenSeq([i \in DOMAIN t |-> piece(i)])
  BY DEF Transliterate, piece
<1> QED
  BY <1>2, <1>3, FlattenType

(* The text that is encoded is one.                                        *)
LEMMA TextType == in \in Inputs => Text \in Seq(Runes)
<1> SUFFICES ASSUME in \in Inputs PROVE Text \in Seq(Runes)
  OBVIOUS
<1>1. PICK t : t = in.text
  OBVIOUS
<1>2. t \in Seq(Runes)
  BY <1>1, PDUAssumption, TextRunes
<1>3. Transliterate(t) \in Seq(Runes)
  BY <1>2, TransliteratedType
<1> QED
  BY <1>1, <1>2, <1>3 DEF Text

(* Code units of UTF-16, and references of either width.                   *)
Words == {w \in Nat : w < 65536}

(* The inductive invariant: what was sent is the encoding of the text of   *)
(* the request to the number of the request under some reference, and what *)
(* was received in a place is the decoding of a part that belongs there.   *)
PDUInv ==
  /\ in \in Inputs /\ wideRef \in BOOLEAN /\ refCounter \in Octets
  /\ step \in {"new", "sent", "refused"} /\ (step # "sent" => parts = <<>> /\ number = in.to)
  /\ step = "sent" =>
       /\ ~RefusedNumber(in.to) /\ ~RefusedText(in.text) /\ number = NormalizePhoneNumber(in.to)
       /\ \E mr \in Words : parts = EncodeSMS(Text, EncodeAddress(number), mr, wideRef)
  /\ DOMAIN got = DOMAIN parts
  /\ \A k \in DOMAIN got : got[k] # <<>> =>
       \E p \in DOMAIN parts : got[k] = <<DecodeSMS(parts[p])>> /\ Slot(DecodeSMS(parts[p])) = k

(* Nothing was encoded yet.                                                *)
LEMMA PDUInvInit == PDUInit => PDUInv
<1> SUFFICES ASSUME PDUInit PROVE PDUInv
  OBVIOUS
<1>1. DOMAIN got = DOMAIN parts /\ DOMAIN got = {} /\ refCounter \in Octets
  <2>1. got = <<>> /\ parts = <<>> /\ refCounter \in RefCounters
    BY DEF PDUInit
  <2> QED
    BY <2>1, PDUAssumption DEF Octets
<1> QED
  BY <1>1 DEF PDUInit, PDUInv

(* A reference fits the header it goes into.                               *)
LEMMA ReferenceType ==
  ASSUME NEW c \in Octets, NEW wide \in BOOLEAN, NEW r \in References(c, wide)
  PROVE  r \in Words /\ (~wide => r \in Octets)
<1>1. NextRefNumber(c) \in Octets
  BY DEF NextRefNumber, Byte, Octets
<1>2. RacedRefs \subseteq Octets /\ WideRefs \subseteq Words
  BY ReferenceAssumption DEF Octets, Words
<1>3. Octets \subseteq Words
  BY DEF Octets, Words
<1> QED
  BY <1>1, <1>2, <1>3, Zenon DEF References

(* Send establishes it, Receive writes what a part says.                   *)
LEMMA PDUInvNext == PDUInv /\ [PDUNext]_pduVars => PDUInv'
<1> SUFFICES ASSUME PDUInv, [PDUNext]_pduVars PROVE PDUInv'
  OBVIOUS
<1>1. CASE Send
  <2>0. in' = in /\ wideRef' = wideRef /\ Text' = Text
    BY <1>1 DEF Send, Text
  <2>1. CASE RefusedNumber(in.to) \/ RefusedText(in.text)
    <3>1. step' = "refused" /\ UNCHANGED <<number, parts, got, refCounter>> /\ step = "new"
      BY <1>1, <2>1 DEF Send
    <3> QED
      BY <2>0, <3>1 DEF PDUInv
  <2>2. CASE ~(RefusedNumber(in.to) \/ RefusedText(in.text))
    <3>1. /\ number' = NormalizePhoneNumber(in.to)
          /\ got' = [i \in DOMAIN parts' |-> <<>>]
          /\ step' = "sent"
      BY <1>1, <2>2 DEF Send
    <3>a. PICK r \in References(refCounter, wideRef) :
            /\ refCounter' = IF IsSingle(Text) \/ wideRef THEN refCounter ELSE r
            /\ parts' = EncodeSMS(Text, EncodeAddress(number'), r, wideRef)
      BY <1>1, <2>2 DEF Send
    <3>b. refCounter \in Octets /\ wideRef \in BOOLEAN
      BY DEF PDUInv
    <3>c. r \in Words /\ (~wideRef => r \in Octets)
      BY <3>a, <3>b, ReferenceType
    <3>2. refCounter' \in Octets
      BY <3>a, <3>b, <3>c
    <3>d. \E mr \in Words : parts' = EncodeSMS(Text, EncodeAddress(number'), mr, wideRef)
      BY <3>a, <3>c, Zenon
    <3>3. DOMAIN got' = DOMAIN parts' /\ \A k \in DOMAIN got' : got'[k] = <<>>
      BY <3>1
    <3> QED
      BY <2>0, <2>2, <3>1, <3>2, <3>3, <3>d, Zenon DEF PDUInv
  <2> QED
    BY <2>1, <2>2
<1>2. ASSUME NEW p \in DOMAIN parts, Receive(p) PROVE PDUInv'
  <2>0. UNCHANGED <<in, wideRef, refCounter, step, number, parts>> /\ Text' = Text
    BY <1>2 DEF Receive, Text
  <2> DEFINE d == DecodeSMS(parts[p])
             m == Slot(d)
  <2>1. m \in DOMAIN got /\ got' = [got EXCEPT ![m] = <<d>>]
    BY <1>2 DEF Receive
  <2> HIDE DEF d, m
  <2>2. DOMAIN got' = DOMAIN got
    BY <2>1
  <2>3. ASSUME NEW k \in DOMAIN got, got'[k] # <<>>
        PROVE  \E q \in DOMAIN parts : got'[k] = <<DecodeSMS(parts[q])>> /\ Slot(DecodeSMS(parts[q])) = k
    <3>1. CASE k = m
      <4>1. got'[k] = <<d>>
        BY <2>1, <3>1
      <4> QED
        BY <3>1, <4>1 DEF d, m
    <3>2. CASE k # m
      <4>1. got'[k] = got[k]
        BY <2>1, <3>2
      <4> QED
        BY <2>3, <4>1, Zenon DEF PDUInv
    <3> QED
      BY <3>1, <3>2
  <2> QED
    BY <2>0, <2>2, <2>3 DEF PDUInv
<1>3. CASE UNCHANGED pduVars
  BY <1>3 DEF pduVars, PDUInv, Text
<1> QED
  BY <1>1, <1>2, <1>3 DEF PDUNext

(* EncodeSMS runs once for a message, and every slot of the receiver holds *)
(* the decoding of a part that belongs there.                              *)
THEOREM EncodesOnce == PDUSpec => []PDUInv
BY PDUInvInit, PDUInvNext, PTL DEF PDUSpec

-----------------------------------------------------------------------------
(* Lengths and chunks.                                                     *)

(* Pieces of one length.                                                   *)
LEMMA FlattenLength ==
  ASSUME NEW S, NEW seqs \in Seq(Seq(S)), NEW c \in Nat, \A k \in 1..Len(seqs) : Len(seqs[k]) = c
  PROVE  /\ Len(FlattenSeq(seqs)) = c * Len(seqs)
         /\ \A k \in 1..Len(seqs), m \in 1..c : FlattenSeq(seqs)[c * (k - 1) + m] = seqs[k][m]
<1> DEFINE n == Len(seqs)
<1>1. PICK end \in [0..n -> Nat] :
         /\ end[0] = 0
         /\ \A k \in 1..n : end[k] = end[k-1] + Len(seqs[k])
         /\ Len(FlattenSeq(seqs)) = end[n]
         /\ \A k \in 1..n : \A m \in 1..Len(seqs[k]) : FlattenSeq(seqs)[end[k-1] + m] = seqs[k][m]
  BY FlattenAt
<1>2. n \in Nat
  OBVIOUS
<1> DEFINE T == {k \in 1..n : end[k] = c * k}
<1>3. CASE n = 0
  BY <1>1, <1>3, c * 0 = 0
<1>4. CASE n # 0
  <2>1. 1 \in T
    <3>1. 1 \in 1..n /\ 1 - 1 = 0 /\ 0 + c = c * 1
      BY <1>2, <1>4
    <3> QED
      BY <1>1, <3>1
  <2>2. ASSUME NEW k \in 1..n, k \in T, k < n PROVE k + 1 \in T
    <3>1. k + 1 \in 1..n /\ (k + 1) - 1 = k /\ c * k + c = c * (k + 1)
      BY <1>2, <2>2
    <3>2. end[k] = c * k
      BY <2>2
    <3>3. Len(seqs[k+1]) = c
      BY <3>1
    <3>4. end[k+1] = end[(k+1)-1] + Len(seqs[k+1])
      BY <1>1, <3>1
    <3>5. end[k+1] = c * (k + 1)
      BY <3>1, <3>2, <3>3, <3>4
    <3> QED
      BY <3>1, <3>5
  <2>3. 1..n \subseteq T
    <3> HIDE DEF T
    <3> QED
      BY <1>2, <2>1, <2>2, Upwards
  <2>4. n \in T
    <3> HIDE DEF T
    <3>1. n \in 1..n
      BY <1>2, <1>4
    <3> QED
      BY <2>3, <3>1
  <2>5. ASSUME NEW k \in 1..n PROVE end[k-1] = c * (k - 1)
    <3>1. CASE k = 1
      <4>1. k - 1 = 0 /\ c * 0 = 0
        BY <3>1
      <4> QED
        BY <1>1, <4>1
    <3>2. CASE k # 1
      <4>1. k - 1 \in 1..n
        BY <1>2, <3>2
      <4>2. k - 1 \in T
        <5> HIDE DEF T
        <5> QED
          BY <2>3, <4>1
      <4> QED
        BY <4>2
    <3> QED
      BY <3>1, <3>2
  <2>6. ASSUME NEW k \in 1..n, NEW m \in 1..c PROVE FlattenSeq(seqs)[c * (k - 1) + m] = seqs[k][m]
    <3>1. m \in 1..Len(seqs[k])
      OBVIOUS
    <3>2. FlattenSeq(seqs)[end[k-1] + m] = seqs[k][m]
      BY <1>1, <3>1
    <3> QED
      BY <2>5, <3>2
  <2> QED
    BY <1>1, <2>4, <2>6
<1> QED
  BY <1>3, <1>4

(* A text without characters of the extension table has a septet for every *)
(* rune.                                                                   *)
LEMMA EncodedLength ==
  ASSUME NEW t \in Seq(Runes), \A i \in DOMAIN t : t[i] \notin Extension
  PROVE  Len(EncodeGSM7(t)) = Len(t)
<1> DEFINE ss == [i \in DOMAIN t |-> SeptetsOf(t[i])]
<1>1. ss \in Seq(Seq(Septets)) /\ Len(ss) = Len(t)
  BY EncodedPieces
<1>2. \A k \in 1..Len(t) : Len(ss[k]) = 1
  <2>1. DOMAIN t = 1..Len(t) /\ \A k \in 1..Len(t) : t[k] \in Nat
    <3>1. DOMAIN t = 1..Len(t)
      OBVIOUS
    <3>2. \A k \in DOMAIN t : t[k] \in Nat
      BY EncodedPieces
    <3> QED
      BY <3>1, <3>2
  <2>2. \A k \in 1..Len(t) : Len(SeptetsOf(t[k])) = 1
    BY <2>1, SeptetsOfRune
  <2> QED
    BY <2>1, <2>2
<1>3. Len(FlattenSeq(ss)) = 1 * Len(ss)
  <2> HIDE DEF ss
  <2> QED
    BY <1>1, <1>2, FlattenLength
<1>4. EncodeGSM7(t) = FlattenSeq(ss) /\ 1 * Len(t) = Len(t)
  BY DEF EncodeGSM7
<1> HIDE DEF ss
<1> QED
  BY <1>1, <1>3, <1>4

(* A rune more.                                                            *)
LEMMA UnitsOf ==
  /\ Units(<<>>) = 0
  /\ \A s \in Seq(Runes) : Units(s) \in Nat /\ Units(s) >= Len(s)
  /\ \A s \in Seq(Runes), r \in Runes : Units(s \o <<r>>) = Units(s) + (IF r > 65535 THEN 2 ELSE 1)
<1>1. Units(<<>>) = 0
  <2>1. {i \in DOMAIN <<>> : <<>>[i] > 65535} = {}
    OBVIOUS
  <2> QED
    BY <2>1, FS_EmptySet, SMT DEF Units
<1> DEFINE P(s) == {i \in DOMAIN s : s[i] > 65535}
<1>2. ASSUME NEW s \in Seq(Runes) PROVE IsFiniteSet(P(s)) /\ Cardinality(P(s)) \in Nat
  <2>1. P(s) \subseteq 1..Len(s) /\ IsFiniteSet(1..Len(s))
    <3>1. 1 \in Int /\ Len(s) \in Int /\ DOMAIN s = 1..Len(s)
      OBVIOUS
    <3>2. IsFiniteSet(1..Len(s))
      BY <3>1, FS_Interval
    <3> QED
      BY <3>1, <3>2
  <2>2. IsFiniteSet(P(s))
    BY <2>1, FS_Subset
  <2> QED
    BY <2>2, FS_CardinalityType
<1>3. ASSUME NEW s \in Seq(Runes) PROVE Units(s) \in Nat /\ Units(s) >= Len(s)
  BY <1>2, SMT DEF Units
<1>4. ASSUME NEW s \in Seq(Runes), NEW r \in Runes
      PROVE  Units(s \o <<r>>) = Units(s) + (IF r > 65535 THEN 2 ELSE 1)
  <2> DEFINE n == Len(s)
             q == s \o <<r>>
  <2>1. n \in Nat /\ Len(q) = n + 1 /\ DOMAIN q = 1..(n + 1) /\ q[n + 1] = r /\ \A i \in 1..n : q[i] = s[i]
    OBVIOUS
  <2>2. n + 1 \notin P(s)
    BY <2>1
  <2>3. P(q) = IF r > 65535 THEN P(s) \cup {n + 1} ELSE P(s)
    <3> HIDE DEF q
    <3>1. DOMAIN s = 1..n
      OBVIOUS
    <3> QED
      BY <2>1, <3>1, SMT
  <2>4. Cardinality(P(s) \cup {n + 1}) = Cardinality(P(s)) + 1
    <3> HIDE DEF P
    <3> QED
      BY <1>2, <2>2, FS_AddElement
  <2>5. Units(q) = Len(q) + Cardinality(P(q)) /\ Units(s) = n + Cardinality(P(s))
    BY DEF Units
  <2> HIDE DEF P, q
  <2>6. Units(q) = Units(s) + (IF r > 65535 THEN 2 ELSE 1)
    BY <1>2, <2>1, <2>3, <2>4, <2>5, SMT
  <2> QED
    BY <2>6 DEF q
<1> QED
  BY <1>1, <1>3, <1>4, SMT

(* One code unit, or the two halves of a pair.                             *)
LEMMA UTF16OfRune ==
  ASSUME NEW r \in Runes
  PROVE  /\ UTF16(r) \in Seq(Nat)
         /\ \A i \in 1..Len(UTF16(r)) : UTF16(r)[i] < 65536
         /\ r <= 65535 => UTF16(r) = <<r>> /\ Len(UTF16(r)) = 1 /\ ~IsHigh(r) /\ ~IsLow(r)
         /\ r > 65535 => /\ Len(UTF16(r)) = 2 /\ IsHigh(UTF16(r)[1]) /\ IsLow(UTF16(r)[2])
                         /\ 65536 + 1024 * (UTF16(r)[1] - 55296) + (UTF16(r)[2] - 56320) = r
<1>0. r \in Nat /\ r <= 1114111 /\ ~IsHigh(r) /\ ~IsLow(r)
  BY SMT DEF Runes, IsRune
<1>1. CASE r <= 65535
  <2>1. UTF16(r) = <<r>>
    BY <1>0, <1>1, SMT DEF UTF16
  <2> QED
    BY <1>0, <1>1, <2>1, SMT
<1>2. CASE r > 65535
  <2> DEFINE a == 55296 + ((r - 65536) \div 1024)
             b == 56320 + ((r - 65536) % 1024)
  <2>1. UTF16(r) = <<a, b>>
    BY <1>0, <1>2, SMT DEF UTF16
  <2>2. a \in Nat /\ b \in Nat /\ IsHigh(a) /\ IsLow(b) /\ a < 65536 /\ b < 65536
        /\ 65536 + 1024 * (a - 55296) + (b - 56320) = r
    BY <1>0, <1>2, SMT DEF IsHigh, IsLow
  <2> HIDE DEF a, b
  <2> QED
    BY <1>0, <1>2, <2>1, <2>2, SMT
<1> QED
  BY <1>0, <1>1, <1>2, SMT

(* There are as many units as runes, at least.                             *)
LEMMA UnitsType == Units(<<>>) = 0 /\ \A s \in Seq(Runes) : Units(s) \in Nat /\ Units(s) >= Len(s)
BY UnitsOf, SMT

(* A rune more is a unit or two more.                                      *)
LEMMA UnitsMore ==
  ASSUME NEW s \in Seq(Runes), NEW r \in Runes
  PROVE  Units(s \o <<r>>) = Units(s) + Len(UTF16(r)) /\ Len(UTF16(r)) \in 1..2
<1>1. r > 65535 \/ r <= 65535
  BY SMT DEF Runes, IsRune
<1>2. Len(UTF16(r)) = IF r > 65535 THEN 2 ELSE 1
  BY <1>1, UTF16OfRune, SMT
<1>3. Units(s \o <<r>>) = Units(s) + (IF r > 65535 THEN 2 ELSE 1)
  BY UnitsOf, SMT
<1> QED
  BY <1>2, <1>3, SMT

(* The largest of some bounded numbers.                                    *)
LEMMA Largest ==
  ASSUME NEW n \in Nat, NEW T, T \subseteq 0..n, T # {}
  PROVE  Max(T) \in T /\ \A y \in T : y <= Max(T)
<1> DEFINE U == {k \in 0..n : n - k \in T}
<1>1. U \subseteq Nat
  OBVIOUS
<1>2. U # {}
  <2>1. PICK y \in T : TRUE
    OBVIOUS
  <2>2. n - y \in 0..n /\ n - (n - y) = y
    OBVIOUS
  <2> QED
    BY <2>1, <2>2
<1>3. PICK k \in U : \A y \in U : k <= y
  <2> HIDE DEF U
  <2> QED
    BY <1>1, <1>2, Smallest
<1>4. n - k \in T
  BY <1>3
<1>5. ASSUME NEW y \in T PROVE n - k >= y
  <2>1. n - y \in U /\ y \in 0..n
    OBVIOUS
  <2>2. k <= n - y /\ k \in 0..n
    BY <1>3, <2>1
  <2> QED
    BY <2>1, <2>2
<1>6. \E x \in T : \A y \in T : x >= y
  BY <1>4, <1>5
<1>7. Max(T) \in T /\ \A y \in T : Max(T) >= y
  BY <1>6 DEF Max
<1>8. ASSUME NEW y \in T PROVE y <= Max(T)
  <2>1. y \in 0..n /\ Max(T) \in 0..n /\ Max(T) >= y
    BY <1>7
  <2> QED
    BY <2>1
<1> QED
  BY <1>7, <1>8

(* A stretch of a text.                                                    *)
LEMMA SubSeqOfText ==
  ASSUME NEW t \in Seq(Runes), NEW a \in Nat, NEW b \in Nat, a >= 1, b <= Len(t)
  PROVE  /\ SubSeq(t, a, b) \in Seq(Runes)
         /\ Len(SubSeq(t, a, b)) = IF a <= b THEN (b - a) + 1 ELSE 0
         /\ \A i \in 1..((b - a) + 1) : SubSeq(t, a, b)[i] = t[(a + i) - 1]
<1>1. \A i \in a..b : t[i] \in Runes
  OBVIOUS
<1>2. a \in Int /\ b \in Int
  OBVIOUS
<1>3. /\ SubSeq(t, a, b) \in Seq(Runes)
      /\ Len(SubSeq(t, a, b)) = IF a <= b THEN b-a+1 ELSE 0
      /\ \A i \in 1 .. b-a+1 : SubSeq(t, a, b)[i] = t[a+i-1]
  BY <1>1, <1>2, SubSeqProperties
<1> QED
  BY <1>3

(* The chunk that starts somewhere: it fits, and the next rune does not.   *)
LEMMA ChunkEndIs ==
  ASSUME NEW t \in Seq(Runes), NEW start \in 1..Len(t), NEW gsm7 \in BOOLEAN, NEW max \in Nat, max >= 2
  PROVE  \A e : e = ChunkEnd(t, start, gsm7, max) =>
             /\ e \in start..Len(t) /\ e < start + max
             /\ gsm7 \/ Units(SubSeq(t, start, e)) <= max
             /\ e < Len(t) => e + 1 = start + max \/ (~gsm7 /\ Units(SubSeq(t, start, e + 1)) > max)
<1> DEFINE T == {e \in start..Len(t) : e < start + max /\ (gsm7 \/ Units(SubSeq(t, start, e)) <= max)}
           e == Max(T)
<1>0. Len(t) \in Nat /\ start \in Nat /\ start >= 1 /\ start <= Len(t)
  OBVIOUS
<1>1. T \subseteq 0..Len(t)
  BY <1>0
<1>2. start \in T
  <2>1. SubSeq(t, start, start) = <<>> \o <<t[start]>>
    <3>1. start \in start..Len(t) /\ start - 1 < start
      BY <1>0
    <3>2. SubSeq(t, start, start) = SubSeq(t, start, start - 1) \o <<t[start]>>
      BY <3>1, SubSeqRecursiveSecond
    <3>3. SubSeq(t, start, start - 1) = <<>>
      BY <1>0, <3>1, SubSeqEmpty
    <3> QED
      BY <3>2, <3>3
  <2>2. <<>> \in Seq(Runes) /\ t[start] \in Runes
    BY <1>0
  <2>3. Units(SubSeq(t, start, start)) <= max
    <3>1. Units(<<>> \o <<t[start]>>) = 0 + Len(UTF16(t[start])) /\ Len(UTF16(t[start])) \in 1..2
      BY <2>2, UnitsMore, UnitsType
    <3>2. \A l \in 1..2 : 0 + l <= max
      OBVIOUS
    <3> QED
      BY <2>1, <3>1, <3>2
  <2> QED
    BY <1>0, <2>3
<1>3. e \in T /\ \A y \in T : y <= e
  <2> HIDE DEF T
  <2> QED
    BY <1>0, <1>1, <1>2, Largest
<1>4. ChunkEnd(t, start, gsm7, max) = e
  BY DEF ChunkEnd
<1> HIDE DEF e
<1>5. e \in start..Len(t) /\ e < start + max /\ (gsm7 \/ Units(SubSeq(t, start, e)) <= max)
  BY <1>3
<1>6. ASSUME e < Len(t), e + 1 # start + max PROVE ~gsm7 /\ Units(SubSeq(t, start, e + 1)) > max
  <2>1. e + 1 \in start..Len(t) /\ e + 1 < start + max /\ ~(e + 1 <= e)
    BY <1>0, <1>5, <1>6
  <2>2. e + 1 \notin T
    BY <1>3, <2>1
  <2>3. ~(gsm7 \/ Units(SubSeq(t, start, e + 1)) <= max)
    BY <2>1, <2>2
  <2>4. Units(SubSeq(t, start, e + 1)) \in Nat
    <3>1. e + 1 \in Nat /\ e + 1 <= Len(t)
      BY <1>0, <2>1
    <3>2. SubSeq(t, start, e + 1) \in Seq(Runes)
      BY <1>0, <3>1, SubSeqOfText
    <3> QED
      BY <3>2, UnitsType
  <2> QED
    BY <2>3, <2>4
<1> HIDE DEF T
<1> QED
  BY <1>4, <1>5, <1>6

(* The chunks c of the text t from rune i on end at st[1], st[2], ...      *)
SplitAt(t, gsm7, max, c, i, st) ==
  /\ c \in Seq(Seq(Runes)) /\ st \in [0..Len(c) -> 0..Len(t)]
  /\ st[0] = i - 1 /\ st[Len(c)] = Len(t)
  /\ \A k \in 1..Len(c) : /\ st[k-1] + 1 \in 1..Len(t)
                          /\ st[k] = ChunkEnd(t, st[k-1] + 1, gsm7, max)
                          /\ c[k] = SubSeq(t, st[k-1] + 1, st[k])

(* A chunk ends within the text, at its start or later.                    *)
LEMMA ChunkEndType ==
  ASSUME NEW t \in Seq(Runes), NEW start \in 1..Len(t), NEW gsm7 \in BOOLEAN, NEW max \in Nat, max >= 2
  PROVE  /\ ChunkEnd(t, start, gsm7, max) \in start..Len(t)
         /\ SubSeq(t, start, ChunkEnd(t, start, gsm7, max)) \in Seq(Runes)
<1>1. ChunkEnd(t, start, gsm7, max) \in start..Len(t)
  BY ChunkEndIs
<1>2. PICK e \in start..Len(t) : ChunkEnd(t, start, gsm7, max) = e
  BY <1>1
<1>3. start \in Nat /\ e \in Nat /\ start >= 1 /\ e <= Len(t)
  OBVIOUS
<1>4. SubSeq(t, start, e) \in Seq(Runes)
  BY <1>3, SubSeqOfText
<1> QED
  BY <1>2, <1>4

(* SplitChunks, whose recursive function is shown to exist: every chunk is *)
(* followed by those of the rest.                                          *)
LEMMA ChunksDef ==
  ASSUME NEW t \in Seq(Runes), NEW gsm7 \in BOOLEAN, NEW max \in Nat, max >= 2
  PROVE  \E f : /\ SplitChunks(t, gsm7, max) = f[1]
                /\ f[Len(t) + 1] = <<>>
                /\ \A i \in 1..Len(t) : LET e == ChunkEnd(t, i, gsm7, max)
                                        IN  f[i] = <<SubSeq(t, i, e)>> \o f[e + 1]
<1> DEFINE n == Len(t)
           E(i) == ChunkEnd(t, i, gsm7, max)
           Good(g, lo) == \A i \in lo..(n+1) : g[i] = IF i > n THEN <<>> ELSE <<SubSeq(t, i, E(i))>> \o g[E(i) + 1]
           T == {k \in 1..(n+1) : \E g \in [((n+2) - k)..(n+1) -> Seq(Seq(Runes))] : Good(g, (n+2) - k)}
<1>0. n \in Nat
  OBVIOUS
<1>00. \A i \in 1..n : E(i) \in i..n /\ SubSeq(t, i, E(i)) \in Seq(Runes)
  BY ChunkEndType
<1> HIDE DEF n, E
<1>1. 1 \in T
  <2> DEFINE g == [i \in ((n+2) - 1)..(n+1) |-> <<>>]
  <2>1. \A i \in ((n+2) - 1)..(n+1) : i > n
    BY <1>0
  <2>2. g \in [((n+2) - 1)..(n+1) -> Seq(Seq(Runes))]
    <3>1. <<>> \in Seq(Seq(Runes))
      OBVIOUS
    <3> QED
      BY <3>1
  <2>3. Good(g, (n+2) - 1)
    BY <2>1
  <2>4. 1 \in 1..(n+1)
    BY <1>0
  <2> HIDE DEF g, Good
  <2> QED
    BY <2>2, <2>3, <2>4
<1>2. ASSUME NEW k \in 1..(n+1), k \in T, k < n + 1 PROVE k + 1 \in T
  <2> DEFINE lo == (n+2) - k
             new == (n+2) - (k+1)
  <2>1. PICK g \in [lo..(n+1) -> Seq(Seq(Runes))] : Good(g, lo)
    BY <1>2
  <2>2. lo \in Nat /\ new \in Nat /\ new \in 1..n /\ lo = new + 1 /\ k + 1 \in 1..(n+1)
    BY <1>0, <1>2
  <2> HIDE DEF lo
  <2> DEFINE h == [i \in new..(n+1) |-> IF i = new THEN <<SubSeq(t, i, E(i))>> \o g[E(i) + 1] ELSE g[i]]
  <2>3. <<SubSeq(t, new, E(new))>> \o g[E(new) + 1] \in Seq(Seq(Runes))
    <3> HIDE DEF new
    <3>1. E(new) \in new..n /\ SubSeq(t, new, E(new)) \in Seq(Runes)
      BY <1>00, <2>2
    <3>2. E(new) + 1 \in lo..(n+1)
      BY <1>0, <2>2, <3>1
    <3>3. g[E(new) + 1] \in Seq(Seq(Runes))
      BY <2>1, <3>2
    <3>4. <<SubSeq(t, new, E(new))>> \in Seq(Seq(Runes))
      BY <3>1
    <3> QED
      BY <3>3, <3>4
  <2>4. h \in [new..(n+1) -> Seq(Seq(Runes))]
    <3> HIDE DEF new
    <3>1. \A i \in new..(n+1) : i # new => i \in lo..(n+1)
      BY <1>0, <2>2
    <3> QED
      BY <2>1, <2>3, <3>1
  <2>5. Good(h, new)
    <3> SUFFICES ASSUME NEW i \in new..(n+1)
                 PROVE  h[i] = IF i > n THEN <<>> ELSE <<SubSeq(t, i, E(i))>> \o h[E(i) + 1]
      OBVIOUS
    <3> HIDE DEF new
    <3>1. i \in 1..(n+1) /\ (i # new => i \in lo..(n+1))
      BY <1>0, <2>2
    <3>2. ASSUME ~(i > n) PROVE h[E(i) + 1] = g[E(i) + 1]
      <4>1. i \in 1..n
        BY <1>0, <3>1, <3>2
      <4>2. E(i) \in i..n
        BY <1>00, <4>1
      <4>3. E(i) + 1 \in new..(n+1) /\ E(i) + 1 # new
        BY <1>0, <2>2, <3>1, <4>2
      <4> QED
        BY <4>3
    <3>3. CASE i = new
      <4>1. ~(i > n) /\ h[i] = <<SubSeq(t, i, E(i))>> \o g[E(i) + 1]
        BY <1>0, <2>2, <3>3
      <4> QED
        BY <3>2, <4>1
    <3>4. CASE i # new
      <4>1. h[i] = g[i]
        BY <3>4
      <4>2. g[i] = IF i > n THEN <<>> ELSE <<SubSeq(t, i, E(i))>> \o g[E(i) + 1]
        BY <2>1, <3>1, <3>4
      <4> HIDE DEF h
      <4> QED
        BY <3>2, <4>1, <4>2
    <3> QED
      BY <3>3, <3>4
  <2> HIDE DEF h, Good
  <2> QED
    BY <2>2, <2>4, <2>5
<1>3. n + 1 \in T
  <2> HIDE DEF T
  <2>1. n + 1 \in Nat /\ 1 \in T /\ \A k \in 1..(n+1) : k \in T /\ k < n + 1 => k + 1 \in T
    BY <1>0, <1>1, <1>2
  <2>2. 1..(n+1) \subseteq T
    BY <2>1, Upwards
  <2>3. n + 1 \in 1..(n+1)
    BY <1>0
  <2> QED
    BY <2>2, <2>3
<1>4. PICK g \in [1..(n+1) -> Seq(Seq(Runes))] : Good(g, 1)
  <2>1. (n+2) - (n+1) = 1
    BY <1>0
  <2> QED
    BY <1>3, <2>1
<1> DEFINE ByChunk(f) == [i \in 1..(n+1) |-> IF i > n THEN <<>> ELSE <<SubSeq(t, i, E(i))>> \o f[E(i) + 1]]
           f == CHOOSE h : h = ByChunk(h)
<1>5. g = ByChunk(g)
  BY <1>4
<1>6. f = ByChunk(f)
  <2> HIDE DEF ByChunk
  <2> QED
    BY <1>5
<1>7. SplitChunks(t, gsm7, max) = f[1]
  BY DEF SplitChunks, n, E
<1> HIDE DEF f
<1>8. f[n + 1] = <<>>
  <2>1. n + 1 \in 1..(n+1) /\ n + 1 > n
    BY <1>0
  <2> QED
    BY <1>6, <2>1
<1>9. ASSUME NEW i \in 1..n PROVE f[i] = <<SubSeq(t, i, E(i))>> \o f[E(i) + 1]
  <2>1. i \in 1..(n+1) /\ ~(i > n)
    BY <1>0
  <2> QED
    BY <1>6, <2>1
<1> QED
  BY <1>7, <1>8, <1>9 DEF n, E

(* SplitChunks cuts the text into stretches that follow each other, and    *)
(* the last of them ends with the text.                                    *)
LEMMA ChunksSplit ==
  ASSUME NEW t \in Seq(Runes), NEW gsm7 \in BOOLEAN, NEW max \in Nat, max >= 2
  PROVE  \E st : SplitAt(t, gsm7, max, SplitChunks(t, gsm7, max), 1, st)
<1> DEFINE n == Len(t)
           E(i) == ChunkEnd(t, i, gsm7, max)
           Split(c, i) == \E st : SplitAt(t, gsm7, max, c, i, st)
<1>0. n \in Nat
  OBVIOUS
<1>1. PICK f : /\ SplitChunks(t, gsm7, max) = f[1]
               /\ f[n + 1] = <<>>
               /\ \A i \in 1..n : f[i] = <<SubSeq(t, i, E(i))>> \o f[E(i) + 1]
  BY ChunksDef
<1>2. \A i \in 1..n : E(i) \in i..n /\ SubSeq(t, i, E(i)) \in Seq(Runes)
  BY ChunkEndType
<1>3. Split(f[n + 1], n + 1)
  <2> DEFINE st == [k \in 0..0 |-> n]
  <2>1. <<>> \in Seq(Seq(Runes)) /\ Len(<<>>) = 0 /\ 1..0 = {}
    OBVIOUS
  <2>2. st \in [0..0 -> 0..Len(t)] /\ st[0] = (n + 1) - 1 /\ st[0] = Len(t)
    BY <1>0
  <2> HIDE DEF st
  <2>3. SplitAt(t, gsm7, max, <<>>, n + 1, st)
    BY <2>1, <2>2 DEF SplitAt
  <2> QED
    BY <1>1, <2>3
<1>4. ASSUME NEW i \in 1..n, Split(f[E(i) + 1], E(i) + 1) PROVE Split(f[i], i)
  <2> DEFINE e == E(i)
             c == f[e + 1]
             d == <<SubSeq(t, i, e)>> \o c
  <2>1. PICK st : SplitAt(t, gsm7, max, c, e + 1, st)
    BY <1>4
  <2>2. e \in i..n /\ SubSeq(t, i, e) \in Seq(Runes) /\ e \in Nat /\ i \in Nat /\ i >= 1 /\ (e + 1) - 1 = e /\ (i - 1) + 1 = i
    <3>1. e \in i..n /\ SubSeq(t, i, e) \in Seq(Runes)
      BY <1>2
    <3> HIDE DEF e
    <3> QED
      BY <1>0, <3>1
  <2>3. c \in Seq(Seq(Runes)) /\ st \in [0..Len(c) -> 0..n] /\ st[0] = e /\ st[Len(c)] = n
    BY <2>1, <2>2 DEF SplitAt
  <2>4. \A k \in 1..Len(c) : /\ st[k-1] + 1 \in 1..n
                             /\ st[k] = E(st[k-1] + 1)
                             /\ c[k] = SubSeq(t, st[k-1] + 1, st[k])
    BY <2>1 DEF SplitAt
  <2>5. f[i] = d
    BY <1>1
  <2>6. E(i) = e
    OBVIOUS
  <2> DEFINE m == Len(c)
             s2 == [k \in 0..(m + 1) |-> IF k = 0 THEN i - 1 ELSE st[k-1]]
  <2>7. m \in Nat
    BY <2>3
  <2> HIDE DEF E, e, c, n
  <2>8. d \in Seq(Seq(Runes)) /\ Len(d) = m + 1 /\ d[1] = SubSeq(t, i, e) /\ \A k \in 2..(m + 1) : d[k] = c[k-1]
    <3>1. <<SubSeq(t, i, e)>> \in Seq(Seq(Runes)) /\ Len(<<SubSeq(t, i, e)>>) = 1
      BY <2>2
    <3>2. /\ d \in Seq(Seq(Runes))
          /\ Len(d) = 1 + Len(c)
          /\ \A k \in 1 .. 1 + Len(c) : d[k] = IF k <= 1 THEN <<SubSeq(t, i, e)>>[k] ELSE c[k - 1]
      BY <2>3, <3>1, ConcatProperties
    <3> HIDE DEF d
    <3> QED
      BY <2>7, <3>2
  <2> HIDE DEF d, m
  <2>9. s2 \in [0..(m + 1) -> 0..n] /\ s2[0] = i - 1 /\ \A k \in 1..(m + 1) : s2[k] = st[k-1]
    <3>1. i - 1 \in 0..n
      BY <1>0, <2>2
    <3>2. \A k \in 0..(m + 1) : k # 0 => k - 1 \in 0..m
      BY <2>7
    <3>3. \A k \in 0..m : st[k] \in 0..n
      BY <2>3 DEF m
    <3> QED
      BY <2>7, <3>1, <3>2, <3>3
  <2> HIDE DEF s2
  <2>10. s2[m + 1] = n
    <3>1. m + 1 \in 1..(m + 1) /\ (m + 1) - 1 = m
      BY <2>7
    <3> QED
      BY <2>3, <2>9, <3>1 DEF m
  <2>11. ASSUME NEW k \in 1..(m + 1)
         PROVE  s2[k-1] + 1 \in 1..n /\ s2[k] = E(s2[k-1] + 1) /\ d[k] = SubSeq(t, s2[k-1] + 1, s2[k])
    <3>1. CASE k = 1
      <4>1. s2[k-1] = i - 1 /\ s2[k] = e
        BY <2>3, <2>7, <2>9, <3>1
      <4>2. s2[k-1] + 1 = i
        BY <2>2, <4>1
      <4> QED
        BY <2>6, <2>8, <3>1, <4>1, <4>2
    <3>2. CASE k # 1
      <4>1. k - 1 \in 1..m /\ k - 1 \in 1..(m + 1) /\ k \in 2..(m + 1)
        BY <2>7, <3>2
      <4>2. s2[k] = st[k-1] /\ s2[k-1] = st[(k-1)-1] /\ d[k] = c[k-1]
        BY <2>8, <2>9, <4>1
      <4> QED
        BY <2>4, <4>1, <4>2 DEF m
    <3> QED
      BY <3>1, <3>2
  <2>12. SplitAt(t, gsm7, max, d, i, s2)
    BY <2>8, <2>9, <2>10, <2>11 DEF SplitAt, E, n
  <2> QED
    BY <2>5, <2>12
<1> DEFINE T == {k \in 1..(n+1) : \A i \in ((n+2) - k)..(n+1) : Split(f[i], i)}
<1> HIDE DEF Split, E, n
<1>5. 1 \in T
  <2>1. \A i \in ((n+2) - 1)..(n+1) : i = n + 1
    BY <1>0
  <2>2. 1 \in 1..(n+1)
    BY <1>0
  <2> QED
    BY <1>3, <2>1, <2>2
<1>6. ASSUME NEW k \in 1..(n+1), k \in T, k < n + 1 PROVE k + 1 \in T
  <2> SUFFICES ASSUME NEW i \in ((n+2) - (k+1))..(n+1) PROVE Split(f[i], i)
    BY <1>0, <1>6
  <2>1. CASE i \in ((n+2) - k)..(n+1)
    BY <1>6, <2>1
  <2>2. CASE i = (n+2) - (k+1)
    <3>1. i \in 1..n
      BY <1>0, <1>6, <2>2
    <3>2. E(i) \in i..n
      BY <1>2, <3>1
    <3>3. E(i) + 1 \in ((n+2) - k)..(n+1)
      BY <1>0, <2>2, <3>1, <3>2
    <3> QED
      BY <1>4, <1>6, <3>1, <3>3
  <2> QED
    BY <1>0, <2>1, <2>2
<1>7. 1..(n+1) \subseteq T
  <2> HIDE DEF T
  <2>1. n + 1 \in Nat /\ 1 \in T /\ \A k \in 1..(n+1) : k \in T /\ k < n + 1 => k + 1 \in T
    BY <1>0, <1>5, <1>6
  <2> QED
    BY <2>1, Upwards
<1>8. n + 1 \in T
  <2> HIDE DEF T
  <2>1. n + 1 \in 1..(n+1)
    BY <1>0
  <2> QED
    BY <1>7, <2>1
<1>9. Split(f[1], 1)
  <2>1. 1 \in ((n+2) - (n+1))..(n+1)
    BY <1>0
  <2> QED
    BY <1>8, <2>1
<1> QED
  BY <1>1, <1>9 DEF Split

-----------------------------------------------------------------------------
(* User data.                                                              *)

(* The pieces of the text in UTF-16, and their type.                       *)
LEMMA UTF16Pieces ==
  ASSUME NEW t \in Seq(Runes)
  PROVE  /\ [i \in DOMAIN t |-> UTF16(t[i])] \in Seq(Seq(Words))
         /\ Len([i \in DOMAIN t |-> UTF16(t[i])]) = Len(t)
<1>1. ASSUME NEW r \in Runes PROVE UTF16(r) \in Seq(Words)
  <2>1. UTF16(r) \in Seq(Nat) /\ \A i \in 1..Len(UTF16(r)) : UTF16(r)[i] < 65536
    BY UTF16OfRune, SMT
  <2>2. \A i \in 1..Len(UTF16(r)) : UTF16(r)[i] \in Words
    BY <2>1, SMT DEF Words
  <2> QED
    BY <2>1, <2>2, SeqWithin
<1>2. \A i \in 1..Len(t) : UTF16(t[i]) \in Seq(Words)
  <2>1. \A i \in 1..Len(t) : t[i] \in Runes
    OBVIOUS
  <2> QED
    BY <1>1, <2>1
<1> QED
  BY <1>2

(* Units counts the code units that are written.                           *)
LEMMA UnitsLength ==
  ASSUME NEW t \in Seq(Runes)
  PROVE  Len(FlattenSeq([i \in DOMAIN t |-> UTF16(t[i])])) = Units(t)
<1> DEFINE n == Len(t)
           ss == [i \in DOMAIN t |-> UTF16(t[i])]
<1>0. n \in Nat /\ DOMAIN t = 1..n /\ (\A k \in 1..n : t[k] \in Runes) /\ SubSeq(t, 1, n) = t
  OBVIOUS
<1>1. ss \in Seq(Seq(Words)) /\ Len(ss) = n
  BY UTF16Pieces
<1>2. \A k \in 1..n : ss[k] = UTF16(t[k])
  BY <1>0
<1> HIDE DEF ss, n
<1>3. PICK end \in [0..n -> Nat] :
         /\ end[0] = 0
         /\ \A k \in 1..n : end[k] = end[k-1] + Len(ss[k])
         /\ Len(FlattenSeq(ss)) = end[n]
  BY <1>1, FlattenAt
<1>4. ASSUME NEW k \in 1..n
      PROVE  Units(SubSeq(t, 1, k)) = Units(SubSeq(t, 1, k - 1)) + Len(UTF16(t[k]))
  <2>1. 1 \in 1..Len(t) /\ k \in 1..Len(t) /\ 1 \in Nat /\ k - 1 \in Nat /\ k - 1 <= Len(t)
    BY <1>0 DEF n
  <2>2. SubSeq(t, 1, k) = SubSeq(t, 1, k - 1) \o <<t[k]>>
    BY <2>1, SubSeqRecursiveSecond
  <2>3. SubSeq(t, 1, k - 1) \in Seq(Runes)
    BY <2>1, SubSeqOfText
  <2> QED
    BY <1>0, <2>2, <2>3, UnitsMore
<1>5. Units(SubSeq(t, 1, 0)) = 0
  <2>1. SubSeq(t, 1, 0) = <<>>
    OBVIOUS
  <2> QED
    BY <2>1, UnitsType
<1> DEFINE T == {k \in 1..n : end[k] = Units(SubSeq(t, 1, k))}
<1>6. CASE n = 0
  BY <1>0, <1>3, <1>5, <1>6 DEF ss
<1>7. CASE n # 0
  <2>1. 1 \in T
    <3>1. 1 \in 1..n /\ 1 - 1 = 0
      BY <1>0, <1>7
    <3> QED
      BY <1>2, <1>3, <1>4, <1>5, <3>1
  <2>2. ASSUME NEW k \in 1..n, k \in T, k < n PROVE k + 1 \in T
    <3>1. k + 1 \in 1..n /\ (k + 1) - 1 = k
      BY <1>0, <2>2
    <3> QED
      BY <1>2, <1>3, <1>4, <2>2, <3>1
  <2>3. 1..n \subseteq T
    <3> HIDE DEF T
    <3> QED
      BY <1>0, <2>1, <2>2, Upwards
  <2>4. n \in T
    <3> HIDE DEF T
    <3>1. n \in 1..n
      BY <1>0, <1>7
    <3> QED
      BY <2>3, <3>1
  <2> QED
    BY <1>0, <1>3, <2>4 DEF ss
<1> QED
  BY <1>6, <1>7

(* Two octets for every code unit.                                         *)
LEMMA UCS2Encoded ==
  ASSUME NEW t \in Seq(Runes)
  PROVE  EncodeUCS2(t) \in Seq(Octets) /\ Len(EncodeUCS2(t)) = 2 * Units(t)
<1>1. PICK u : u = FlattenSeq([i \in DOMAIN t |-> UTF16(t[i])])
  OBVIOUS
<1>2. u \in Seq(Words) /\ Len(u) = Units(t)
  BY <1>1, UTF16Pieces, FlattenType, UnitsLength
<1> DEFINE B(w) == <<w \div 256, w % 256>>
           bs == [i \in DOMAIN u |-> B(u[i])]
<1>3. \A w \in Words : B(w) \in Seq(Octets) /\ Len(B(w)) = 2
  <2>1. \A w \in Words : w \div 256 \in Octets /\ w % 256 \in Octets
    BY SMT DEF Words, Octets
  <2> QED
    BY <2>1
<1>4. \A i \in 1..Len(u) : u[i] \in Words
  BY <1>2
<1>6. EncodeUCS2(t) = FlattenSeq(bs)
  BY <1>1 DEF EncodeUCS2
<1> HIDE DEF B
<1>5. bs \in Seq(Seq(Octets)) /\ Len(bs) = Len(u) /\ \A i \in 1..Len(bs) : Len(bs[i]) = 2
  <2>1. Len(u) \in Nat /\ bs = [i \in 1..Len(u) |-> B(u[i])]
    BY <1>2
  <2> HIDE DEF bs
  <2> QED
    BY <1>3, <1>4, <2>1
<1> HIDE DEF bs
<1> QED
  BY <1>2, <1>5, <1>6, FlattenType, FlattenLength

(* The headers: six octets and a bit of padding, or seven octets.          *)
LEMMA HeaderIs ==
  ASSUME NEW mr \in Words, NEW total \in Nat, NEW num \in Nat, NEW wide \in BOOLEAN
  PROVE  /\ Header(mr, total, num, wide) \in Seq(Octets)
         /\ wide => Len(Header(mr, total, num, wide)) = 7 /\ Pad(Header(mr, total, num, wide)) = 0
         /\ ~wide => Len(Header(mr, total, num, wide)) = 6 /\ Pad(Header(mr, total, num, wide)) = 1
         /\ Header(mr, total, num, wide) # <<>>
<1>1. Byte(total) \in Octets /\ Byte(num) \in Octets /\ Byte(mr) \in Octets /\ mr \div 256 \in Octets
  BY DEF Byte, Octets, Words
<1>2. 0 \in Octets /\ 3 \in Octets /\ 4 \in Octets /\ 5 \in Octets /\ 6 \in Octets /\ 8 \in Octets
  BY DEF Octets
<1>3. CASE wide
  <2>1. Header(mr, total, num, wide) = <<6, 8, 4, mr \div 256, Byte(mr), Byte(total), Byte(num)>>
    BY <1>3 DEF Header
  <2>0. <<6, 8, 4, mr \div 256, Byte(mr), Byte(total), Byte(num)>> # <<>>
    OBVIOUS
  <2>2. Len(<<6, 8, 4, mr \div 256, Byte(mr), Byte(total), Byte(num)>>) = 7
    OBVIOUS
  <2>3. <<6, 8, 4, mr \div 256, Byte(mr), Byte(total), Byte(num)>> \in Seq(Octets)
    BY <1>1, <1>2
  <2>4. (7 - ((8 * 7) % 7)) % 7 = 0
    OBVIOUS
  <2> QED
    BY <1>3, <2>0, <2>1, <2>2, <2>3, <2>4 DEF Pad
<1>4. CASE ~wide
  <2>1. Header(mr, total, num, wide) = <<5, 0, 3, Byte(mr), Byte(total), Byte(num)>>
    BY <1>4 DEF Header
  <2>0. <<5, 0, 3, Byte(mr), Byte(total), Byte(num)>> # <<>>
    OBVIOUS
  <2>2. Len(<<5, 0, 3, Byte(mr), Byte(total), Byte(num)>>) = 6
    OBVIOUS
  <2>3. <<5, 0, 3, Byte(mr), Byte(total), Byte(num)>> \in Seq(Octets)
    BY <1>1, <1>2
  <2>4. (7 - ((8 * 6) % 7)) % 7 = 1
    OBVIOUS
  <2> QED
    BY <1>4, <2>0, <2>1, <2>2, <2>3, <2>4 DEF Pad
<1> QED
  BY <1>3, <1>4

(* How long user data is behind a header.                                  *)
LEMMA UserDataLength ==
  ASSUME NEW udh \in Seq(Octets), Pad(udh) \in 0..6, NEW t \in Seq(Runes), NEW gsm7 \in BOOLEAN
  PROVE  /\ UserData(udh, t, gsm7).ud \in Seq(Octets)
         /\ gsm7 => UserData(udh, t, gsm7).ud = udh \o PackSeptets(EncodeGSM7(t), Pad(udh))
         /\ gsm7 /\ EncodeGSM7(t) # <<>> =>
              Len(UserData(udh, t, gsm7).ud) = Len(udh) + ((Pad(udh) + 7 * Len(EncodeGSM7(t)) + 7) \div 8)
         /\ ~gsm7 => /\ UserData(udh, t, gsm7).ud = udh \o EncodeUCS2(t)
                     /\ Len(UserData(udh, t, gsm7).ud) = Len(udh) + 2 * Units(t)
<1>1. PICK s : s = EncodeGSM7(t)
  OBVIOUS
<1>2. PICK u : u = EncodeUCS2(t)
  OBVIOUS
<1>3. PICK pad \in 0..6 : pad = Pad(udh)
  OBVIOUS
<1>4. s \in Seq(Septets) /\ u \in Seq(Octets) /\ Len(u) = 2 * Units(t)
  BY <1>1, <1>2, EncodedType, UCS2Encoded
<1>5. PackSeptets(s, pad) \in Seq(Octets) /\ (s # <<>> => Len(PackSeptets(s, pad)) = (pad + 7 * Len(s) + 7) \div 8)
  BY <1>4, PackedType, PackedOctets
<1>6. CASE gsm7
  <2>1. UserData(udh, t, gsm7).ud = udh \o PackSeptets(s, pad)
    BY <1>1, <1>3, <1>6 DEF UserData
  <2>2. udh \o PackSeptets(s, pad) \in Seq(Octets) /\ Len(udh \o PackSeptets(s, pad)) = Len(udh) + Len(PackSeptets(s, pad))
    BY <1>5, ConcatProperties
  <2> QED
    BY <1>1, <1>3, <1>5, <1>6, <2>1, <2>2
<1>7. CASE ~gsm7
  <2>1. UserData(udh, t, gsm7).ud = udh \o u
    BY <1>2, <1>7 DEF UserData
  <2>2. udh \o u \in Seq(Octets) /\ Len(udh \o u) = Len(udh) + Len(u)
    BY <1>4, ConcatProperties
  <2> QED
    BY <1>2, <1>4, <1>7, <2>1, <2>2
<1> QED
  BY <1>6, <1>7

(* The limits of a part, written out.                                      *)
LEMMA MaxUnitsIs ==
  ASSUME NEW gsm7 \in BOOLEAN, NEW wide \in BOOLEAN
  PROVE  /\ MaxUnits(gsm7, wide) \in Nat /\ MaxUnits(gsm7, wide) >= 2
         /\ gsm7 /\ wide => MaxUnits(gsm7, wide) = 152
         /\ gsm7 /\ ~wide => MaxUnits(gsm7, wide) = 153
         /\ ~gsm7 /\ wide => MaxUnits(gsm7, wide) = 66
         /\ ~gsm7 /\ ~wide => MaxUnits(gsm7, wide) = 67
<1>1. CASE gsm7 /\ wide
  BY <1>1 DEF MaxUnits
<1>2. CASE gsm7 /\ ~wide
  BY <1>2 DEF MaxUnits
<1>3. CASE ~gsm7 /\ wide
  BY <1>3 DEF MaxUnits
<1>4. CASE ~gsm7 /\ ~wide
  BY <1>4 DEF MaxUnits
<1> QED
  BY <1>1, <1>2, <1>3, <1>4

(* The parts of a message of several: the k-th carries the k-th chunk.     *)
LEMMA PartsOfMany ==
  ASSUME NEW t \in Seq(Runes), ~IsSingle(t), NEW a, NEW mr \in Words, NEW wide \in BOOLEAN,
         NEW gsm7 \in BOOLEAN, gsm7 = IsGSM7(t), NEW c, c = SplitChunks(t, gsm7, MaxUnits(gsm7, wide)),
         NEW ps, ps = EncodeSMS(t, a, mr, wide)
  PROVE  /\ c \in Seq(Seq(Runes)) /\ DOMAIN ps = 1..Len(c) /\ Len(ps) = Len(c)
         /\ \A k \in 1..Len(c) :
              /\ ps[k].address = a /\ ps[k].udhi /\ ps[k].dcs = IF gsm7 THEN 0 ELSE 8
              /\ ps[k].udl = UserData(Header(mr, Len(c), k, wide), c[k], gsm7).udl
              /\ ps[k].ud = UserData(Header(mr, Len(c), k, wide), c[k], gsm7).ud
<1>2. PICK max \in Nat : max = MaxUnits(gsm7, wide) /\ max >= 2
  BY MaxUnitsIs
<1>4. c \in Seq(Seq(Runes))
  BY <1>2, ChunksSplit DEF SplitAt
<1>5. Len(c) \in Nat /\ DOMAIN c = 1..Len(c)
  BY <1>4
<1> DEFINE Part(k) == LET udh == Header(mr, Len(c), k, wide)
                          d == UserData(udh, c[k], gsm7)
                      IN  [address |-> a, udhi |-> udh # <<>>, dcs |-> IF gsm7 THEN 0 ELSE 8, udl |-> d.udl, ud |-> d.ud]
<1>6. ps = [k \in 1..Len(c) |-> Part(k)]
  BY <1>5 DEF EncodeSMS
<1>7. ASSUME NEW k \in 1..Len(c)
      PROVE  /\ Part(k).address = a /\ Part(k).udhi /\ Part(k).dcs = IF gsm7 THEN 0 ELSE 8
             /\ Part(k).udl = UserData(Header(mr, Len(c), k, wide), c[k], gsm7).udl
             /\ Part(k).ud = UserData(Header(mr, Len(c), k, wide), c[k], gsm7).ud
  <2>1. Header(mr, Len(c), k, wide) # <<>>
    BY <1>5, HeaderIs
  <2> QED
    BY <2>1
<1> HIDE DEF Part
<1>8. DOMAIN ps = 1..Len(c) /\ Len(ps) = Len(c) /\ \A k \in 1..Len(c) : ps[k] = Part(k)
  BY <1>5, <1>6
<1> QED
  BY <1>4, <1>7, <1>8

(* The part of a message of one: it has no header.                         *)
LEMMA PartOfOne ==
  ASSUME NEW t \in Seq(Runes), IsSingle(t), NEW a, NEW mr, NEW wide
  PROVE  LET gsm7 == IsGSM7(t)
             d == UserData(<<>>, t, gsm7)
         IN  EncodeSMS(t, a, mr, wide) =
               <<[address |-> a, udhi |-> FALSE, dcs |-> IF gsm7 THEN 0 ELSE 8, udl |-> d.udl, ud |-> d.ud]>>
BY DEF EncodeSMS

(* No header, no padding.                                                  *)
LEMMA NoPad == Pad(<<>>) = 0 /\ Pad(<<>>) \in 0..6 /\ <<>> \in Seq(Octets) /\ Len(<<>>) = 0
BY DEF Pad

(* The padding is less than a septet.                                      *)
LEMMA PadType ==
  ASSUME NEW mr \in Words, NEW total \in Nat, NEW num \in Nat, NEW wide \in BOOLEAN
  PROVE  Pad(Header(mr, total, num, wide)) \in 0..6
<1>1. Pad(Header(mr, total, num, wide)) = 0 \/ Pad(Header(mr, total, num, wide)) = 1
  BY HeaderIs
<1> QED
  BY <1>1

(* A message of one part.                                                  *)
LEMMA OneFits ==
  ASSUME NEW t \in Seq(Runes), IsSingle(t), IsGSM7(t) => \A i \in DOMAIN t : t[i] \notin Extension
  PROVE  Len(UserData(<<>>, t, IsGSM7(t)).ud) <= 140
<1>1. PICK gsm7 \in BOOLEAN : gsm7 = IsGSM7(t)
  BY DEF IsGSM7
<1>2. CASE gsm7
  <2>1. PICK s : s = EncodeGSM7(t)
    OBVIOUS
  <2>2. s \in Seq(Septets) /\ Len(s) = Len(t) /\ Len(s) <= 160
    BY <1>1, <1>2, <2>1, EncodedLength, EncodedType DEF IsSingle
  <2>3. CASE s = <<>>
    <3>1. PackSeptets(s, 0) = <<>> /\ <<>> \o <<>> = <<>>
      BY <2>3 DEF PackSeptets
    <3>2. UserData(<<>>, t, gsm7).ud = <<>>
      BY <1>2, <2>1, <3>1, NoPad, UserDataLength
    <3> QED
      BY <1>1, <3>2
  <2>4. CASE s # <<>>
    <3>1. Len(UserData(<<>>, t, gsm7).ud) = 0 + ((0 + 7 * Len(s) + 7) \div 8)
      BY <1>2, <2>1, <2>4, NoPad, UserDataLength
    <3>2. Len(s) \in Nat
      BY <2>2
    <3> QED
      BY <1>1, <2>2, <3>1, <3>2
  <2> QED
    BY <2>3, <2>4
<1>3. CASE ~gsm7
  <2>1. Len(UserData(<<>>, t, gsm7).ud) = 0 + 2 * Units(t)
    BY <1>3, NoPad, UserDataLength
  <2>2. Units(t) \in Nat /\ Units(t) <= 70
    BY <1>1, <1>3, UnitsType DEF IsSingle
  <2> QED
    BY <1>1, <2>1, <2>2
<1> QED
  BY <1>2, <1>3

(* A chunk behind its header.                                              *)
LEMMA ChunkFits ==
  ASSUME NEW t \in Seq(Runes), NEW gsm7 \in BOOLEAN, gsm7 => \A i \in DOMAIN t : t[i] \notin Extension,
         NEW mr \in Words, NEW total \in Nat, NEW num \in Nat, NEW wide \in BOOLEAN,
         NEW start \in 1..Len(t), NEW e \in start..Len(t), e = ChunkEnd(t, start, gsm7, MaxUnits(gsm7, wide))
  PROVE  /\ Len(UserData(Header(mr, total, num, wide), SubSeq(t, start, e), gsm7).ud) <= 140
         /\ e < Len(t) => Len(UserData(Header(mr, total, num, wide), SubSeq(t, start, e), gsm7).ud) >= 137
<1>0. PICK max \in Nat : max = MaxUnits(gsm7, wide) /\ max >= 2
  BY MaxUnitsIs
<1>1. PICK udh : udh = Header(mr, total, num, wide)
  OBVIOUS
<1>2. PICK c : c = SubSeq(t, start, e)
  OBVIOUS
<1>3. udh \in Seq(Octets) /\ (wide => Len(udh) = 7 /\ Pad(udh) = 0) /\ (~wide => Len(udh) = 6 /\ Pad(udh) = 1)
  BY <1>1, HeaderIs
<1>33. Pad(udh) \in 0..6
  BY <1>1, PadType
<1>4. start \in Nat /\ e \in Nat /\ start >= 1 /\ e <= Len(t) /\ start <= e /\ Len(t) \in Nat
  OBVIOUS
<1>5. c \in Seq(Runes) /\ Len(c) = (e - start) + 1 /\ \A i \in 1..((e - start) + 1) : c[i] = t[(start + i) - 1]
  BY <1>2, <1>4, SubSeqOfText
<1>6. /\ e < start + max
      /\ gsm7 \/ Units(c) <= max
      /\ e < Len(t) => e + 1 = start + max \/ (~gsm7 /\ Units(SubSeq(t, start, e + 1)) > max)
  <2>1. e = ChunkEnd(t, start, gsm7, max)
    BY <1>0
  <2> QED
    BY <1>0, <1>2, <2>1, ChunkEndIs
<1> DEFINE n == Len(UserData(udh, c, gsm7).ud)
<1> SUFFICES n <= 140 /\ (e < Len(t) => n >= 137)
  BY <1>1, <1>2
<1>7. CASE gsm7
  <2>1. ASSUME NEW i \in DOMAIN c PROVE c[i] \notin Extension
    <3>1. i \in 1..((e - start) + 1)
      BY <1>5
    <3>2. (start + i) - 1 \in 1..Len(t)
      BY <1>4, <3>1
    <3>3. (start + i) - 1 \in DOMAIN t
      BY <3>2
    <3> QED
      BY <1>5, <1>7, <3>1, <3>3
  <2>2. Len(EncodeGSM7(c)) = Len(c) /\ EncodeGSM7(c) \in Seq(Septets)
    BY <1>5, <2>1, EncodedLength, EncodedType
  <2>3. PICK l \in Nat : l = Len(c) /\ l >= 1 /\ l <= max /\ (e < Len(t) => l = max)
    <3>1. Len(c) \in Nat /\ Len(c) >= 1
      BY <1>4, <1>5
    <3>2. Len(c) <= max
      BY <1>4, <1>5, <1>6
    <3>3. e < Len(t) => e + 1 = start + max
      BY <1>6, <1>7
    <3>4. e < Len(t) => Len(c) = max
      BY <1>4, <1>5, <3>3
    <3> QED
      BY <3>1, <3>2, <3>4
  <2>4. EncodeGSM7(c) # <<>>
    BY <2>2, <2>3
  <2>5. n = Len(udh) + ((Pad(udh) + 7 * l + 7) \div 8)
    BY <1>3, <1>33, <1>5, <1>7, <2>2, <2>3, <2>4, UserDataLength
  <2> HIDE DEF n
  <2>6. CASE wide
    <3>1. max = 152 /\ Len(udh) = 7 /\ Pad(udh) = 0
      BY <1>0, <1>3, <1>7, <2>6, MaxUnitsIs
    <3>2. n = 7 + ((0 + 7 * l + 7) \div 8) /\ l <= 152
      BY <2>3, <2>5, <3>1
    <3>3. n <= 140 /\ (l = 152 => n >= 137)
      BY <3>2
    <3> QED
      BY <2>3, <3>1, <3>3
  <2>7. CASE ~wide
    <3>1. max = 153 /\ Len(udh) = 6 /\ Pad(udh) = 1
      BY <1>0, <1>3, <1>7, <2>7, MaxUnitsIs
    <3>2. n = 6 + ((1 + 7 * l + 7) \div 8) /\ l <= 153
      BY <2>3, <2>5, <3>1
    <3>3. n <= 140 /\ (l = 153 => n >= 137)
      BY <3>2
    <3> QED
      BY <2>3, <3>1, <3>3
  <2> QED
    BY <2>6, <2>7
<1>8. CASE ~gsm7
  <2>1. n = Len(udh) + 2 * Units(c)
    BY <1>3, <1>33, <1>5, <1>8, UserDataLength
  <2>2. Units(c) \in Nat /\ Units(c) <= max /\ Units(c) >= Len(c)
    BY <1>5, <1>6, <1>8, UnitsType
  <2>3. ASSUME e < Len(t) PROVE Units(c) >= max - 1
    <3>1. CASE e + 1 = start + max
      <4>1. Len(c) = max
        BY <1>4, <1>5, <3>1
      <4> QED
        BY <2>2, <4>1
    <3>2. CASE Units(SubSeq(t, start, e + 1)) > max
      <4>1. start \in 1..Len(t) /\ e + 1 \in start..Len(t) /\ e + 1 \in 1..Len(t)
        BY <1>4, <2>3
      <4>2. SubSeq(t, start, e + 1) = c \o <<t[e + 1]>>
        <5>1. PICK m \in start..Len(t) : m = e + 1
          BY <4>1
        <5>2. m - 1 = e
          BY <1>4, <5>1
        <5>3. SubSeq(t, start, m) = SubSeq(t, start, m - 1) \o <<t[m]>>
          BY SubSeqRecursiveSecond
        <5> QED
          BY <1>2, <5>1, <5>2, <5>3
      <4>3. t[e + 1] \in Runes
        BY <4>1
      <4>4. PICK l \in 1..2 : Units(c \o <<t[e + 1]>>) = Units(c) + l
        BY <1>5, <4>3, UnitsMore
      <4>5. \A u, m \in Nat : \A q \in 1..2 : u + q > m => u >= m - 1
        OBVIOUS
      <4>6. Units(c) + l > max
        BY <3>2, <4>2, <4>4
      <4> QED
        BY <2>2, <4>5, <4>6
    <3> QED
      BY <1>6, <2>3, <3>1, <3>2
  <2> HIDE DEF n
  <2>4. CASE wide
    <3>1. max = 66 /\ Len(udh) = 7
      BY <1>0, <1>3, <1>8, <2>4, MaxUnitsIs
    <3> QED
      BY <2>1, <2>2, <2>3, <3>1
  <2>5. CASE ~wide
    <3>1. max = 67 /\ Len(udh) = 6
      BY <1>0, <1>3, <1>8, <2>5, MaxUnitsIs
    <3> QED
      BY <2>1, <2>2, <2>3, <3>1
  <2> QED
    BY <2>4, <2>5
<1> QED
  BY <1>7, <1>8

(* Every part is one that fits: the only one, or a chunk behind its        *)
(* header.                                                                 *)
LEMMA InvPartsFit == PDUInv => PartsFit
<1> SUFFICES ASSUME PDUInv, NEW k \in DOMAIN parts, IsGSM7(Text) => Range(Text) \cap Extension = {}
             PROVE  Fits(k) /\ (k < Len(parts) => Len(parts[k].ud) >= 137)
  BY DEF PartsFit
<1>0. step = "sent"
  <2>1. DOMAIN <<>> = {}
    OBVIOUS
  <2> QED
    BY <2>1 DEF PDUInv
<1>1. PICK t : t = Text
  OBVIOUS
<1>2. PICK a : a = EncodeAddress(number)
  OBVIOUS
<1>3. PICK mr \in Words, wide \in BOOLEAN : parts = EncodeSMS(t, a, mr, wide)
  BY <1>0, <1>1, <1>2, Zenon DEF PDUInv
<1>4. t \in Seq(Runes) /\ (IsGSM7(t) => \A i \in DOMAIN t : t[i] \notin Extension)
  BY <1>1, TextType DEF PDUInv, Range
<1>5. PICK ps : ps = parts /\ ps = EncodeSMS(t, a, mr, wide)
  BY <1>3
<1>6. CASE IsSingle(t)
  <2>1. PICK d : d = UserData(<<>>, t, IsGSM7(t))
    OBVIOUS
  <2>2. parts = <<[address |-> a, udhi |-> FALSE, dcs |-> IF IsGSM7(t) THEN 0 ELSE 8, udl |-> d.udl, ud |-> d.ud]>>
    BY <1>4, <1>5, <1>6, <2>1, PartOfOne
  <2>3. k = 1 /\ Len(parts) = 1 /\ parts[1].ud = d.ud
    BY <2>2
  <2>4. Len(d.ud) <= 140
    BY <1>4, <1>6, <2>1, OneFits
  <2> QED
    BY <2>3, <2>4 DEF Fits
<1>7. CASE ~IsSingle(t)
  <2>1. PICK gsm7 \in BOOLEAN : gsm7 = IsGSM7(t)
    BY DEF IsGSM7
  <2>2. PICK max \in Nat : max = MaxUnits(gsm7, wide) /\ max >= 2
    BY MaxUnitsIs
  <2>3. PICK c : c = SplitChunks(t, gsm7, max)
    OBVIOUS
  <2>4. PICK st : SplitAt(t, gsm7, max, c, 1, st)
    BY <1>4, <2>2, <2>3, ChunksSplit
  <2>5. /\ c \in Seq(Seq(Runes)) /\ DOMAIN parts = 1..Len(c) /\ Len(parts) = Len(c)
        /\ \A i \in 1..Len(c) : parts[i].ud = UserData(Header(mr, Len(c), i, wide), c[i], gsm7).ud
    <3>1. c = SplitChunks(t, gsm7, MaxUnits(gsm7, wide))
      BY <2>2, <2>3
    <3>2. ps = EncodeSMS(t, a, mr, wide)
      BY <1>5
    <3>3. /\ c \in Seq(Seq(Runes)) /\ DOMAIN ps = 1..Len(c) /\ Len(ps) = Len(c)
          /\ \A i \in 1..Len(c) : ps[i].ud = UserData(Header(mr, Len(c), i, wide), c[i], gsm7).ud
      BY <1>4, <1>7, <2>1, <3>1, <3>2, PartsOfMany
    <3> QED
      BY <1>5, <3>3
  <2>6. Len(c) \in Nat /\ k \in 1..Len(c) /\ k \in Nat
    BY <2>5
  <2>7. PICK start \in 1..Len(t), e \in 0..Len(t) :
          start = st[k-1] + 1 /\ e = st[k] /\ e = ChunkEnd(t, start, gsm7, max) /\ c[k] = SubSeq(t, start, e)
    <3>1. k \in 0..Len(c)
      BY <2>6
    <3>2. st[k] \in 0..Len(t)
      BY <2>4, <3>1 DEF SplitAt
    <3>3. /\ st[k-1] + 1 \in 1..Len(t)
          /\ st[k] = ChunkEnd(t, st[k-1] + 1, gsm7, max)
          /\ c[k] = SubSeq(t, st[k-1] + 1, st[k])
      BY <2>4, <2>6 DEF SplitAt
    <3> QED
      BY <3>2, <3>3
  <2>8. e \in start..Len(t)
    BY <1>4, <2>2, <2>7, ChunkEndType
  <2>9. k < Len(parts) => e < Len(t)
    <3> SUFFICES ASSUME k < Len(c) PROVE e < Len(t)
      BY <2>5
    <3>1. k + 1 \in 1..Len(c) /\ (k + 1) - 1 = k
      BY <2>6
    <3>2. st[k] + 1 \in 1..Len(t)
      BY <2>4, <3>1 DEF SplitAt
    <3> QED
      BY <2>7, <3>2
  <2>10. /\ Len(UserData(Header(mr, Len(c), k, wide), SubSeq(t, start, e), gsm7).ud) <= 140
         /\ e < Len(t) => Len(UserData(Header(mr, Len(c), k, wide), SubSeq(t, start, e), gsm7).ud) >= 137
    <3>1. e = ChunkEnd(t, start, gsm7, MaxUnits(gsm7, wide))
      BY <2>2, <2>7
    <3>2. gsm7 => \A i \in DOMAIN t : t[i] \notin Extension
      BY <1>4, <2>1
    <3> QED
      BY <1>4, <2>6, <2>8, <3>1, <3>2, ChunkFits
  <2> QED
    BY <2>5, <2>6, <2>7, <2>9, <2>10 DEF Fits
<1> QED
  BY <1>6, <1>7

(* No part is longer than 140 octets, and only the last one has room for   *)
(* more, unless the text is one of septets that needs the extension table. *)
THEOREM NoPartTooLong == PDUSpec => []PartsFit
BY EncodesOnce, InvPartsFit, PTL

(* The bits of a part behind its header.                                   *)
BitsBehind(ud, octets, t) ==
  LET s == EncodeGSM7(t)
      first == FirstBit(octets)
  IN  \A b \in 0..(7 * Len(s) - 1) : (first + b) \div 8 < Len(ud) /\ Bit(ud, first + b) = SeptetBit(s, b)

(* What is packed with the padding begins at the border of a septet.       *)
LEMMA BitsOfPart ==
  ASSUME NEW udh \in Seq(Octets), Len(udh) \in {0, 6, 7}, NEW t \in Seq(Runes)
  PROVE  BitsBehind(UserData(udh, t, TRUE).ud, Len(udh), t)
<1>1. PICK s \in Seq(Septets) : s = EncodeGSM7(t)
  BY EncodedType
<1>2. PICK n \in Nat, pad \in 0..6 : n = Len(udh) /\ pad = Pad(udh) /\ FirstBit(n) = 8 * n + pad
  <2>1. CASE Len(udh) = 0
    BY <2>1 DEF Pad, FirstBit
  <2>2. CASE Len(udh) = 6
    BY <2>2 DEF Pad, FirstBit
  <2>3. CASE Len(udh) = 7
    BY <2>3 DEF Pad, FirstBit
  <2> QED
    BY <2>1, <2>2, <2>3
<1>3. PICK x \in Seq(Octets) : x = PackSeptets(s, pad)
  BY PackedType
<1>4. PICK ud : ud = UserData(udh, t, TRUE).ud /\ ud = udh \o x
  BY <1>1, <1>2, <1>3 DEF UserData
<1>5. Len(ud) = n + Len(x) /\ \A i \in 1..Len(x) : ud[n + i] = x[i]
  <2>1. Len(udh \o x) = Len(udh) + Len(x) /\ \A i \in 1..Len(x) : (udh \o x)[Len(udh) + i] = x[i]
    BY <1>3, ConcatProperties
  <2> QED
    BY <1>2, <1>4, <2>1
<1>6. ASSUME NEW b \in 0..(7 * Len(s) - 1)
      PROVE  (FirstBit(n) + b) \div 8 < Len(ud) /\ Bit(ud, FirstBit(n) + b) = SeptetBit(s, b)
  <2>1. (pad + b) \div 8 < Len(x) /\ Bit(x, pad + b) = SeptetBit(s, b)
    BY <1>3, PackedBits
  <2>2. PICK j \in Nat, i \in 0..7 : j = (pad + b) \div 8 /\ i = (pad + b) % 8 /\ pad + b = 8 * j + i
    <3>1. PICK c \in Nat : c = pad + b
      BY <1>2
    <3>2. c \div 8 \in Nat /\ c % 8 \in 0..7 /\ c = (8 * (c \div 8)) + (c % 8)
      OBVIOUS
    <3> QED
      BY <3>1, <3>2
  <2>0. b \in Nat
    BY <1>1
  <2>a. PICK m \in Nat : m = n + j
    <3>1. n \in Nat /\ j \in Nat
      BY <1>2, <2>2
    <3> QED
      BY <3>1
  <2>3. PICK c \in Nat : c = FirstBit(n) + b /\ c = 8 * m + i
    <3>1. pad \in Nat /\ n \in Nat
      BY <1>2
    <3>4. j \in Nat /\ i \in Nat
      BY <2>2
    <3>2. FirstBit(n) = 8 * n + pad /\ pad + b = 8 * j + i
      BY <1>2, <2>2
    <3>3. FirstBit(n) + b = 8 * m + i /\ 8 * m + i \in Nat
      BY <2>0, <2>a, <3>1, <3>2, <3>4
    <3> QED
      BY <3>3
  <2>4. c \div 8 = n + j /\ c % 8 = i
    <3>1. (8 * m + i) \div 8 = m /\ (8 * m + i) % 8 = i
      BY <2>2, <2>a
    <3> QED
      BY <2>3, <2>a, <3>1
  <2>5. j < Len(x) /\ Len(x) \in Nat
    BY <2>1, <2>2
  <2>6. j + 1 \in 1..Len(x) /\ n + (j + 1) = (n + j) + 1
    BY <2>5
  <2>7. ud[(n + j) + 1] = x[j + 1]
    BY <1>5, <2>6
  <2>8. Bit(ud, c) = Bit(x, pad + b)
    BY <2>2, <2>4, <2>7 DEF Bit
  <2>9. c \div 8 < Len(ud)
    BY <1>5, <2>4, <2>5
  <2> QED
    BY <2>1, <2>3, <2>8, <2>9
<1> QED
  BY <1>1, <1>2, <1>4, <1>6 DEF BitsBehind

(* In the only part, or behind the header of each of several, the septets  *)
(* of the piece of the text.                                               *)
LEMMA InvPacked == PDUInv => PackedAsStandard
<1> SUFFICES ASSUME PDUInv, IsGSM7(Text), NEW k \in DOMAIN parts
             PROVE  BitsBehind(parts[k].ud, HeaderOctets(parts[k]), Chunks(TRUE)[k])
  BY DEF PackedAsStandard, BitsBehind
<1>1. PICK t, a, ps : t = Text /\ a = EncodeAddress(number) /\ ps = parts
  OBVIOUS
<1>2. step = "sent"
  <2>1. DOMAIN <<>> = {}
    OBVIOUS
  <2> QED
    BY <2>1 DEF PDUInv
<1>3. PICK mr \in Words, wide \in BOOLEAN : wide = wideRef /\ ps = EncodeSMS(t, a, mr, wide)
  BY <1>1, <1>2, Zenon DEF PDUInv
<1>4. t \in Seq(Runes)
  BY <1>1, TextType DEF PDUInv
<1>g. PICK g \in BOOLEAN : g = IsGSM7(t)
  BY DEF IsGSM7
<1>h. g = TRUE
  BY <1>1, <1>g
<1> DEFINE Goal == BitsBehind(ps[k].ud, HeaderOctets(ps[k]), Chunks(TRUE)[k])
<1>5. ASSUME IsSingle(t) PROVE Goal
  <2>1. PICK d : d = UserData(<<>>, t, TRUE)
    OBVIOUS
  <2>2. ps = <<[address |-> a, udhi |-> FALSE, dcs |-> 0, udl |-> d.udl, ud |-> d.ud]>>
    BY <1>3, <1>4, <1>5, <1>g, <1>h, <2>1, PartOfOne
  <2>3. k = 1 /\ ps[k].ud = d.ud /\ HeaderOctets(ps[k]) = 0
    BY <1>1, <2>2 DEF HeaderOctets
  <2>4. Chunks(TRUE)[k] = t
    BY <1>1, <1>5, <2>3 DEF Chunks
  <2>5. BitsBehind(d.ud, 0, t)
    <3>1. PICK udh \in Seq(Octets) : udh = <<>> /\ Len(udh) = 0 /\ Len(udh) \in {0, 6, 7}
      BY NoPad
    <3> QED
      BY <1>4, <2>1, <3>1, BitsOfPart
  <2> QED
    BY <2>3, <2>4, <2>5
<1>6. ASSUME ~IsSingle(t) PROVE Goal
  <2>1. PICK c : c = SplitChunks(t, g, MaxUnits(g, wide))
    OBVIOUS
  <2>2. /\ c \in Seq(Seq(Runes)) /\ DOMAIN ps = 1..Len(c)
        /\ \A i \in 1..Len(c) : ps[i].udhi /\ ps[i].ud = UserData(Header(mr, Len(c), i, wide), c[i], g).ud
    <3>1. ps = EncodeSMS(t, a, mr, wide)
      BY <1>3
    <3> QED
      BY <1>3, <1>4, <1>6, <1>g, <2>1, <3>1, PartsOfMany
  <2>3. PICK total \in Nat, num \in Nat, s \in Seq(Runes) : total = Len(c) /\ num = k /\ s = c[k] /\ k \in 1..Len(c)
    <3>1. k \in 1..Len(c)
      BY <1>1, <2>2
    <3>2. Len(c) \in Nat /\ k \in Nat /\ c[k] \in Seq(Runes)
      BY <2>2, <3>1
    <3> QED
      BY <3>1, <3>2, Zenon
  <2>4. PICK udh \in Seq(Octets) : udh = Header(mr, total, num, wide) /\ Len(udh) \in {0, 6, 7}
    BY HeaderIs
  <2>5. PICK ud : ud = ps[k].ud /\ ud = UserData(udh, s, TRUE).ud /\ ps[k].udhi
    BY <1>h, <2>2, <2>3, <2>4
  <2>6. BitsBehind(ud, Len(udh), s)
    BY <2>4, <2>5, BitsOfPart
  <2>7. HeaderOctets(ps[k]) = Len(udh)
    <3>1. PICK x \in Seq(Octets) : ud = udh \o x
      <4>1. PICK pad \in 0..6 : pad = Pad(udh)
        BY <2>4, PadType
      <4>2. ud = udh \o PackSeptets(EncodeGSM7(s), pad)
        BY <2>5, <4>1 DEF UserData
      <4>3. PackSeptets(EncodeGSM7(s), pad) \in Seq(Octets)
        BY EncodedType, PackedType
      <4> QED
        BY <4>2, <4>3
    <3>2. Len(udh) = 1 + udh[1] /\ Len(udh) \in Nat /\ Len(udh) >= 1
      <4>1. CASE wide
        BY <2>4, <4>1 DEF Header
      <4>2. CASE ~wide
        BY <2>4, <4>2 DEF Header
      <4> QED
        BY <4>1, <4>2
    <3>3. ud[1] = udh[1]
      BY <3>1, <3>2
    <3> QED
      BY <2>5, <3>2, <3>3 DEF HeaderOctets
  <2>8. Chunks(TRUE)[k] = s
    BY <1>1, <1>3, <1>6, <1>h, <2>1, <2>3 DEF Chunks
  <2> QED
    BY <2>5, <2>6, <2>7, <2>8
<1>7. Goal
  BY <1>5, <1>6
<1> QED
  BY <1>1, <1>7

(* PackSeptets puts the bits of the septets one after the other, low bits  *)
(* first, for every text and in every part, from the border of a septet on *)
(* that follows the header.                                                *)
THEOREM SeptetsAsTheStandardHasThem == PDUSpec => []PackedAsStandard
BY EncodesOnce, InvPacked, PTL

-----------------------------------------------------------------------------
(* Decoding.                                                               *)

(* Joining is associative.                                                 *)
JoinInAnyOrder(S) == \A a, b, d \in Seq(S) : (a \o b) \o d = a \o (b \o d)

LEMMA Associates ==
  ASSUME NEW S
  PROVE  JoinInAnyOrder(S)
<1> SUFFICES ASSUME NEW a \in Seq(S), NEW b \in Seq(S), NEW d \in Seq(S)
             PROVE  (a \o b) \o d = a \o (b \o d)
  BY DEF JoinInAnyOrder
<1>1. PICK la \in Nat, lb \in Nat, ld \in Nat : la = Len(a) /\ lb = Len(b) /\ ld = Len(d)
  OBVIOUS
<1>2. a \o b \in Seq(S) /\ b \o d \in Seq(S) /\ Len(a \o b) = la + lb /\ Len(b \o d) = lb + ld
  BY <1>1
<1> DEFINE p == (a \o b) \o d
           q == a \o (b \o d)
<1>3. p \in Seq(S) /\ q \in Seq(S) /\ Len(p) = (la + lb) + ld /\ Len(q) = la + (lb + ld)
  BY <1>1, <1>2
<1>4. ASSUME NEW i \in 1..Len(p) PROVE p[i] = q[i]
  <2>1. CASE i <= la
    BY <1>1, <1>2, <1>3, <2>1
  <2>2. CASE i > la /\ i <= la + lb
    BY <1>1, <1>2, <1>3, <2>2
  <2>3. CASE i > la + lb
    BY <1>1, <1>2, <1>3, <2>3
  <2> QED
    BY <1>1, <1>3, <2>1, <2>2, <2>3
<1>5. Len(p) = Len(q)
  BY <1>1, <1>3
<1> HIDE DEF p, q
<1>6. p = q
  BY <1>3, <1>4, <1>5
<1> QED
  BY <1>6 DEF p, q

(* Induction from zero.                                                    *)
LEMMA UpwardsFromZero ==
  ASSUME NEW n \in Nat, NEW T, 0 \in T, \A i \in 0..n : i \in T /\ i < n => i + 1 \in T
  PROVE  0..n \subseteq T
<1> DEFINE B == {i \in 0..n : i \notin T}
<1>1. SUFFICES ASSUME B # {} PROVE FALSE
  OBVIOUS
<1>2. B \subseteq Nat
  OBVIOUS
<1>3. PICK x \in B : \A y \in B : x <= y
  <2> HIDE DEF B
  <2> QED
    BY <1>1, <1>2, Smallest
<1>4. x # 0 /\ x - 1 \in 0..n /\ x - 1 \notin B
  BY <1>3
<1>5. x - 1 \in T /\ x - 1 < n
  BY <1>4
<1> QED
  BY <1>3, <1>4, <1>5

(* FlattenSeq, from the empty sequence on.                                 *)
LEMMA FlattenFromZero ==
  ASSUME NEW S, NEW seqs \in Seq(Seq(S))
  PROVE  \E f \in [0..Len(seqs) -> Seq(S)] :
           /\ f[0] = <<>> /\ FlattenSeq(seqs) = f[Len(seqs)]
           /\ \A i \in 1..Len(seqs) : f[i] = f[i-1] \o seqs[i]
<1>0. Len(seqs) \in Nat /\ <<>> \in Seq(S) /\ \A i \in 1..Len(seqs) : seqs[i] \in Seq(S)
  OBVIOUS
<1>1. CASE Len(seqs) = 0
  <2>1. seqs = <<>> /\ FlattenSeq(seqs) = <<>>
    BY <1>1 DEF FlattenSeq
  <2>2. [i \in 0..0 |-> <<>>] \in [0..0 -> Seq(S)] /\ [i \in 0..0 |-> <<>>][0] = <<>>
    BY <1>0
  <2>3. 0..Len(seqs) = 0..0 /\ 1..Len(seqs) = {}
    BY <1>1
  <2> QED
    BY <1>1, <2>1, <2>2, <2>3, Zenon
<1>2. CASE Len(seqs) # 0
  <2> DEFINE n == Len(seqs)
  <2>1. PICK f \in [1..n -> Seq(S)] :
           /\ FlattenSeq(seqs) = f[n]
           /\ f[1] = seqs[1]
           /\ \A i \in 1..n : i > 1 => f[i] = f[i-1] \o seqs[i]
    BY <1>2, FlattenDef
  <2>2. n \in Nat \ {0} /\ \A i \in 1..n : seqs[i] \in Seq(S)
    BY <1>0, <1>2
  <2> HIDE DEF n
  <2> DEFINE g == [i \in 0..n |-> IF i = 0 THEN <<>> ELSE f[i]]
  <2>3. g \in [0..n -> Seq(S)] /\ g[0] = <<>> /\ \A i \in 1..n : g[i] = f[i]
    BY <1>0, <2>1, <2>2
  <2> HIDE DEF g
  <2>4. ASSUME NEW i \in 1..n PROVE g[i] = g[i-1] \o seqs[i]
    <3>1. CASE i = 1
      <4>1. <<>> \o seqs[1] = seqs[1] /\ 1 - 1 = 0
        BY <2>2, <3>1, ConcatEmptySeq
      <4> QED
        BY <2>1, <2>3, <3>1, <4>1
    <3>2. CASE i > 1
      <4>1. i - 1 \in 1..n
        BY <2>2, <3>2
      <4>2. g[i] = f[i] /\ g[i-1] = f[i-1]
        BY <2>3, <4>1
      <4>3. f[i] = f[i-1] \o seqs[i]
        BY <2>1, <3>2
      <4> QED
        BY <4>2, <4>3
    <3>3. i = 1 \/ i > 1
      BY <2>2
    <3> QED
      BY <3>1, <3>2, <3>3, Zenon
  <2>5. FlattenSeq(seqs) = g[n]
    BY <2>1, <2>2, <2>3
  <2> QED
    BY <2>3, <2>4, <2>5 DEF n
<1> QED
  BY <1>1, <1>2

(* What was written as one or two symbols is read back from them.          *)
LEMMA Recovered ==
  ASSUME NEW S, NEW t \in Seq(S), NEW end \in [0..Len(t) -> Nat], end[0] = 0,
         NEW dec \in Seq(Seq(S)), Len(dec) = end[Len(t)],
         \A k \in 1..Len(t) :
            /\ end[k] <= end[Len(t)]
            /\ \/ end[k] = end[k-1] + 1 /\ dec[end[k-1] + 1] = <<t[k]>>
               \/ end[k] = end[k-1] + 2 /\ dec[end[k-1] + 1] \o dec[end[k-1] + 2] = <<t[k]>>
  PROVE  FlattenSeq(dec) = t
<1>7. JoinInAnyOrder(S)
  BY Associates
<1> DEFINE n == Len(t)
           N == Len(dec)
<1>0. n \in Nat /\ N \in Nat /\ (\A i \in 1..n : t[i] \in S) /\ (\A i \in 1..N : dec[i] \in Seq(S)) /\ end[n] = N
  OBVIOUS
<1>1. PICK g \in [0..N -> Seq(S)] :
         /\ g[0] = <<>> /\ FlattenSeq(dec) = g[N]
         /\ \A i \in 1..N : g[i] = g[i-1] \o dec[i]
  BY FlattenFromZero
<1>2. SubSeq(t, 1, 0) = <<>> /\ SubSeq(t, 1, n) = t
  OBVIOUS
<1>3. ASSUME NEW k \in 1..n PROVE SubSeq(t, 1, k) = SubSeq(t, 1, k - 1) \o <<t[k]>>
  <2>1. 1 \in 1..Len(t) /\ k \in 1..Len(t)
    BY <1>0
  <2> QED
    BY <2>1, SubSeqRecursiveSecond
<1> DEFINE T == {k \in 0..n : g[end[k]] = SubSeq(t, 1, k)}
<1>4. 0 \in T
  BY <1>0, <1>1, <1>2
<1>5. ASSUME NEW k \in 0..n, k \in T, k < n PROVE k + 1 \in T
  <2>1. k + 1 \in 1..n /\ (k + 1) - 1 = k /\ k + 1 \in 0..n
    BY <1>0, <1>5
  <2>2. SubSeq(t, 1, k + 1) = g[end[k]] \o <<t[k + 1]>>
    BY <1>3, <1>5, <2>1
  <2>3. PICK e \in Nat : e = end[k]
    OBVIOUS
  <2>4. /\ end[k + 1] <= N
        /\ \/ end[k + 1] = e + 1 /\ dec[e + 1] = <<t[k + 1]>>
           \/ end[k + 1] = e + 2 /\ dec[e + 1] \o dec[e + 2] = <<t[k + 1]>>
    BY <1>0, <2>1, <2>3
  <2>5. e + 1 \in 1..N /\ e \in 0..N /\ (e + 1) - 1 = e /\ (e + 2) - 1 = e + 1
    <3>0. (end[k + 1] = e + 1 \/ end[k + 1] = e + 2) /\ end[k + 1] <= N
      BY <2>4, Zenon
    <3> HIDE DEF N
    <3>1. e + 1 <= N
      BY <1>0, <3>0
    <3> QED
      BY <1>0, <3>1
  <2>6. g[e + 1] = g[e] \o dec[e + 1] /\ g[e] \in Seq(S) /\ dec[e + 1] \in Seq(S)
    BY <1>0, <1>1, <2>5
  <2>7. CASE end[k + 1] = e + 1 /\ dec[e + 1] = <<t[k + 1]>>
    <3>1. g[end[k + 1]] = SubSeq(t, 1, k + 1)
      BY <2>2, <2>3, <2>6, <2>7
    <3> QED
      BY <2>1, <3>1
  <2>8. CASE end[k + 1] = e + 2 /\ dec[e + 1] \o dec[e + 2] = <<t[k + 1]>>
    <3>1. e + 2 \in 1..N
      <4>1. e + 2 <= N
        BY <2>4, <2>8
      <4> HIDE DEF N
      <4> QED
        BY <1>0, <4>1
    <3>2. g[e + 2] = g[e + 1] \o dec[e + 2] /\ dec[e + 2] \in Seq(S)
      BY <1>0, <1>1, <2>5, <3>1
    <3>3. (g[e] \o dec[e + 1]) \o dec[e + 2] = g[e] \o (dec[e + 1] \o dec[e + 2])
      <4>1. PICK a \in Seq(S), b \in Seq(S), d \in Seq(S) : a = g[e] /\ b = dec[e + 1] /\ d = dec[e + 2]
        BY <2>6, <3>2
      <4>2. (a \o b) \o d = a \o (b \o d)
        BY <1>7 DEF JoinInAnyOrder
      <4> QED
        BY <4>1, <4>2
    <3>4. g[end[k + 1]] = SubSeq(t, 1, k + 1)
      BY <2>2, <2>3, <2>6, <2>8, <3>2, <3>3
    <3> QED
      BY <2>1, <3>4
  <2> QED
    BY <2>4, <2>7, <2>8
<1>6. n \in T
  <2> HIDE DEF T
  <2>1. 0..n \subseteq T
    BY <1>0, <1>4, <1>5, UpwardsFromZero
  <2>2. n \in 0..n
    BY <1>0
  <2> QED
    BY <2>1, <2>2
<1> QED
  BY <1>0, <1>1, <1>2, <1>6

(* The septets that an escape took: the recursive function of DecodeGSM7   *)
(* exists.                                                                 *)
LEMMA TakenDef ==
  ASSUME NEW s \in Seq(Septets)
  PROVE  \E f : f = [i \in DOMAIN s |-> i > 1 /\ s[i - 1] = ESC /\ ~f[i - 1]]
<1> DEFINE n == Len(s)
           Good(g, k) == g = [i \in 1..k |-> i > 1 /\ s[i - 1] = ESC /\ ~g[i - 1]]
           T == {k \in 0..n : \E g : Good(g, k)}
<1>0. n \in Nat /\ DOMAIN s = 1..n
  OBVIOUS
<1>1. 0 \in T
  <2> DEFINE g == [i \in 1..0 |-> TRUE]
  <2>1. Good(g, 0)
    <3>1. 1..0 = {}
      OBVIOUS
    <3> QED
      BY <3>1
  <2> HIDE DEF g, Good
  <2>2. 0 \in 0..n
    BY <1>0
  <2> QED
    BY <2>1, <2>2
<1>2. ASSUME NEW k \in 0..n, k \in T, k < n PROVE k + 1 \in T
  <2>1. PICK g : Good(g, k)
    BY <1>2
  <2> DEFINE last == k + 1 > 1 /\ s[k] = ESC /\ ~g[k]
             h == [i \in 1..(k + 1) |-> IF i = k + 1 THEN last ELSE g[i]]
  <2>2. k + 1 \in 0..n /\ k \in Nat /\ (k + 1) - 1 = k
    BY <1>0, <1>2
  <2>3. ASSUME NEW i \in 1..(k + 1) PROVE h[i] = (i > 1 /\ s[i - 1] = ESC /\ ~h[i - 1])
    <3>1. CASE i = k + 1
      <4>1. h[i] = last /\ i - 1 = k
        BY <2>2, <3>1
      <4>2. CASE k = 0
        <5>1. ~(i > 1) /\ ~last
          BY <2>2, <3>1, <4>2
        <5>2. last = FALSE
          BY <5>1
        <5> HIDE DEF last, h
        <5>3. (i > 1 /\ s[i - 1] = ESC /\ ~h[i - 1]) = FALSE
          BY <5>1, Zenon
        <5> QED
          BY <4>1, <5>2, <5>3, Zenon
      <4>3. CASE k # 0
        <5>1. k \in 1..(k + 1) /\ k # k + 1
          BY <2>2, <4>3
        <5>2. h[k] = g[k]
          BY <5>1
        <5> HIDE DEF h
        <5>3. (k + 1 > 1 /\ s[k] = ESC /\ ~g[k]) = (i > 1 /\ s[i - 1] = ESC /\ ~h[i - 1])
          BY <3>1, <4>1, <5>2
        <5> QED
          BY <4>1, <5>3
      <4> QED
        BY <4>2, <4>3
    <3>2. CASE i # k + 1
      <4>1. i \in 1..k /\ h[i] = g[i]
        BY <2>2, <3>2
      <4>2. g[i] = (i > 1 /\ s[i - 1] = ESC /\ ~g[i - 1])
        BY <2>1, <4>1, Zenon
      <4>3. i > 1 => h[i - 1] = g[i - 1]
        <5>1. i > 1 => i - 1 \in 1..(k + 1) /\ i - 1 # k + 1
          BY <2>2, <4>1
        <5> QED
          BY <5>1
      <4> HIDE DEF h
      <4> QED
        BY <4>1, <4>2, <4>3, Zenon
    <3> QED
      BY <3>1, <3>2
  <2>4. Good(h, k + 1)
    <3>1. h = [i \in 1..(k + 1) |-> h[i]]
      OBVIOUS
    <3> HIDE DEF h
    <3>2. [i \in 1..(k + 1) |-> h[i]] = [i \in 1..(k + 1) |-> i > 1 /\ s[i - 1] = ESC /\ ~h[i - 1]]
      BY <2>3, Zenon
    <3> QED
      BY <3>1, <3>2, Zenon
  <2> HIDE DEF h, Good
  <2> QED
    BY <2>2, <2>4
<1>3. n \in T
  <2> HIDE DEF T
  <2>1. 0..n \subseteq T
    BY <1>0, <1>1, <1>2, UpwardsFromZero
  <2> QED
    BY <1>0, <2>1
<1>4. PICK g : Good(g, n)
  BY <1>3
<1> QED
  BY <1>0, <1>4, Zenon

(* What DecodeGSM7 takes a septet for, given those that an escape took.    *)
RuneAt(s, f, i) ==
  CASE f[i] -> <<IF s[i] \in ExtensionCodes THEN 128 + s[i] ELSE ESC>>
    [] ~f[i] /\ s[i] = ESC /\ i < Len(s) -> <<>>
    [] OTHER -> <<s[i]>>

(* DecodeGSM7 with that function.                                          *)
LEMMA DecodeDef ==
  ASSUME NEW s \in Seq(Septets)
  PROVE  \E f : /\ \A i \in DOMAIN s : f[i] = (i > 1 /\ s[i - 1] = ESC /\ ~f[i - 1])
                /\ DecodeGSM7(s) = FlattenSeq([i \in DOMAIN s |-> RuneAt(s, f, i)])
<1> DEFINE f == CHOOSE h : h = [i \in DOMAIN s |-> i > 1 /\ s[i - 1] = ESC /\ ~h[i - 1]]
<1>1. f = [i \in DOMAIN s |-> i > 1 /\ s[i - 1] = ESC /\ ~f[i - 1]]
  BY TakenDef, Zenon
<1>2. DecodeGSM7(s) = FlattenSeq([i \in DOMAIN s |-> RuneAt(s, f, i)])
  BY DEF DecodeGSM7, RuneAt
<1> HIDE DEF f
<1>3. \A i \in DOMAIN s : f[i] = (i > 1 /\ s[i - 1] = ESC /\ ~f[i - 1])
  BY <1>1, Zenon
<1> QED
  BY <1>2, <1>3, Zenon

(* What a septet is taken for is a sequence of runes.                      *)
LEMMA RuneAtType ==
  ASSUME NEW s \in Seq(Septets), NEW f, NEW i \in DOMAIN s
  PROVE  /\ RuneAt(s, f, i) \in Seq(Nat)
         /\ ~f[i] /\ s[i] # ESC => RuneAt(s, f, i) = <<s[i]>>
         /\ ~f[i] /\ s[i] = ESC /\ i < Len(s) => RuneAt(s, f, i) = <<>>
         /\ f[i] /\ s[i] \in ExtensionCodes => RuneAt(s, f, i) = <<128 + s[i]>>
<1>1. s[i] \in Nat /\ ESC \in Nat
  <2>1. s[i] \in Septets
    OBVIOUS
  <2>2. \A x \in Septets : x \in Nat
    BY DEF Septets
  <2>3. ESC \in Nat
    BY DEF ESC
  <2> QED
    BY <2>1, <2>2, <2>3
<1>2. CASE f[i]
  <2>1. RuneAt(s, f, i) = <<IF s[i] \in ExtensionCodes THEN 128 + s[i] ELSE ESC>>
    BY <1>2 DEF RuneAt
  <2> QED
    BY <1>1, <1>2, <2>1
<1>3. CASE ~f[i] /\ s[i] = ESC /\ i < Len(s)
  <2>1. RuneAt(s, f, i) = <<>>
    BY <1>3 DEF RuneAt
  <2> QED
    BY <1>1, <1>3, <2>1
<1>4. CASE ~f[i] /\ ~(s[i] = ESC /\ i < Len(s))
  <2>1. RuneAt(s, f, i) = <<s[i]>>
    BY <1>4 DEF RuneAt
  <2> QED
    BY <1>1, <1>4, <2>1
<1> QED
  BY <1>2, <1>3, <1>4

(* A piece of the encoded text.                                            *)
PieceAt(t, s, end, k) ==
  \/ end[k] = end[k-1] + 1 /\ s[end[k-1] + 1] = t[k] /\ t[k] # ESC
  \/ /\ end[k] = end[k-1] + 2 /\ s[end[k-1] + 1] = ESC
     /\ s[end[k-1] + 2] = t[k] - 128 /\ t[k] - 128 \in ExtensionCodes /\ t[k] - 128 # ESC /\ 128 + (t[k] - 128) = t[k]

(* Where the runes of a text are in its septets.                           *)
LEMMA EncodedAt ==
  ASSUME NEW t \in Seq(Runes), IsGSM7(t)
  PROVE  \E end \in [0..Len(t) -> Nat] :
           /\ end[0] = 0 /\ Len(EncodeGSM7(t)) = end[Len(t)]
           /\ \A k \in 1..Len(t) : end[k] <= end[Len(t)] /\ PieceAt(t, EncodeGSM7(t), end, k)
<1> DEFINE ss == [i \in DOMAIN t |-> SeptetsOf(t[i])]
<1>1. ss \in Seq(Seq(Septets)) /\ Len(ss) = Len(t) /\ \A i \in DOMAIN t : t[i] \in Nat
  BY EncodedPieces
<1>2. PICK s : s = EncodeGSM7(t) /\ s = FlattenSeq(ss)
  BY DEF EncodeGSM7
<1>3. DOMAIN t = 1..Len(t) /\ \A k \in 1..Len(t) : ss[k] = SeptetsOf(t[k])
  OBVIOUS
<1> HIDE DEF ss
<1>4. PICK end \in [0..Len(ss) -> Nat] :
         /\ end[0] = 0
         /\ \A k \in 1..Len(ss) : end[k] = end[k-1] + Len(ss[k])
         /\ Len(FlattenSeq(ss)) = end[Len(ss)]
         /\ \A k \in 1..Len(ss) : /\ end[k] <= end[Len(ss)]
                                  /\ \A m \in 1..Len(ss[k]) : FlattenSeq(ss)[end[k-1] + m] = ss[k][m]
  BY <1>1, FlattenAt
<1>5. ASSUME NEW k \in 1..Len(t) PROVE PieceAt(t, s, end, k)
  <2>1. t[k] \in Nat /\ ss[k] = SeptetsOf(t[k]) /\ t[k] \in Basic \cup Extension
    BY <1>1, <1>3 DEF IsGSM7
  <2>2. /\ end[k] = end[k-1] + Len(ss[k])
        /\ \A m \in 1..Len(ss[k]) : s[end[k-1] + m] = ss[k][m]
    BY <1>1, <1>2, <1>4
  <2>3. CASE t[k] \in Extension
    <3>1. /\ Len(ss[k]) = 2 /\ ss[k][1] = ESC /\ ss[k][2] = t[k] - 128 /\ t[k] - 128 \in ExtensionCodes
          /\ t[k] - 128 # ESC /\ 128 + (t[k] - 128) = t[k]
      <4>1. PICK r \in Nat : r = t[k]
        BY <2>1
      <4>2. /\ Len(SeptetsOf(r)) = 2 /\ SeptetsOf(r)[1] = ESC /\ SeptetsOf(r)[2] = r - 128 /\ r - 128 \in ExtensionCodes
            /\ r - 128 # ESC /\ 128 + (r - 128) = r
        <5>1. r \in Extension
          BY <2>3, <4>1
        <5> QED
          BY <5>1, SeptetsOfRune
      <4> QED
        BY <2>1, <4>1, <4>2, Zenon
    <3>2. 1 \in 1..Len(ss[k]) /\ 2 \in 1..Len(ss[k])
      BY <3>1
    <3> QED
      BY <2>2, <3>1, <3>2, Zenon DEF PieceAt
  <2>4. CASE t[k] \in Basic /\ t[k] \notin Extension
    <3>1. Len(ss[k]) = 1 /\ ss[k][1] = t[k] /\ t[k] # ESC
      <4>1. PICK r \in Nat : r = t[k]
        BY <2>1
      <4>2. Len(SeptetsOf(r)) = 1 /\ SeptetsOf(r)[1] = r /\ r # ESC
        BY <2>4, <4>1, SeptetsOfRune, Zenon
      <4> QED
        BY <2>1, <4>1, <4>2, Zenon
    <3>2. 1 \in 1..Len(ss[k])
      BY <3>1
    <3> QED
      BY <2>2, <3>1, <3>2, Zenon DEF PieceAt
  <2> QED
    BY <2>1, <2>3, <2>4
<1> QED
  BY <1>1, <1>2, <1>4, <1>5

(* DecodeGSM7 undoes EncodeGSM7: no septet of a text is taken for an       *)
(* escape that is none, and none is taken twice.                           *)
LEMMA DecodedSeptets ==
  ASSUME NEW t \in Seq(Runes), IsGSM7(t)
  PROVE  DecodeGSM7(EncodeGSM7(t)) = t
<1>1. PICK n \in Nat, s \in Seq(Septets) : n = Len(t) /\ s = EncodeGSM7(t)
  BY EncodedType
<1>2. PICK end \in [0..n -> Nat] :
        /\ end[0] = 0 /\ Len(s) = end[n]
        /\ \A k \in 1..n : end[k] <= end[n] /\ PieceAt(t, s, end, k)
  BY <1>1, EncodedAt
<1>3. PICK f : /\ \A i \in DOMAIN s : f[i] = (i > 1 /\ s[i - 1] = ESC /\ ~f[i - 1])
               /\ DecodeGSM7(s) = FlattenSeq([i \in DOMAIN s |-> RuneAt(s, f, i)])
  BY DecodeDef
<1>4. t \in Seq(Nat) /\ DOMAIN s = 1..Len(s) /\ Len(s) \in Nat
  <2>1. \A i \in 1..Len(t) : t[i] \in Nat
    BY EncodedPieces
  <2>2. t \in Seq(Nat)
    BY <2>1, SeqWithin
  <2> QED
    BY <2>2
<1>5. ASSUME NEW k \in 1..n, end[k-1] > 0 PROVE s[end[k-1]] # ESC
  <2>1. k # 1
    BY <1>2, <1>5
  <2>2. PICK j \in 1..n : j = k - 1
    BY <1>1, <2>1
  <2>3. PieceAt(t, s, end, j)
    BY <1>2
  <2> QED
    BY <2>2, <2>3 DEF PieceAt
<1> DEFINE dec == [i \in DOMAIN s |-> RuneAt(s, f, i)]
<1>6. dec \in Seq(Seq(Nat)) /\ Len(dec) = Len(s) /\ \A i \in 1..Len(s) : dec[i] = RuneAt(s, f, i)
  BY <1>4, RuneAtType
<1>7. ASSUME NEW k \in 1..n
      PROVE  \/ end[k] = end[k-1] + 1 /\ dec[end[k-1] + 1] = <<t[k]>>
             \/ end[k] = end[k-1] + 2 /\ dec[end[k-1] + 1] \o dec[end[k-1] + 2] = <<t[k]>>
  <2> HIDE DEF dec
  <2>1. PICK e \in Nat : e = end[k-1]
    BY <1>1, <1>2
  <2>2. end[k] <= Len(s) /\ PieceAt(t, s, end, k)
    BY <1>2
  <2>3. ASSUME e + 1 \in 1..Len(s) PROVE ~f[e + 1]
    <3>1. f[e + 1] = (e + 1 > 1 /\ s[(e + 1) - 1] = ESC /\ ~f[(e + 1) - 1])
      BY <1>3, <1>4, <2>3, Zenon
    <3>2. e + 1 > 1 => s[(e + 1) - 1] # ESC
      <4>1. (e + 1) - 1 = e /\ (e + 1 > 1 => e > 0)
        OBVIOUS
      <4> QED
        BY <1>5, <2>1, <4>1
    <3> QED
      BY <3>1, <3>2, Zenon
  <2>4. CASE end[k] = e + 1 /\ s[e + 1] = t[k] /\ t[k] # ESC
    <3>1. e + 1 \in 1..Len(s) /\ e + 1 \in DOMAIN s
      BY <1>4, <2>2, <2>4
    <3>2. RuneAt(s, f, e + 1) = <<s[e + 1]>>
      BY <2>3, <2>4, <3>1, RuneAtType
    <3> QED
      BY <1>6, <2>1, <2>4, <3>1, <3>2, Zenon
  <2>5. CASE /\ end[k] = e + 2 /\ s[e + 1] = ESC
             /\ s[e + 2] = t[k] - 128 /\ t[k] - 128 \in ExtensionCodes /\ t[k] - 128 # ESC /\ 128 + (t[k] - 128) = t[k]
    <3>1. e + 1 \in 1..Len(s) /\ e + 1 \in DOMAIN s /\ e + 2 \in 1..Len(s) /\ e + 2 \in DOMAIN s /\ e + 1 < Len(s)
      BY <1>4, <2>2, <2>5
    <3>2. RuneAt(s, f, e + 1) = <<>>
      BY <2>3, <2>5, <3>1, RuneAtType
    <3>3. f[e + 2]
      <4>1. f[e + 2] = (e + 2 > 1 /\ s[(e + 2) - 1] = ESC /\ ~f[(e + 2) - 1])
        BY <1>3, <3>1, Zenon
      <4>2. e + 2 > 1 /\ (e + 2) - 1 = e + 1
        OBVIOUS
      <4>3. s[(e + 2) - 1] = ESC /\ ~f[(e + 2) - 1]
        BY <2>3, <2>5, <3>1, <4>2
      <4> QED
        BY <4>1, <4>2, <4>3, Zenon
    <3>4. RuneAt(s, f, e + 2) = <<128 + s[e + 2]>>
      BY <2>5, <3>1, <3>3, RuneAtType
    <3>5. dec[e + 1] = <<>> /\ dec[e + 2] = <<t[k]>>
      BY <1>6, <2>5, <3>1, <3>2, <3>4
    <3>6. <<>> \o <<t[k]>> = <<t[k]>>
      <4>1. <<t[k]>> \in Seq(Nat)
        BY <1>1, <1>4
      <4> QED
        BY <4>1, ConcatEmptySeq
    <3> QED
      BY <2>1, <2>5, <3>5, <3>6, Zenon
  <2> QED
    BY <2>1, <2>2, <2>4, <2>5, Zenon DEF PieceAt
<1> HIDE DEF dec
<1>8. FlattenSeq(dec) = t
  <2>1. \A k \in 1..Len(t) :
            /\ end[k] <= end[Len(t)]
            /\ \/ end[k] = end[k-1] + 1 /\ dec[end[k-1] + 1] = <<t[k]>>
               \/ end[k] = end[k-1] + 2 /\ dec[end[k-1] + 1] \o dec[end[k-1] + 2] = <<t[k]>>
    BY <1>1, <1>2, <1>7, Zenon
  <2>2. end \in [0..Len(t) -> Nat] /\ end[0] = 0 /\ Len(dec) = end[Len(t)]
    BY <1>1, <1>2, <1>6
  <2> QED
    BY <1>4, <1>6, <2>1, <2>2, Recovered
<1> QED
  BY <1>1, <1>3, <1>8 DEF dec

(* Two units that are a pair, and what FromUTF16 makes of a unit.          *)
PairAt(u, i) == i \in DOMAIN u /\ i + 1 \in DOMAIN u /\ IsHigh(u[i]) /\ IsLow(u[i + 1])
RuneOfUnit(u, i) ==
  CASE PairAt(u, i) -> <<FromPair(u[i], u[i + 1])>>
    [] PairAt(u, i - 1) -> <<>>
    [] OTHER -> <<Alone(u[i])>>

(* The three cases of a unit exclude each other.                           *)
LEMMA RuneOfUnitIs ==
  ASSUME NEW u \in Seq(Words), NEW i \in DOMAIN u
  PROVE  /\ RuneOfUnit(u, i) \in Seq(Nat)
         /\ PairAt(u, i) => RuneOfUnit(u, i) = <<FromPair(u[i], u[i + 1])>>
         /\ ~PairAt(u, i) /\ PairAt(u, i - 1) => RuneOfUnit(u, i) = <<>>
         /\ ~PairAt(u, i) /\ ~PairAt(u, i - 1) => RuneOfUnit(u, i) = <<Alone(u[i])>>
<1>1. \A w \in Words : w \in Nat
  BY DEF Words
<1>2. CASE PairAt(u, i)
  <2>0. ~PairAt(u, i - 1)
    <3>1. (i - 1) + 1 = i /\ u[i] \in Nat
      BY <1>1
    <3>2. \A w \in Nat : IsLow(w) => ~IsHigh(w)
      BY SMT DEF IsLow, IsHigh
    <3> QED
      BY <1>2, <3>1, <3>2, Zenon DEF PairAt
  <2>1. RuneOfUnit(u, i) = <<FromPair(u[i], u[i + 1])>>
    BY <1>2, <2>0 DEF RuneOfUnit
  <2>2. FromPair(u[i], u[i + 1]) \in Nat
    <3>1. PICK a \in Nat, b \in Nat : a = u[i] /\ b = u[i + 1] /\ IsHigh(a) /\ IsLow(b)
      BY <1>1, <1>2 DEF PairAt
    <3>2. FromPair(a, b) \in Nat
      BY <3>1, SMT DEF IsHigh, IsLow, FromPair
    <3> QED
      BY <3>1, <3>2, Zenon
  <2>3. PICK x \in Nat : x = FromPair(u[i], u[i + 1])
    BY <2>2, Zenon
  <2>4. <<x>> \in Seq(Nat)
    OBVIOUS
  <2> QED
    BY <1>2, <2>1, <2>3, <2>4, Zenon
<1>3. CASE ~PairAt(u, i) /\ PairAt(u, i - 1)
  <2>1. RuneOfUnit(u, i) = <<>>
    BY <1>3 DEF RuneOfUnit
  <2>2. <<>> \in Seq(Nat)
    OBVIOUS
  <2> QED
    BY <1>3, <2>1, <2>2, Zenon
<1>4. CASE ~PairAt(u, i) /\ ~PairAt(u, i - 1)
  <2>1. RuneOfUnit(u, i) = <<Alone(u[i])>>
    BY <1>4 DEF RuneOfUnit
  <2>2. PICK x \in Nat : x = Alone(u[i])
    BY <1>1, SMT DEF Alone
  <2>3. <<x>> \in Seq(Nat)
    OBVIOUS
  <2> QED
    BY <1>4, <2>1, <2>2, <2>3, Zenon
<1> QED
  BY <1>2, <1>3, <1>4, Zenon

(* What FromUTF16 joins, and its type.                                     *)
LEMMA RunesOfUnits ==
  ASSUME NEW u \in Seq(Words)
  PROVE  /\ [i \in DOMAIN u |-> RuneOfUnit(u, i)] \in Seq(Seq(Nat))
         /\ Len([i \in DOMAIN u |-> RuneOfUnit(u, i)]) = Len(u)
<1>1. DOMAIN u = 1..Len(u) /\ Len(u) \in Nat
  OBVIOUS
<1>2. \A i \in 1..Len(u) : RuneOfUnit(u, i) \in Seq(Nat)
  BY <1>1, RuneOfUnitIs, Zenon
<1> QED
  BY <1>1, <1>2

(* A piece of the text in UTF-16.                                          *)
UnitsAt(t, u, end, k) ==
  \/ end[k] = end[k-1] + 1 /\ u[end[k-1] + 1] = t[k] /\ ~IsHigh(t[k]) /\ ~IsLow(t[k])
  \/ /\ end[k] = end[k-1] + 2 /\ IsHigh(u[end[k-1] + 1]) /\ IsLow(u[end[k-1] + 2])
     /\ FromPair(u[end[k-1] + 1], u[end[k-1] + 2]) = t[k]

(* The units of a rune, and how they tell the rune.                        *)
LEMMA UTF16Piece ==
  ASSUME NEW r \in Runes
  PROVE  \/ Len(UTF16(r)) = 1 /\ UTF16(r)[1] = r /\ ~IsHigh(r) /\ ~IsLow(r)
         \/ Len(UTF16(r)) = 2 /\ IsHigh(UTF16(r)[1]) /\ IsLow(UTF16(r)[2]) /\ FromPair(UTF16(r)[1], UTF16(r)[2]) = r
<1>1. r > 65535 \/ r <= 65535
  BY SMT DEF Runes, IsRune
<1>2. CASE r > 65535
  BY <1>2, UTF16OfRune, SMT DEF FromPair
<1>3. CASE r <= 65535
  <2>1. UTF16(r) = <<r>> /\ Len(UTF16(r)) = 1 /\ ~IsHigh(r) /\ ~IsLow(r)
    BY <1>3, UTF16OfRune, SMT
  <2> QED
    BY <2>1, SMT
<1> QED
  BY <1>1, <1>2, <1>3, SMT

(* Where the runes of a text are in its units.                             *)
LEMMA UTF16At ==
  ASSUME NEW t \in Seq(Runes), NEW u, u = FlattenSeq([i \in DOMAIN t |-> UTF16(t[i])])
  PROVE  \E end \in [0..Len(t) -> Nat] :
           /\ end[0] = 0 /\ Len(u) = end[Len(t)]
           /\ \A k \in 1..Len(t) : end[k] <= end[Len(t)] /\ UnitsAt(t, u, end, k)
<1> DEFINE ss == [i \in DOMAIN t |-> UTF16(t[i])]
<1>1. ss \in Seq(Seq(Words)) /\ Len(ss) = Len(t) /\ u = FlattenSeq(ss)
  BY UTF16Pieces
<1>3. DOMAIN t = 1..Len(t) /\ \A k \in 1..Len(t) : ss[k] = UTF16(t[k]) /\ t[k] \in Runes
  OBVIOUS
<1> HIDE DEF ss
<1>4. PICK end \in [0..Len(ss) -> Nat] :
         /\ end[0] = 0
         /\ \A k \in 1..Len(ss) : end[k] = end[k-1] + Len(ss[k])
         /\ Len(FlattenSeq(ss)) = end[Len(ss)]
         /\ \A k \in 1..Len(ss) : /\ end[k] <= end[Len(ss)]
                                  /\ \A m \in 1..Len(ss[k]) : FlattenSeq(ss)[end[k-1] + m] = ss[k][m]
  BY <1>1, FlattenAt
<1>5. ASSUME NEW k \in 1..Len(t) PROVE UnitsAt(t, u, end, k)
  <2>1. PICK r \in Runes : r = t[k] /\ ss[k] = UTF16(r)
    BY <1>3
  <2>2. /\ end[k] = end[k-1] + Len(ss[k])
        /\ \A m \in 1..Len(ss[k]) : u[end[k-1] + m] = ss[k][m]
    BY <1>1, <1>4
  <2>3. \/ Len(ss[k]) = 1 /\ ss[k][1] = r /\ ~IsHigh(r) /\ ~IsLow(r)
        \/ Len(ss[k]) = 2 /\ IsHigh(ss[k][1]) /\ IsLow(ss[k][2]) /\ FromPair(ss[k][1], ss[k][2]) = r
    BY <2>1, UTF16Piece, Zenon
  <2>4. CASE Len(ss[k]) = 2 /\ IsHigh(ss[k][1]) /\ IsLow(ss[k][2]) /\ FromPair(ss[k][1], ss[k][2]) = r
    <3>1. 1 \in 1..Len(ss[k]) /\ 2 \in 1..Len(ss[k])
      BY <2>4
    <3>2. u[end[k-1] + 1] = ss[k][1] /\ u[end[k-1] + 2] = ss[k][2]
      BY <2>2, <3>1, Zenon
    <3> QED
      BY <2>1, <2>2, <2>4, <3>2, Zenon DEF UnitsAt
  <2>5. CASE Len(ss[k]) = 1 /\ ss[k][1] = r /\ ~IsHigh(r) /\ ~IsLow(r)
    <3>1. 1 \in 1..Len(ss[k])
      BY <2>5
    <3>2. u[end[k-1] + 1] = ss[k][1]
      BY <2>2, <3>1, Zenon
    <3> QED
      BY <2>1, <2>2, <2>5, <3>2, Zenon DEF UnitsAt
  <2> QED
    BY <2>3, <2>4, <2>5
<1> QED
  BY <1>1, <1>4, <1>5

(* FromUTF16 undoes UTF16: no half of a pair is taken for one of another   *)
(* pair.                                                                   *)
LEMMA DecodedUTF16 ==
  ASSUME NEW t \in Seq(Runes), NEW u \in Seq(Words), u = FlattenSeq([i \in DOMAIN t |-> UTF16(t[i])])
  PROVE  FromUTF16(u) = t
<1>1. PICK n \in Nat : n = Len(t)
  OBVIOUS
<1>2. PICK end \in [0..n -> Nat] :
        /\ end[0] = 0 /\ Len(u) = end[n]
        /\ \A k \in 1..n : end[k] <= end[n] /\ UnitsAt(t, u, end, k)
  BY <1>1, UTF16At
<1>4. t \in Seq(Nat) /\ DOMAIN u = 1..Len(u) /\ Len(u) \in Nat
  <2>1. \A i \in 1..Len(t) : t[i] \in Nat
    <3>1. \A i \in 1..Len(t) : t[i] \in Runes
      OBVIOUS
    <3>2. \A r \in Runes : r \in Nat
      BY DEF Runes
    <3> QED
      BY <3>1, <3>2
  <2>2. t \in Seq(Nat)
    BY <2>1, SeqWithin
  <2> QED
    BY <2>2
<1> DEFINE dec == [i \in DOMAIN u |-> RuneOfUnit(u, i)]
<1>5. FromUTF16(u) = FlattenSeq(dec)
  BY DEF FromUTF16, RuneOfUnit, PairAt
<1>6. dec \in Seq(Seq(Nat)) /\ Len(dec) = Len(u) /\ \A i \in 1..Len(u) : dec[i] = RuneOfUnit(u, i)
  <2>1. dec \in Seq(Seq(Nat)) /\ Len(dec) = Len(u)
    BY RunesOfUnits, Zenon
  <2>2. \A i \in 1..Len(u) : dec[i] = RuneOfUnit(u, i)
    BY <1>4, Zenon
  <2> QED
    BY <2>1, <2>2, Zenon
<1> HIDE DEF dec
<1>7. ASSUME NEW k \in 1..n
      PROVE  \/ end[k] = end[k-1] + 1 /\ dec[end[k-1] + 1] = <<t[k]>>
             \/ end[k] = end[k-1] + 2 /\ dec[end[k-1] + 1] \o dec[end[k-1] + 2] = <<t[k]>>
  <2>1. PICK e \in Nat : e = end[k-1]
    BY <1>1, <1>2
  <2>2. end[k] <= Len(u) /\ UnitsAt(t, u, end, k)
    BY <1>2
  <2>4. CASE end[k] = e + 1 /\ u[e + 1] = t[k] /\ ~IsHigh(t[k]) /\ ~IsLow(t[k])
    <3>1. e + 1 \in 1..Len(u) /\ e + 1 \in DOMAIN u /\ ((e + 1) - 1) + 1 = e + 1
      BY <1>4, <2>2, <2>4
    <3>2. ~PairAt(u, e + 1)
      BY <2>4, Zenon DEF PairAt
    <3>3. ~PairAt(u, (e + 1) - 1)
      BY <2>4, <3>1, Zenon DEF PairAt
    <3>4. RuneOfUnit(u, e + 1) = <<u[e + 1]>>
      <4>1. Alone(u[e + 1]) = u[e + 1]
        BY <2>4, SMT DEF Alone
      <4> QED
        BY <3>1, <3>2, <3>3, <4>1, RuneOfUnitIs, Zenon
    <3> QED
      BY <1>6, <2>1, <2>4, <3>1, <3>4, Zenon
  <2>5. CASE /\ end[k] = e + 2 /\ IsHigh(u[e + 1]) /\ IsLow(u[e + 2])
             /\ FromPair(u[e + 1], u[e + 2]) = t[k]
    <3>1. /\ e + 1 \in 1..Len(u) /\ e + 1 \in DOMAIN u /\ e + 2 \in 1..Len(u) /\ e + 2 \in DOMAIN u
          /\ (e + 2) - 1 = e + 1 /\ (e + 1) + 1 = e + 2
      BY <1>4, <2>2, <2>5
    <3>2. PairAt(u, e + 1)
      BY <2>5, <3>1, Zenon DEF PairAt
    <3>3. ~PairAt(u, e + 2)
      <4>1. \A w \in Words : IsLow(w) => ~IsHigh(w)
        BY SMT DEF Words, IsLow, IsHigh
      <4>2. u[e + 2] \in Words
        BY <3>1
      <4> QED
        BY <2>5, <4>1, <4>2, Zenon DEF PairAt
    <3>4. RuneOfUnit(u, e + 1) = <<t[k]>>
      BY <2>5, <3>1, <3>2, RuneOfUnitIs, Zenon
    <3>5. RuneOfUnit(u, e + 2) = <<>>
      BY <3>1, <3>2, <3>3, RuneOfUnitIs, Zenon
    <3>6. <<t[k]>> \o <<>> = <<t[k]>>
      <4>1. <<t[k]>> \in Seq(Nat)
        BY <1>1, <1>4
      <4> QED
        BY <4>1, ConcatEmptySeq
    <3>7. dec[e + 1] = <<t[k]>> /\ dec[e + 2] = <<>>
      BY <1>6, <3>1, <3>4, <3>5, Zenon
    <3> QED
      BY <2>1, <2>5, <3>6, <3>7, Zenon
  <2> QED
    BY <2>1, <2>2, <2>4, <2>5, Zenon DEF UnitsAt
<1>8. FlattenSeq(dec) = t
  <2>1. \A k \in 1..Len(t) :
            /\ end[k] <= end[Len(t)]
            /\ \/ end[k] = end[k-1] + 1 /\ dec[end[k-1] + 1] = <<t[k]>>
               \/ end[k] = end[k-1] + 2 /\ dec[end[k-1] + 1] \o dec[end[k-1] + 2] = <<t[k]>>
    BY <1>1, <1>2, <1>7, Zenon
  <2>2. end \in [0..Len(t) -> Nat] /\ end[0] = 0 /\ Len(dec) = end[Len(t)]
    BY <1>1, <1>2, <1>6
  <2> QED
    BY <1>4, <1>6, <2>1, <2>2, Recovered
<1> QED
  BY <1>5, <1>8, Zenon

(* Two octets after the other.                                             *)
LEMMA OfPairs ==
  ASSUME NEW n \in Nat, NEW ss \in Seq(Seq(Nat)), Len(ss) = n, \A i \in 1..n : Len(ss[i]) = 2,
         NEW b, b = FlattenSeq(ss)
  PROVE  Len(b) = 2 * n /\ \A k \in 1..n : b[2 * (k - 1) + 1] = ss[k][1] /\ b[2 * (k - 1) + 2] = ss[k][2]
<1>1. PICK c \in Nat : c = 2
  OBVIOUS
<1>2. \A k \in 1..Len(ss) : Len(ss[k]) = c
  BY <1>1
<1>3. /\ Len(FlattenSeq(ss)) = c * Len(ss)
      /\ \A k \in 1..Len(ss), m \in 1..c : FlattenSeq(ss)[c * (k - 1) + m] = ss[k][m]
  BY <1>2, FlattenLength, Zenon
<1>4. Len(b) = 2 * n
  BY <1>1, <1>3
<1>5. ASSUME NEW k \in 1..n PROVE b[2 * (k - 1) + 1] = ss[k][1] /\ b[2 * (k - 1) + 2] = ss[k][2]
  <2>1. 1 \in 1..c /\ 2 \in 1..c
    BY <1>1
  <2>2. FlattenSeq(ss)[c * (k - 1) + 1] = ss[k][1] /\ FlattenSeq(ss)[c * (k - 1) + 2] = ss[k][2]
    BY <1>3, <2>1, Zenon
  <2> QED
    BY <1>1, <2>2
<1> QED
  BY <1>4, <1>5

(* DecodeUCS2 undoes EncodeUCS2.                                           *)
LEMMA DecodedUCS2 ==
  ASSUME NEW t \in Seq(Runes)
  PROVE  DecodeUCS2(EncodeUCS2(t)) = t
<1>1. PICK u : u = FlattenSeq([i \in DOMAIN t |-> UTF16(t[i])])
  OBVIOUS
<1>2. u \in Seq(Words)
  BY <1>1, UTF16Pieces, FlattenType
<1>3. FromUTF16(u) = t
  BY <1>1, <1>2, DecodedUTF16
<1> DEFINE ss == [i \in DOMAIN u |-> <<u[i] \div 256, u[i] % 256>>]
<1>4. PICK b : b = EncodeUCS2(t) /\ b = FlattenSeq(ss)
  BY <1>1 DEF EncodeUCS2
<1>5. PICK n \in Nat : n = Len(u) /\ DOMAIN u = 1..n /\ \A i \in 1..n : u[i] \in Nat
  <2>1. \A w \in Words : w \in Nat
    BY DEF Words
  <2> QED
    BY <1>2, <2>1
<1>6. /\ ss \in Seq(Seq(Nat)) /\ Len(ss) = n
      /\ \A i \in 1..n : Len(ss[i]) = 2
  BY <1>5
<1>10. \A i \in 1..n : ss[i][1] = u[i] \div 256 /\ ss[i][2] = u[i] % 256
  BY <1>5
<1> HIDE DEF ss
<1>7. /\ Len(b) = 2 * n
      /\ \A k \in 1..n : b[2 * (k - 1) + 1] = ss[k][1] /\ b[2 * (k - 1) + 2] = ss[k][2]
  BY <1>4, <1>6, OfPairs, Zenon
<1>8. ASSUME NEW i \in 1..n PROVE 256 * b[2 * i - 1] + b[2 * i] = u[i]
  <2>1. b[2 * (i - 1) + 1] = u[i] \div 256 /\ b[2 * (i - 1) + 2] = u[i] % 256
    <3>1. b[2 * (i - 1) + 1] = ss[i][1] /\ b[2 * (i - 1) + 2] = ss[i][2]
      BY <1>7, Zenon
    <3>2. ss[i][1] = u[i] \div 256 /\ ss[i][2] = u[i] % 256
      BY <1>10
    <3> QED
      BY <3>1, <3>2
  <2>2. 2 * (i - 1) + 1 = 2 * i - 1 /\ 2 * (i - 1) + 2 = 2 * i
    OBVIOUS
  <2>3. PICK w \in Nat : w = u[i]
    BY <1>5
  <2>4. 256 * (w \div 256) + (w % 256) = w
    OBVIOUS
  <2> QED
    BY <2>1, <2>2, <2>3, <2>4
<1>9. [i \in 1..(Len(b) \div 2) |-> 256 * b[2 * i - 1] + b[2 * i]] = u
  <2>1. Len(b) \div 2 = n
    BY <1>7
  <2>2. u = [i \in 1..n |-> u[i]]
    BY <1>2, <1>5
  <2> QED
    BY <1>8, <2>1, <2>2, Zenon
<1> QED
  BY <1>3, <1>4, <1>9, Zenon DEF DecodeUCS2

-----------------------------------------------------------------------------
(* Addresses.                                                              *)

(* Digits.                                                                 *)
Numerals == 0..9

(* A number's digits, with the filler that makes them even.                *)
Padded(g, d) ==
  /\ d \in Seq(0..15) /\ Len(d) % 2 = 0 /\ Len(g) <= Len(d) /\ Len(d) <= Len(g) + 1
  /\ \A i \in 1..Len(d) : IF i <= Len(g) THEN d[i] = g[i] /\ d[i] <= 9 ELSE d[i] = 15

(* The filler makes them even.                                             *)
LEMMA DigitsPadded ==
  ASSUME NEW g \in Seq(Numerals), NEW d, d = IF Len(g) % 2 = 0 THEN g ELSE Append(g, 15)
  PROVE  Padded(g, d)
<1>1. PICK len \in Nat : len = Len(g) /\ g \in [1..len -> Numerals]
  OBVIOUS
<1>2. \A x \in Numerals : x \in 0..15 /\ x <= 9
  BY DEF Numerals
<1>3. CASE len % 2 = 0
  <2>1. d = g
    BY <1>1, <1>3
  <2>2. g \in Seq(0..15)
    BY <1>1, <1>2
  <2> QED
    BY <1>1, <1>2, <1>3, <2>1, <2>2 DEF Padded
<1>4. CASE len % 2 # 0
  <2>1. d = Append(g, 15)
    BY <1>1, <1>4
  <2>2. /\ Len(Append(g, 15)) = len + 1 /\ Append(g, 15)[len + 1] = 15
        /\ \A i \in 1..len : Append(g, 15)[i] = g[i]
    BY <1>1
  <2>3. g \in Seq(0..15)
    BY <1>1, <1>2
  <2>4. d \in Seq(0..15)
    BY <2>1, <2>3
  <2>5. (len + 1) % 2 = 0
    BY <1>4
  <2>6. Len(d) = len + 1
    BY <2>1, <2>2
  <2>7. ASSUME NEW i \in 1..Len(d) PROVE IF i <= Len(g) THEN d[i] = g[i] /\ d[i] <= 9 ELSE d[i] = 15
    <3>1. CASE i <= len
      <4>1. d[i] = g[i] /\ g[i] \in Numerals
        BY <1>1, <2>1, <2>2, <3>1
      <4> QED
        BY <1>1, <1>2, <3>1, <4>1
    <3>2. CASE i = len + 1
      BY <1>1, <2>1, <2>2, <3>2
    <3> QED
      BY <1>1, <2>6, <3>1, <3>2
  <2>8. Len(d) % 2 = 0 /\ Len(g) <= Len(d) /\ Len(d) <= Len(g) + 1
    <3>1. len <= len + 1 /\ len + 1 <= len + 1
      OBVIOUS
    <3> QED
      BY <1>1, <2>5, <2>6, <3>1, Zenon
  <2> QED
    BY <2>4, <2>7, <2>8, Zenon DEF Padded
<1> QED
  BY <1>3, <1>4

(* Leaving out what is no digit leaves the number.                         *)
LEMMA DigitsJoined ==
  ASSUME NEW g \in Seq(Numerals), NEW d, Padded(g, d),
         NEW ss, ss = [i \in 1..Len(d) |-> IF d[i] <= 9 THEN <<d[i]>> ELSE <<>>]
  PROVE  FlattenSeq(ss) = g
<1>1. PICK m \in Nat, len \in Nat : m = Len(d) /\ len = Len(g) /\ len <= m /\ m <= len + 1
  BY DEF Padded
<1>2. \A i \in 1..m : (i <= len => ss[i] = <<g[i]>> /\ g[i] \in Numerals) /\ (i > len => ss[i] = <<>>)
  BY <1>1 DEF Padded
<1>3. ss \in Seq(Seq(Numerals)) /\ Len(ss) = m
  <2>1. \A i \in 1..m : ss[i] \in Seq(Numerals)
    BY <1>1, <1>2
  <2>2. ss \in [1..m -> Seq(Numerals)]
    BY <1>1, <2>1
  <2> QED
    BY <1>1, <2>2
<1> DEFINE end == [i \in 0..m |-> IF i <= len THEN i ELSE len]
<1>4. end \in [0..Len(ss) -> 0..Len(g)] /\ end[0] = 0 /\ end[Len(ss)] = Len(g)
  BY <1>1, <1>3
<1>5. ASSUME NEW i \in 1..Len(ss) PROVE SubSeq(g, 1, end[i-1]) \o ss[i] = SubSeq(g, 1, end[i])
  <2>1. i \in 1..m /\ i - 1 \in 0..m /\ i \in 0..m
    BY <1>1, <1>3
  <2>2. CASE i <= len
    <3>1. end[i-1] = i - 1 /\ end[i] = i /\ ss[i] = <<g[i]>>
      BY <1>1, <1>2, <2>1, <2>2
    <3>2. 1 \in 1..Len(g) /\ i \in 1..Len(g)
      BY <1>1, <2>1, <2>2
    <3>3. SubSeq(g, 1, i) = SubSeq(g, 1, i - 1) \o <<g[i]>>
      BY <3>2, SubSeqRecursiveSecond
    <3> QED
      BY <3>1, <3>3
  <2>3. CASE i > len
    <3>1. end[i-1] = len /\ end[i] = len /\ ss[i] = <<>>
      BY <1>1, <1>2, <2>1, <2>3
    <3>2. SubSeq(g, 1, len) = g /\ g \o <<>> = g
      BY <1>1, ConcatEmptySeq
    <3> QED
      BY <3>1, <3>2
  <2>4. i <= len \/ i > len
    BY <1>1, <2>1
  <2> QED
    BY <2>2, <2>3, <2>4, Zenon
<1> HIDE DEF end
<1> QED
  BY <1>3, <1>4, <1>5, FlattenIs

(* DecodeAddress undoes EncodeAddress, as long as the digits can be        *)
(* counted in a byte.                                                      *)
LEMMA DecodedAddress ==
  ASSUME NEW n \in [plus : BOOLEAN, digits : Seq(Numerals)], Len(n.digits) <= 255
  PROVE  DecodeAddress(EncodeAddress(n)) = n
<1>1. PICK g \in Seq(Numerals) : g = n.digits
  OBVIOUS
<1>2. PICK d : d = IF Len(g) % 2 = 0 THEN g ELSE Append(g, 15)
  OBVIOUS
<1>3. Padded(g, d)
  BY <1>2, DigitsPadded, Zenon
<1>4. PICK m \in Nat : Len(d) = 2 * m /\ m = Len(d) \div 2
  BY <1>3 DEF Padded
<1> DEFINE bcd == [i \in 1..m |-> 16 * d[2 * i] + d[2 * i - 1]]
           a == [count |-> Byte(Len(g)), toa |-> IF n.plus THEN 145 ELSE 129, bcd |-> bcd]
           Nibble(i) == IF i % 2 = 1 THEN bcd[(i + 1) \div 2] % 16 ELSE bcd[i \div 2] \div 16
           ss == [i \in 1..(2 * m) |-> IF Nibble(i) <= 9 THEN <<Nibble(i)>> ELSE <<>>]
<1>5. EncodeAddress(n) = a
  BY <1>1, <1>2, <1>4 DEF EncodeAddress
<1>6. ASSUME NEW i \in 1..(2 * m) PROVE Nibble(i) = d[i]
  <2>1. \A j \in 1..(2 * m) : d[j] \in 0..15
    BY <1>3, <1>4 DEF Padded
  <2>2. CASE i % 2 = 1
    <3>1. PICK j \in 1..m : j = (i + 1) \div 2 /\ 2 * j - 1 = i /\ 2 * j \in 1..(2 * m)
      BY <2>2
    <3>2. bcd[j] = 16 * d[2 * j] + d[i]
      BY <3>1
    <3>3. PICK x \in 0..15, y \in 0..15 : x = d[2 * j] /\ y = d[i]
      BY <2>1, <3>1
    <3>4. (16 * x + y) % 16 = y
      OBVIOUS
    <3> HIDE DEF bcd
    <3> QED
      BY <2>2, <3>1, <3>2, <3>3, <3>4
  <2>3. CASE i % 2 # 1
    <3>1. PICK j \in 1..m : j = i \div 2 /\ 2 * j = i /\ i - 1 \in 1..(2 * m)
      BY <2>3
    <3>2. bcd[j] = 16 * d[i] + d[i - 1]
      BY <3>1
    <3>3. PICK x \in 0..15, y \in 0..15 : x = d[i] /\ y = d[i - 1]
      BY <2>1, <3>1
    <3>4. (16 * x + y) \div 16 = x
      OBVIOUS
    <3> HIDE DEF bcd
    <3> QED
      BY <2>3, <3>1, <3>2, <3>3, <3>4
  <2> QED
    BY <2>2, <2>3
<1>7. ss = [i \in 1..Len(d) |-> IF d[i] <= 9 THEN <<d[i]>> ELSE <<>>]
  <2> HIDE DEF Nibble
  <2> QED
    BY <1>4, <1>6
<1>8. FlattenSeq(ss) = g
  <2> HIDE DEF ss
  <2> QED
    BY <1>3, <1>7, DigitsJoined
<1>9. Len(bcd) = m
  BY <1>4
<1>10. DecodeAddress(a) = [plus |-> a.toa = 145, digits |-> SubSeq(FlattenSeq(ss), 1, a.count)]
  BY <1>9 DEF DecodeAddress
<1>11. a.count = Len(g) /\ (a.toa = 145) = n.plus
  BY <1>1 DEF Byte
<1>12. SubSeq(g, 1, Len(g)) = g
  OBVIOUS
<1> HIDE DEF a, ss
<1>13. DecodeAddress(a) = [plus |-> n.plus, digits |-> g]
  BY <1>8, <1>10, <1>11, <1>12
<1> QED
  BY <1>1, <1>5, <1>13

(* NormalizePhoneNumber makes a number of a number, never one longer than  *)
(* a byte counts.                                                          *)
LEMMA NormalizedNumber ==
  ASSUME NEW n \in [plus : BOOLEAN, digits : Seq(Numerals)], ~RefusedNumber(n)
  PROVE  /\ NormalizePhoneNumber(n) \in [plus : BOOLEAN, digits : Seq(Numerals)]
         /\ Len(NormalizePhoneNumber(n).digits) <= 255
<1>1. PICK d \in Seq(Numerals), len \in Nat : d = n.digits /\ len = Len(d)
  OBVIOUS
<1>2. len >= 2 /\ len <= 15
  <2>1. ~(len < 2) /\ ~(n.plus /\ len \notin 3..15) /\ ~(~n.plus /\ len > 15)
    BY <1>1, Zenon DEF RefusedNumber
  <2>2. CASE n.plus
    <3>1. len \in 3..15
      BY <2>1, <2>2, Zenon
    <3> QED
      BY <3>1
  <2>3. CASE ~n.plus
    BY <2>1, <2>3
  <2> QED
    BY <2>2, <2>3
<1>3. Prefix \in Seq(Numerals) /\ Len(Prefix) <= 5
  BY PDUAssumption DEF Numerals
<1>4. /\ <<7>> \o Tail(d) \in Seq(Numerals) /\ Len(<<7>> \o Tail(d)) <= 255
      /\ Prefix \o d \in Seq(Numerals) /\ Len(Prefix \o d) <= 255
  <2>1. <<7>> \in Seq(Numerals) /\ Len(<<7>>) = 1
    BY DEF Numerals
  <2>2. Tail(d) \in Seq(Numerals) /\ Len(Tail(d)) = len - 1
    BY <1>1, <1>2
  <2>3. <<7>> \o Tail(d) \in Seq(Numerals) /\ Len(<<7>> \o Tail(d)) = 1 + (len - 1)
    BY <2>1, <2>2
  <2>4. Prefix \o d \in Seq(Numerals) /\ Len(Prefix \o d) = Len(Prefix) + len /\ Len(Prefix) \in Nat
    BY <1>1, <1>3
  <2> QED
    BY <1>2, <1>3, <2>3, <2>4
<1>5. NormalizePhoneNumber(n) \in {n, [plus |-> TRUE, digits |-> <<7>> \o Tail(d)],
                                   [plus |-> TRUE, digits |-> Prefix \o d], [plus |-> TRUE, digits |-> d]}
  <2>1. n.plus \in BOOLEAN
    OBVIOUS
  <2> QED
    BY <1>1, <2>1 DEF NormalizePhoneNumber
<1>6. PICK x : x = NormalizePhoneNumber(n)
  OBVIOUS
<1>7. CASE x = n
  BY <1>1, <1>2, <1>6, <1>7
<1>8. ASSUME NEW s \in Seq(Numerals), Len(s) <= 255, x = [plus |-> TRUE, digits |-> s]
      PROVE  x \in [plus : BOOLEAN, digits : Seq(Numerals)] /\ Len(x.digits) <= 255
  BY <1>8
<1>9. d \in Seq(Numerals) /\ Len(d) <= 255
  BY <1>1, <1>2
<1> QED
  BY <1>4, <1>5, <1>6, <1>7, <1>8, <1>9

-----------------------------------------------------------------------------
(* A part, and all of them.                                                *)

(* What stands behind a header.                                            *)
LEMMA Behind ==
  ASSUME NEW a \in Seq(Octets), NEW b \in Seq(Octets)
  PROVE  SubSeq(a \o b, Len(a) + 1, Len(a \o b)) = b
<1>1. PICK la \in Nat, lb \in Nat : la = Len(a) /\ lb = Len(b)
  OBVIOUS
<1>2. Len(a \o b) = la + lb
  BY <1>1
<1> DEFINE y == SubSeq(a \o b, la + 1, la + lb)
<1>3. y \in Seq(Octets) /\ Len(y) = lb
  BY <1>1
<1>4. ASSUME NEW i \in 1..lb PROVE y[i] = b[i]
  <2>1. y[i] = (a \o b)[la + i]
    BY <1>1
  <2>2. (a \o b)[la + i] = b[i]
    BY <1>1
  <2> QED
    BY <2>1, <2>2
<1> HIDE DEF y
<1>5. y = b
  BY <1>1, <1>3, <1>4
<1> QED
  BY <1>1, <1>2, <1>5 DEF y

(* The chunks of a text, one after the other.                              *)
LEMMA ChunksJoined ==
  ASSUME NEW t \in Seq(Runes), NEW gsm7 \in BOOLEAN, NEW max \in Nat, max >= 2
  PROVE  FlattenSeq(SplitChunks(t, gsm7, max)) = t
<1>1. PICK c : c = SplitChunks(t, gsm7, max)
  OBVIOUS
<1>2. PICK st : SplitAt(t, gsm7, max, c, 1, st)
  BY <1>1, ChunksSplit
<1>3. PICK n \in Nat, len \in Nat : n = Len(c) /\ len = Len(t)
  BY <1>2 DEF SplitAt
<1>4. c \in Seq(Seq(Runes)) /\ st \in [0..n -> 0..len] /\ st[0] = 0 /\ st[n] = len
  BY <1>2, <1>3 DEF SplitAt
<1>5. ASSUME NEW i \in 1..n PROVE SubSeq(t, 1, st[i-1]) \o c[i] = SubSeq(t, 1, st[i])
  <2>1. PICK a \in 0..len, b \in 0..len : a = st[i-1] /\ b = st[i]
    <3>1. i - 1 \in 0..n /\ i \in 0..n
      OBVIOUS
    <3>2. st[i-1] \in 0..len /\ st[i] \in 0..len
      BY <1>4, <3>1
    <3> QED
      BY <3>2, Zenon
  <2>2. a + 1 \in 1..Len(t) /\ b = ChunkEnd(t, a + 1, gsm7, max) /\ c[i] = SubSeq(t, a + 1, b)
    BY <1>2, <1>3, <2>1 DEF SplitAt
  <2>3. b \in (a + 1)..Len(t)
    BY <2>2, ChunkEndType
  <2>4. SubSeq(t, 1, a) \o SubSeq(t, a + 1, b) = SubSeq(t, 1, b)
    <3>1. 1 \in 1..(Len(t) + 1) /\ a \in (1 - 1)..Len(t) /\ b \in a..Len(t)
      BY <1>3, <2>3
    <3> QED
      BY <3>1, ConcatAdjacentSubSeq
  <2> QED
    BY <2>1, <2>2, <2>4
<1> QED
  BY <1>1, <1>3, <1>4, <1>5, FlattenIs

(* A part with a text and a header, of a length the network takes.         *)
PartOf(p, udh, t, gsm7) ==
  /\ p.ud = UserData(udh, t, gsm7).ud /\ p.udl = UserData(udh, t, gsm7).udl
  /\ p.dcs = (IF gsm7 THEN 0 ELSE 8) /\ Len(p.ud) <= 140

(* What UserData writes for a text, TextAfter reads, whenever it fits.     *)
LEMMA TextOfPart ==
  ASSUME NEW udh \in Seq(Octets), Len(udh) \in {0, 6, 7}, NEW t \in Seq(Runes), NEW gsm7 \in BOOLEAN, gsm7 => IsGSM7(t),
         NEW p, PartOf(p, udh, t, gsm7)
  PROVE  TextAfter(p, Len(udh)) = t
<1> USE DEF PartOf
<1>1. PICK L \in Nat : L = Len(udh) /\ L \in {0, 6, 7}
  OBVIOUS
<1>2. PICK pad \in 0..6 : pad = Pad(udh) /\ pad = (7 - ((8 * L) % 7)) % 7
  BY <1>1 DEF Pad
<1>3. PICK rest : rest = SubSeq(p.ud, Len(udh) + 1, Len(p.ud))
  OBVIOUS
<1>4. CASE ~gsm7
  <2>1. p.ud = udh \o EncodeUCS2(t) /\ p.dcs = 8
    BY <1>2, <1>4, UserDataLength
  <2>2. EncodeUCS2(t) \in Seq(Octets)
    BY UCS2Encoded
  <2>3. rest = EncodeUCS2(t)
    BY <1>3, <2>1, <2>2, Behind
  <2>4. TextAfter(p, Len(udh)) = DecodeUCS2(rest)
    BY <1>3, <2>1 DEF TextAfter
  <2> QED
    BY <2>3, <2>4, DecodedUCS2
<1>5. CASE gsm7
  <2>1. PICK s \in Seq(Septets) : s = EncodeGSM7(t)
    BY EncodedType
  <2>2. p.ud = udh \o PackSeptets(s, pad) /\ p.dcs = 0
    BY <1>2, <1>5, <2>1, UserDataLength
  <2>3. PackSeptets(s, pad) \in Seq(Octets)
    BY PackedType
  <2>4. rest = PackSeptets(s, pad)
    BY <1>3, <2>2, <2>3, Behind
  <2>5. PICK n \in Nat : n = Len(s)
    OBVIOUS
  <2>6. L + ((pad + 7 * n + 7) \div 8) <= 140 \/ n = 0
    <3>1. CASE s = <<>>
      BY <2>5, <3>1
    <3>2. CASE s # <<>>
      <4>1. Len(UserData(udh, t, gsm7).ud) = Len(udh) + ((Pad(udh) + 7 * Len(EncodeGSM7(t)) + 7) \div 8)
        BY <1>2, <1>5, <2>1, <3>2, UserDataLength
      <4> QED
        BY <1>1, <1>2, <2>1, <2>5, <4>1
    <3> QED
      BY <3>1, <3>2
  <2>7. ((8 * L + pad) \div 7) + n <= 255
    <3>1. (L = 0 /\ pad = 0) \/ (L = 6 /\ pad = 1) \/ (L = 7 /\ pad = 0)
      <4>1. (7 - ((8 * 0) % 7)) % 7 = 0 /\ (7 - ((8 * 6) % 7)) % 7 = 1 /\ (7 - ((8 * 7) % 7)) % 7 = 0
        OBVIOUS
      <4>2. L = 0 \/ L = 6 \/ L = 7
        BY <1>1
      <4> QED
        BY <1>2, <4>1, <4>2, Zenon
    <3>2. \A q \in Nat : (q \div 8) <= 140 => q < 1128
      OBVIOUS
    <3>3. n <= 200
      BY <2>6, <3>1, <3>2
    <3>4. (8 * L + pad) \div 7 <= 8
      BY <3>1
    <3> QED
      BY <3>1, <3>3, <3>4
  <2>8. p.udl = ((8 * L + pad) \div 7) + n
    <3>1. UserData(udh, t, gsm7).udl = Byte(((8 * Len(udh) + Pad(udh)) \div 7) + Len(EncodeGSM7(t)))
      BY <1>5 DEF UserData
    <3>2. Byte(((8 * L + pad) \div 7) + n) = ((8 * L + pad) \div 7) + n
      <4>1. PICK x \in Nat : x = ((8 * L + pad) \div 7) + n
        OBVIOUS
      <4>2. x % 256 = x
        BY <2>7, <4>1
      <4> QED
        BY <4>1, <4>2 DEF Byte
    <3> QED
      BY <1>1, <1>2, <2>1, <2>5, <3>1, <3>2
  <2>9. p.udl - ((8 * L + pad) \div 7) = n
    BY <1>1, <1>2, <2>8
  <2>10. TextAfter(p, L) = DecodeGSM7(UnpackSeptets(rest, n, pad))
    <3>1. p.dcs # 8
      BY <2>2
    <3>2. (IF n > 0 THEN n ELSE 0) = n
      OBVIOUS
    <3>3. TextAfter(p, L) = DecodeGSM7(UnpackSeptets(rest, IF p.udl - ((8 * L + pad) \div 7) > 0 THEN p.udl - ((8 * L + pad) \div 7) ELSE 0, pad))
      BY <1>1, <1>2, <1>3, <3>1 DEF TextAfter
    <3> QED
      BY <2>9, <3>2, <3>3
  <2>11. UnpackSeptets(rest, n, pad) = s
    BY <2>4, <2>5, UnpackedIsPacked
  <2>12. DecodeGSM7(s) = t
    BY <1>5, <2>1, DecodedSeptets
  <2> QED
    BY <1>1, <2>10, <2>11, <2>12
<1> QED
  BY <1>4, <1>5

(* A part without a header, which says it is alone.                        *)
LEMMA DecodedSingle ==
  ASSUME NEW t \in Seq(Runes), NEW gsm7 \in BOOLEAN, gsm7 => IsGSM7(t),
         NEW p, ~p.udhi, PartOf(p, <<>>, t, gsm7)
  PROVE  DecodeSMS(p).total = 0 /\ DecodeSMS(p).text = t /\ DecodeSMS(p).from = DecodeAddress(p.address)
<1>1. PICK udh \in Seq(Octets) : udh = <<>> /\ Len(udh) = 0 /\ Len(udh) \in {0, 6, 7}
  BY NoPad
<1>2. TextAfter(p, Len(udh)) = t
  BY <1>1, TextOfPart
<1>3. DecodeSMS(p).total = 0 /\ DecodeSMS(p).text = TextAfter(p, 0) /\ DecodeSMS(p).from = DecodeAddress(p.address)
  BY DEF DecodeSMS
<1> QED
  BY <1>1, <1>2, <1>3

(* A part with either header: the low octet of its reference, its number   *)
(* and how many there are, as bytes, its text and its address.             *)
LEMMA DecodedPart ==
  ASSUME NEW mr \in Words, NEW total \in Nat, NEW num \in Nat, NEW wide \in BOOLEAN,
         NEW t \in Seq(Runes), NEW gsm7 \in BOOLEAN, gsm7 => IsGSM7(t),
         NEW udh, udh = Header(mr, total, num, wide),
         NEW p, p.udhi, PartOf(p, udh, t, gsm7)
  PROVE  /\ DecodeSMS(p).num = Byte(num) /\ DecodeSMS(p).total = Byte(total) /\ DecodeSMS(p).ref = Byte(mr)
         /\ DecodeSMS(p).text = t /\ DecodeSMS(p).from = DecodeAddress(p.address)
<1>1. udh \in Seq(Octets) /\ Len(udh) \in {0, 6, 7} /\ Pad(udh) \in 0..6
  <2>1. CASE wide
    BY <2>1, HeaderIs, PadType
  <2>2. CASE ~wide
    BY <2>2, HeaderIs, PadType
  <2> QED
    BY <2>1, <2>2
<1>2. TextAfter(p, Len(udh)) = t
  BY <1>1, TextOfPart
<1>3. PICK x \in Seq(Octets) : p.ud = udh \o x
  <2>1. CASE gsm7
    <3>1. UserData(udh, t, gsm7).ud = udh \o PackSeptets(EncodeGSM7(t), Pad(udh))
      BY <1>1, <2>1, UserDataLength
    <3>2. PackSeptets(EncodeGSM7(t), Pad(udh)) \in Seq(Octets)
      BY <1>1, EncodedType, PackedType
    <3> QED
      BY <3>1, <3>2 DEF PartOf
  <2>2. CASE ~gsm7
    <3>1. UserData(udh, t, gsm7).ud = udh \o EncodeUCS2(t)
      BY <1>1, <2>2, UserDataLength
    <3>2. EncodeUCS2(t) \in Seq(Octets)
      BY UCS2Encoded
    <3> QED
      BY <3>1, <3>2 DEF PartOf
  <2> QED
    BY <2>1, <2>2
<1>4. \A i \in 1..Len(udh) : p.ud[i] = udh[i]
  BY <1>1, <1>3
<1>5. PICK h : h = p.ud
  OBVIOUS
<1>6. CASE wide
  <2>1. Len(udh) = 7 /\ udh[1] = 6 /\ udh[2] = 8 /\ udh[7] = Byte(num) /\ udh[6] = Byte(total) /\ udh[5] = Byte(mr)
    BY <1>6 DEF Header
  <2>2. h[1] = 6 /\ h[2] = 8 /\ h[7] = Byte(num) /\ h[6] = Byte(total) /\ h[5] = Byte(mr)
    BY <1>4, <1>5, <2>1
  <2>3. DecodeSMS(p).num = h[7] /\ DecodeSMS(p).total = h[6] /\ DecodeSMS(p).ref = h[5] /\ DecodeSMS(p).text = TextAfter(p, 1 + h[1]) /\ DecodeSMS(p).from = DecodeAddress(p.address)
    BY <1>5, <2>2 DEF DecodeSMS
  <2> QED
    BY <1>2, <2>1, <2>2, <2>3
<1>7. CASE ~wide
  <2>1. Len(udh) = 6 /\ udh[1] = 5 /\ udh[2] = 0 /\ udh[6] = Byte(num) /\ udh[5] = Byte(total) /\ udh[4] = Byte(mr)
    BY <1>7 DEF Header
  <2>2. h[1] = 5 /\ h[2] = 0 /\ h[6] = Byte(num) /\ h[5] = Byte(total) /\ h[4] = Byte(mr)
    BY <1>4, <1>5, <2>1
  <2>3. DecodeSMS(p).num = h[6] /\ DecodeSMS(p).total = h[5] /\ DecodeSMS(p).ref = h[4] /\ DecodeSMS(p).text = TextAfter(p, 1 + h[1]) /\ DecodeSMS(p).from = DecodeAddress(p.address)
    BY <1>5, <2>2 DEF DecodeSMS
  <2> QED
    BY <1>2, <2>1, <2>2, <2>3
<1> QED
  BY <1>6, <1>7

(* One piece is itself.                                                    *)
LEMMA FlattenOne ==
  ASSUME NEW S, NEW t \in Seq(S)
  PROVE  FlattenSeq(<<t>>) = t
<1>1. PICK seqs \in Seq(Seq(S)) : seqs = <<t>> /\ Len(seqs) = 1 /\ seqs[1] = t
  <2>1. <<t>> \in Seq(Seq(S)) /\ Len(<<t>>) = 1 /\ <<t>>[1] = t
    OBVIOUS
  <2> QED
    BY <2>1, Zenon
<1>2. Len(seqs) # 0
  BY <1>1
<1>3. PICK f \in [1..Len(seqs) -> Seq(S)] : FlattenSeq(seqs) = f[Len(seqs)] /\ f[1] = seqs[1]
  BY <1>2, FlattenDef
<1> QED
  BY <1>1, <1>3

(* A chunk has no rune that the text has not.                              *)
LEMMA ChunkIsGSM7 ==
  ASSUME NEW t \in Seq(Runes), NEW gsm7 \in BOOLEAN, gsm7 = IsGSM7(t), NEW max \in Nat, max >= 2,
         NEW c, c = SplitChunks(t, gsm7, max), NEW k \in 1..Len(c)
  PROVE  c \in Seq(Seq(Runes)) /\ (gsm7 => IsGSM7(c[k]))
<1>1. PICK st : SplitAt(t, gsm7, max, c, 1, st)
  BY ChunksSplit
<1>2. c \in Seq(Seq(Runes))
  BY <1>1 DEF SplitAt
<1>3. PICK n \in Nat, len \in Nat : n = Len(c) /\ len = Len(t) /\ st \in [0..n -> 0..len]
  <2>1. Len(c) \in Nat /\ Len(t) \in Nat
    BY <1>2
  <2>2. st \in [0..Len(c) -> 0..Len(t)]
    BY <1>1 DEF SplitAt
  <2> QED
    BY <2>1, <2>2, Zenon
<1>4. PICK a \in 0..len, b \in 0..len : a = st[k-1] /\ b = st[k]
  <2>1. k - 1 \in 0..n /\ k \in 0..n
    BY <1>3
  <2>2. st[k-1] \in 0..len /\ st[k] \in 0..len
    BY <1>3, <2>1
  <2> QED
    BY <2>2, Zenon
<1>5. c[k] = SubSeq(t, a + 1, b)
  BY <1>1, <1>4 DEF SplitAt
<1>6. ASSUME gsm7 PROVE IsGSM7(c[k])
  <2>1. DOMAIN t = 1..len /\ \A i \in 1..len : t[i] \in Basic \cup Extension
    <3>1. DOMAIN t = 1..len
      BY <1>3
    <3>2. IsGSM7(t)
      BY <1>6
    <3> QED
      BY <3>1, <3>2, Zenon DEF IsGSM7
  <2>6. PICK x \in Nat, y \in Nat : x = a + 1 /\ y = b /\ x >= 1 /\ y <= Len(t)
    BY <1>3
  <2>2. PICK s \in Seq(Runes) : s = SubSeq(t, x, y)
    BY <2>6, SubSeqOfText
  <2>3. /\ Len(s) = IF x <= y THEN (y - x) + 1 ELSE 0
        /\ \A i \in 1..((y - x) + 1) : s[i] = t[(x + i) - 1]
    BY <2>2, <2>6, SubSeqOfText
  <2>4. ASSUME NEW i \in DOMAIN s PROVE s[i] \in Basic \cup Extension
    <3>1. i \in 1..Len(s)
      OBVIOUS
    <3>2. x <= y /\ i \in 1..((y - x) + 1) /\ (x + i) - 1 \in 1..len
      BY <1>3, <2>3, <2>6, <3>1
    <3>3. s[i] = t[(x + i) - 1]
      BY <2>3, <3>2
    <3> QED
      BY <2>1, <3>2, <3>3, Zenon
  <2>5. IsGSM7(s)
    BY <2>4, Zenon DEF IsGSM7
  <2> QED
    BY <1>5, <2>2, <2>5, <2>6
<1> QED
  BY <1>2, <1>6

(* What a part is decoded as.                                              *)
DecodedAs(p, mr, total, num, text, from) ==
  /\ DecodeSMS(p).num = Byte(num) /\ DecodeSMS(p).total = Byte(total) /\ DecodeSMS(p).ref = Byte(mr)
  /\ DecodeSMS(p).text = text /\ DecodeSMS(p).from = from

(* A message of several parts, all of which fit.                           *)
EncodedAs(ps, t, a, mr, wide, gsm7, c) ==
  /\ ~IsSingle(t) /\ gsm7 = IsGSM7(t) /\ c = SplitChunks(t, gsm7, MaxUnits(gsm7, wide))
  /\ ps = EncodeSMS(t, a, mr, wide) /\ \A k \in DOMAIN ps : Len(ps[k].ud) <= 140

(* Parts that fit, decoded.                                                *)
LEMMA DecodedMany ==
  ASSUME NEW t \in Seq(Runes), NEW a, NEW mr \in Words, NEW wide \in BOOLEAN,
         NEW gsm7 \in BOOLEAN, NEW c, NEW ps, EncodedAs(ps, t, a, mr, wide, gsm7, c)
  PROVE  /\ c \in Seq(Seq(Runes)) /\ DOMAIN ps = 1..Len(c)
         /\ \A k \in 1..Len(c) :
              DecodedAs(ps[k], mr, Len(c), k, c[k], DecodeAddress(a))
<1>1. /\ c \in Seq(Seq(Runes)) /\ DOMAIN ps = 1..Len(c) /\ Len(ps) = Len(c)
      /\ \A k \in 1..Len(c) :
              /\ ps[k].address = a /\ ps[k].udhi /\ ps[k].dcs = IF gsm7 THEN 0 ELSE 8
              /\ ps[k].udl = UserData(Header(mr, Len(c), k, wide), c[k], gsm7).udl
              /\ ps[k].ud = UserData(Header(mr, Len(c), k, wide), c[k], gsm7).ud
  BY PartsOfMany DEF EncodedAs
<1>2. ASSUME NEW k \in 1..Len(c)
      PROVE  DecodedAs(ps[k], mr, Len(c), k, c[k], DecodeAddress(a))
  <2>1. PICK p, udh : p = ps[k] /\ udh = Header(mr, Len(c), k, wide)
    OBVIOUS
  <2>2. PICK s \in Seq(Runes) : s = c[k] /\ (gsm7 => IsGSM7(s))
    <3>1. MaxUnits(gsm7, wide) \in Nat /\ MaxUnits(gsm7, wide) >= 2
      BY MaxUnitsIs
    <3>2. gsm7 => IsGSM7(c[k])
      BY <3>1, ChunkIsGSM7 DEF EncodedAs
    <3>3. c[k] \in Seq(Runes)
      BY <1>1
    <3> QED
      BY <3>2, <3>3, Zenon
  <2>3. p.address = a /\ p.udhi
    BY <1>1, <2>1
  <2>4. PartOf(p, udh, s, gsm7)
    <3>1. Len(p.ud) <= 140
      BY <1>1, <2>1 DEF EncodedAs
    <3> QED
      BY <1>1, <2>1, <2>2, <3>1 DEF PartOf
  <2>5. PICK total \in Nat, num \in Nat : total = Len(c) /\ num = k /\ udh = Header(mr, total, num, wide)
    <3>1. Len(c) \in Nat /\ k \in Nat
      BY <1>1
    <3> QED
      BY <2>1, <3>1, Zenon
  <2>6. /\ DecodeSMS(p).num = Byte(num) /\ DecodeSMS(p).total = Byte(total) /\ DecodeSMS(p).ref = Byte(mr)
        /\ DecodeSMS(p).text = s /\ DecodeSMS(p).from = DecodeAddress(p.address)
    <3>1. p.udhi /\ (gsm7 => IsGSM7(s)) /\ udh = Header(mr, total, num, wide)
      BY <2>2, <2>3, <2>5, Zenon
    <3> QED
      BY <2>4, <3>1, DecodedPart, SMT
  <2> QED
    BY <2>1, <2>2, <2>3, <2>5, <2>6 DEF DecodedAs
<1> QED
  BY <1>1, <1>2

(* Each number is the one of the part that carries it.                     *)
LEMMA OwnNumbers ==
  ASSUME NEW n \in Nat, NEW q \in [1..n -> 1..n], \A k \in 1..n : Byte(q[k]) = k
  PROVE  \A k \in 1..n : q[k] = k
<1>1. CASE n = 0
  BY <1>1
<1>2. CASE n # 0
  <2>1. n \in 1..n
    BY <1>2
  <2>2. PICK x \in Nat : x = q[n] /\ x % 256 = n
    BY <2>1 DEF Byte
  <2>3. n <= 255
    BY <2>2
  <2>4. ASSUME NEW k \in 1..n PROVE q[k] = k
    <3>1. PICK y \in 1..n : y = q[k] /\ y % 256 = k
      BY DEF Byte
    <3>2. y % 256 = y
      BY <2>3
    <3> QED
      BY <3>1, <3>2
  <2> QED
    BY <2>4
<1> QED
  BY <1>1, <1>2

(* Where each of n numbered parts goes.                                    *)
Placed(n, q, k) == k = IF Byte(n) <= 1 THEN 1 ELSE Byte(q)

(* If every place is filled, with each part its own.                       *)
LEMMA OwnPlaces ==
  ASSUME NEW n \in Nat, NEW q \in [1..n -> 1..n], \A k \in 1..n : Placed(n, q[k], k)
  PROVE  \A k \in 1..n : q[k] = k
<1>1. CASE n <= 1
  <2>1. \A k \in 1..n : k = 1 /\ q[k] \in 1..n
    BY <1>1
  <2> QED
    BY <1>1, <2>1
<1>2. CASE n > 1
  <2>1. 2 \in 1..n
    BY <1>2
  <2>2. Byte(n) > 1
    <3>1. Byte(n) \in Nat
      BY DEF Byte
    <3>2. Byte(n) <= 1 => 2 = 1
      BY <2>1 DEF Placed
    <3> QED
      BY <3>1, <3>2
  <2>3. \A k \in 1..n : Byte(q[k]) = k
    <3>1. ~(Byte(n) <= 1)
      <4>1. Byte(n) \in Nat
        BY DEF Byte
      <4> QED
        BY <2>2, <4>1
    <3> QED
      BY <3>1 DEF Placed
  <2> QED
    BY <2>3, OwnNumbers
<1> QED
  BY <1>1, <1>2

(* The address decoded is the number that was asked for.                   *)
LEMMA AddressBack ==
  PDUInv /\ step = "sent" => DecodeAddress(EncodeAddress(number)) = number
<1> SUFFICES ASSUME PDUInv, step = "sent" PROVE DecodeAddress(EncodeAddress(number)) = number
  OBVIOUS
<1>1. PICK n : n = in.to
  OBVIOUS
<1>2. n \in [plus : BOOLEAN, digits : Seq(Numerals)] /\ ~RefusedNumber(n) /\ number = NormalizePhoneNumber(n)
  BY <1>1, PDUAssumption DEF PDUInv, Numerals
<1>3. PICK x : x = NormalizePhoneNumber(n)
  OBVIOUS
<1>4. x \in [plus : BOOLEAN, digits : Seq(Numerals)] /\ Len(x.digits) <= 255
  BY <1>2, <1>3, NormalizedNumber
<1>5. DecodeAddress(EncodeAddress(x)) = x
  BY <1>4, DecodedAddress
<1> QED
  BY <1>2, <1>3, <1>5

(* Once every part has come, the slots hold the chunks in order, and the   *)
(* chunks are the text.                                                    *)
LEMMA InvRoundTrip == PDUInv => RoundTrip
<1> SUFFICES ASSUME PDUInv, step = "sent", \A k \in DOMAIN parts : Fits(k) /\ got[k] # <<>>
             PROVE  /\ FlattenSeq([k \in DOMAIN got |-> got[k][1].text]) = Text
                    /\ \A k \in DOMAIN got : got[k][1].from = number
                    /\ \A j, k \in DOMAIN got : got[j][1].ref = got[k][1].ref
  BY DEF RoundTrip
<1>1. PICK t, a, x : t = Text /\ a = EncodeAddress(number) /\ x = number /\ DecodeAddress(a) = x
  BY AddressBack
<1>2. PICK mr \in Words, wide \in BOOLEAN : parts = EncodeSMS(t, a, mr, wide)
  BY <1>1, Zenon DEF PDUInv
<1>3. t \in Seq(Runes)
  BY <1>1, TextType DEF PDUInv
<1>4. PICK ps, gt : ps = parts /\ gt = got /\ ps = EncodeSMS(t, a, mr, wide)
  BY <1>2
<1>5. DOMAIN gt = DOMAIN ps /\ \A k \in DOMAIN ps : Len(ps[k].ud) <= 140 /\ gt[k] # <<>>
  BY <1>4 DEF PDUInv, Fits
<1>6. \A k \in DOMAIN ps : \E p \in DOMAIN ps : gt[k] = <<DecodeSMS(ps[p])>> /\ Slot(DecodeSMS(ps[p])) = k
  BY <1>4, <1>5 DEF PDUInv
<1>7. PICK gsm7 \in BOOLEAN : gsm7 = IsGSM7(t)
  BY DEF IsGSM7
<1> DEFINE Back == /\ FlattenSeq([k \in DOMAIN gt |-> gt[k][1].text]) = t
                   /\ \A k \in DOMAIN gt : gt[k][1].from = x
                   /\ \A j, k \in DOMAIN gt : gt[j][1].ref = gt[k][1].ref
<1>8. ASSUME IsSingle(t) PROVE Back
  <2>1. PICK d : d = UserData(<<>>, t, gsm7)
    OBVIOUS
  <2>2. ps = <<[address |-> a, udhi |-> FALSE, dcs |-> IF gsm7 THEN 0 ELSE 8, udl |-> d.udl, ud |-> d.ud]>>
    BY <1>3, <1>4, <1>7, <1>8, <2>1, PartOfOne
  <2>3. PICK p : p = ps[1]
    OBVIOUS
  <2>4. DOMAIN ps = 1..1 /\ 1 \in DOMAIN ps /\ p.address = a /\ ~p.udhi /\ p.dcs = (IF gsm7 THEN 0 ELSE 8) /\ p.udl = d.udl /\ p.ud = d.ud
    BY <2>2, <2>3
  <2>5. PartOf(p, <<>>, t, gsm7)
    BY <1>5, <2>1, <2>3, <2>4 DEF PartOf
  <2>6. DecodeSMS(p).text = t /\ DecodeSMS(p).from = x
    <3>1. gsm7 => IsGSM7(t)
      BY <1>7
    <3>2. DecodeSMS(p).text = t /\ DecodeSMS(p).from = DecodeAddress(p.address)
      BY <1>3, <2>4, <2>5, <3>1, DecodedSingle, SMT
    <3> QED
      BY <1>1, <2>4, <3>2
  <2>7. gt[1] = <<DecodeSMS(p)>>
    <3>1. \A j \in 1..1 : j = 1
      OBVIOUS
    <3> QED
      BY <1>6, <2>3, <2>4, <3>1, Zenon
  <2>8. PICK y : y = DecodeSMS(p)
    OBVIOUS
  <2>9. gt[1][1] = y /\ y.text = t /\ y.from = x
    BY <2>6, <2>7, <2>8
  <2>10. DOMAIN gt = 1..1
    BY <1>5, <2>4
  <2>11. [k \in DOMAIN gt |-> gt[k][1].text] = <<t>>
    <3>1. \A k \in 1..1 : gt[k][1].text = t
      BY <2>9
    <3> QED
      BY <2>10, <3>1
  <2>12. \A k \in DOMAIN gt : gt[k][1].from = x
    BY <2>9, <2>10
  <2>13. \A j, k \in DOMAIN gt : gt[j][1].ref = gt[k][1].ref
    <3>1. \A j, k \in 1..1 : j = k
      OBVIOUS
    <3> QED
      BY <2>10, <3>1
  <2> QED
    BY <1>3, <2>11, <2>12, <2>13, FlattenOne
<1>9. ASSUME ~IsSingle(t) PROVE Back
  <2>1. PICK max \in Nat : max = MaxUnits(gsm7, wide) /\ max >= 2
    BY MaxUnitsIs
  <2>2. PICK c : c = SplitChunks(t, gsm7, MaxUnits(gsm7, wide))
    OBVIOUS
  <2>3. /\ c \in Seq(Seq(Runes)) /\ DOMAIN ps = 1..Len(c)
        /\ \A k \in 1..Len(c) :
              DecodedAs(ps[k], mr, Len(c), k, c[k], DecodeAddress(a))
    <3>1. \A k \in DOMAIN ps : Len(ps[k].ud) <= 140
      BY <1>5
    <3>2. ps = EncodeSMS(t, a, mr, wide)
      BY <1>4
    <3>3. EncodedAs(ps, t, a, mr, wide, gsm7, c)
      BY <1>7, <1>9, <2>2, <3>1, <3>2, Zenon DEF EncodedAs
    <3> QED
      BY <1>2, <1>3, <1>7, <3>3, DecodedMany, Zenon
  <2>4. PICK n \in Nat : n = Len(c)
    BY <2>3
  <2> DEFINE From(k, p) == gt[k] = <<DecodeSMS(ps[p])>> /\ Placed(n, p, k)
             q == [k \in 1..n |-> CHOOSE p \in 1..n : From(k, p)]
  <2>5. ASSUME NEW k \in 1..n PROVE \E p \in 1..n : From(k, p)
    <3>1. PICK p \in 1..n : gt[k] = <<DecodeSMS(ps[p])>> /\ Slot(DecodeSMS(ps[p])) = k
      BY <1>6, <2>3, <2>4, Zenon
    <3>2. DecodeSMS(ps[p]).num = Byte(p) /\ DecodeSMS(ps[p]).total = Byte(n)
      BY <2>3, <2>4, Zenon DEF DecodedAs
    <3>4. Placed(n, p, k)
      BY <3>1, <3>2, Zenon DEF Placed, Slot
    <3>3. From(k, p)
      BY <3>1, <3>4, Zenon
    <3> HIDE DEF From
    <3> QED
      BY <3>3, Zenon
  <2>6. \A k \in 1..n : q[k] \in 1..n /\ From(k, q[k])
    <3> HIDE DEF From
    <3> QED
      BY <2>5
  <2>7. q \in [1..n -> 1..n] /\ \A k \in 1..n : Placed(n, q[k], k)
    <3>1. DOMAIN q = 1..n
      OBVIOUS
    <3>2. q = [k \in 1..n |-> q[k]]
      OBVIOUS
    <3> HIDE DEF q
    <3> QED
      BY <2>6, <3>1, <3>2
  <2>8. \A k \in 1..n : q[k] = k
    <3> HIDE DEF q
    <3> QED
      BY <2>7, OwnPlaces
  <2>9. ASSUME NEW k \in 1..n PROVE gt[k][1].text = c[k] /\ gt[k][1].from = x /\ gt[k][1].ref = Byte(mr)
    <3>1. PICK y : y = DecodeSMS(ps[k])
      OBVIOUS
    <3>2. gt[k] = <<y>>
      <4> HIDE DEF q
      <4> QED
        BY <2>6, <2>8, <3>1
    <3>3. y.text = c[k] /\ y.from = x /\ y.ref = Byte(mr)
      BY <1>1, <2>3, <2>4, <3>1 DEF DecodedAs
    <3> QED
      BY <3>2, <3>3
  <2>10. DOMAIN gt = 1..n
    BY <1>5, <2>3, <2>4
  <2>11. [k \in DOMAIN gt |-> gt[k][1].text] = c
    <3>1. c = [k \in 1..n |-> c[k]]
      BY <2>3, <2>4
    <3> QED
      BY <2>9, <2>10, <3>1, Zenon
  <2>12. FlattenSeq(c) = t
    BY <1>3, <2>1, <2>2, ChunksJoined
  <2> QED
    BY <2>9, <2>10, <2>11, <2>12, Zenon
<1>10. Back
  BY <1>8, <1>9
<1> QED
  BY <1>1, <1>4, <1>10

(* A text whose parts fit is decoded as it was encoded, in whatever order  *)
(* its parts come, and the number with it.                                 *)
THEOREM ReceivedAsSent == PDUSpec => []RoundTrip
BY EncodesOnce, InvRoundTrip, PTL

-----------------------------------------------------------------------------
(* Types.                                                                  *)

(* User data that begins with a header.                                    *)
Begins(ud, udh) == \E x \in Seq(Octets) : ud = udh \o x

(* What a decoder reads from either header.                                *)
LEMMA HeaderRead ==
  ASSUME NEW mr \in Words, NEW total \in Nat, NEW num \in Nat, NEW wide \in BOOLEAN,
         NEW udh, udh = Header(mr, total, num, wide),
         NEW p, p.udhi, Begins(p.ud, udh)
  PROVE  DecodeSMS(p).total = Byte(total)
<1>1. udh \in Seq(Octets)
  BY HeaderIs
<1>2. \A i \in 1..Len(udh) : p.ud[i] = udh[i]
  BY <1>1 DEF Begins
<1>3. PICK h : h = p.ud
  OBVIOUS
<1>4. CASE wide
  <2>1. Len(udh) = 7 /\ udh[1] = 6 /\ udh[2] = 8 /\ udh[6] = Byte(total)
    BY <1>4 DEF Header
  <2>2. h[1] = 6 /\ h[2] = 8 /\ h[6] = Byte(total)
    <3>1. 1 \in 1..Len(udh) /\ 2 \in 1..Len(udh) /\ 6 \in 1..Len(udh)
      BY <2>1
    <3> QED
      BY <1>2, <1>3, <2>1, <3>1, Zenon
  <2>3. DecodeSMS(p).total = h[6]
    BY <1>3, <2>2 DEF DecodeSMS
  <2> QED
    BY <2>2, <2>3
<1>5. CASE ~wide
  <2>1. Len(udh) = 6 /\ udh[1] = 5 /\ udh[2] = 0 /\ udh[5] = Byte(total)
    BY <1>5 DEF Header
  <2>2. h[1] = 5 /\ h[2] = 0 /\ h[5] = Byte(total)
    <3>1. 1 \in 1..Len(udh) /\ 2 \in 1..Len(udh) /\ 5 \in 1..Len(udh)
      BY <2>1
    <3> QED
      BY <1>2, <1>3, <2>1, <3>1, Zenon
  <2>3. DecodeSMS(p).total = h[5]
    BY <1>3, <2>2 DEF DecodeSMS
  <2> QED
    BY <2>2, <2>3
<1> QED
  BY <1>4, <1>5

(* User data is octets, its length a byte, and its header stands at its    *)
(* beginning.                                                              *)
LEMMA UserDataOctets ==
  ASSUME NEW udh \in Seq(Octets), Pad(udh) \in 0..6, NEW t \in Seq(Runes), NEW gsm7 \in BOOLEAN
  PROVE  /\ UserData(udh, t, gsm7).ud \in Seq(Octets) /\ UserData(udh, t, gsm7).udl \in Octets
         /\ Begins(UserData(udh, t, gsm7).ud, udh)
<1>1. PICK s \in Seq(Septets), u \in Seq(Octets) : s = EncodeGSM7(t) /\ u = EncodeUCS2(t)
  BY EncodedType, UCS2Encoded
<1>2. PackSeptets(s, Pad(udh)) \in Seq(Octets)
  BY PackedType
<1>3. UserData(udh, t, gsm7).ud \in Seq(Octets)
  BY UserDataLength
<1>4. CASE gsm7
  <2>1. PICK v \in Int : v = ((8 * Len(udh) + Pad(udh)) \div 7) + Len(s)
    OBVIOUS
  <2>2. UserData(udh, t, gsm7).ud = udh \o PackSeptets(s, Pad(udh)) /\ UserData(udh, t, gsm7).udl = Byte(v)
    BY <1>1, <1>4, <2>1 DEF UserData
  <2>3. Byte(v) \in Octets
    BY DEF Byte, Octets
  <2> QED
    BY <1>2, <1>3, <2>2, <2>3 DEF Begins
<1>5. CASE ~gsm7
  <2>1. PICK v \in Int : v = Len(udh) + Len(u)
    OBVIOUS
  <2>2. UserData(udh, t, gsm7).ud = udh \o u /\ UserData(udh, t, gsm7).udl = Byte(v)
    BY <1>1, <1>5, <2>1 DEF UserData
  <2>3. Byte(v) \in Octets
    BY DEF Byte, Octets
  <2> QED
    BY <1>1, <1>3, <2>2, <2>3 DEF Begins
<1> QED
  BY <1>4, <1>5

(* Every part is octets and says how many there are.                       *)
LEMMA InvPDUType == PDUInv => PDUTypeOK
<1> SUFFICES ASSUME PDUInv PROVE PDUTypeOK
  OBVIOUS
<1>1. number.digits \in Seq(0..9)
  <2>1. PICK n : n = in.to
    OBVIOUS
  <2>2. n \in [plus : BOOLEAN, digits : Seq(Numerals)]
    BY <2>1, PDUAssumption DEF PDUInv, Numerals
  <2>3. CASE step = "sent"
    <3>1. ~RefusedNumber(n) /\ number = NormalizePhoneNumber(n)
      BY <2>1, <2>3 DEF PDUInv
    <3>2. NormalizePhoneNumber(n).digits \in Seq(Numerals)
      BY <2>2, <3>1, NormalizedNumber
    <3> QED
      BY <3>1, <3>2 DEF Numerals
  <2>4. CASE step # "sent"
    <3>1. number = n
      BY <2>1, <2>4 DEF PDUInv
    <3> QED
      BY <2>2, <3>1 DEF Numerals
  <2> QED
    BY <2>3, <2>4
<1>2. ASSUME NEW k \in DOMAIN parts
      PROVE  /\ Range(parts[k].ud) \subseteq Octets /\ parts[k].udl \in Octets
             /\ DecodeSMS(parts[k]).total = IF IsSingle(Text) THEN 0 ELSE Byte(Len(parts))
  <2>0. PICK t, a, ps : t = Text /\ a = EncodeAddress(number) /\ ps = parts
    OBVIOUS
  <2>1. step = "sent"
    <3>1. step # "sent" => DOMAIN parts = {}
      BY DEF PDUInv
    <3> QED
      BY <2>0, <3>1, Zenon DEF PDUInv
  <2>2. PICK mr \in Words, wide \in BOOLEAN : ps = EncodeSMS(t, a, mr, wide)
    BY <2>0, <2>1, Zenon DEF PDUInv
  <2>3. t \in Seq(Runes)
    BY <2>0, TextType DEF PDUInv
  <2>4. PICK gsm7 \in BOOLEAN : gsm7 = IsGSM7(t)
    BY DEF IsGSM7
  <2>5. \A q \in Seq(Octets) : Range(q) \subseteq Octets
    BY DEF Range
  <2> DEFINE Ok == /\ ps[k].ud \in Seq(Octets) /\ ps[k].udl \in Octets
                   /\ DecodeSMS(ps[k]).total = IF IsSingle(t) THEN 0 ELSE Byte(Len(ps))
  <2>6. ASSUME IsSingle(t) PROVE Ok
    <3>1. PICK d : d = UserData(<<>>, t, gsm7)
      OBVIOUS
    <3>2. ps = <<[address |-> a, udhi |-> FALSE, dcs |-> IF gsm7 THEN 0 ELSE 8, udl |-> d.udl, ud |-> d.ud]>>
      BY <2>2, <2>3, <2>4, <2>6, <3>1, PartOfOne
    <3>3. PICK p : p = ps[k]
      OBVIOUS
    <3>4. Len(ps) = 1 /\ ~p.udhi /\ p.udl = d.udl /\ p.ud = d.ud
      BY <2>0, <3>2, <3>3
    <3>5. d.ud \in Seq(Octets) /\ d.udl \in Octets
      BY <2>3, <3>1, NoPad, UserDataOctets
    <3>6. DecodeSMS(p).total = 0
      BY <3>4 DEF DecodeSMS
    <3> QED
      BY <2>6, <3>3, <3>4, <3>5, <3>6
  <2>7. ASSUME ~IsSingle(t) PROVE Ok
    <3>1. PICK c : c = SplitChunks(t, gsm7, MaxUnits(gsm7, wide))
      OBVIOUS
    <3>2. /\ c \in Seq(Seq(Runes)) /\ DOMAIN ps = 1..Len(c) /\ Len(ps) = Len(c)
          /\ \A i \in 1..Len(c) :
               /\ ps[i].udhi
               /\ ps[i].udl = UserData(Header(mr, Len(c), i, wide), c[i], gsm7).udl
               /\ ps[i].ud = UserData(Header(mr, Len(c), i, wide), c[i], gsm7).ud
      <4>1. ps = EncodeSMS(t, a, mr, wide)
        BY <2>2
      <4> QED
        BY <2>3, <2>4, <2>7, <3>1, <4>1, PartsOfMany
    <3>3. PICK total \in Nat, num \in 1..Len(c), s \in Seq(Runes) : total = Len(c) /\ num = k /\ s = c[k]
      <4>1. k \in 1..Len(c)
        BY <2>0, <3>2
      <4>2. Len(c) \in Nat /\ c[k] \in Seq(Runes)
        BY <3>2, <4>1
      <4> QED
        BY <4>1, <4>2
    <3>a. PICK udh, p : udh = Header(mr, total, num, wide) /\ p = ps[k]
      OBVIOUS
    <3>4. p.udhi /\ p.udl = UserData(udh, s, gsm7).udl /\ p.ud = UserData(udh, s, gsm7).ud
      BY <3>2, <3>3, <3>a
    <3>5. udh \in Seq(Octets) /\ Pad(udh) \in 0..6
      BY <3>a, HeaderIs, PadType
    <3>6. p.ud \in Seq(Octets) /\ p.udl \in Octets /\ Begins(p.ud, udh)
      BY <3>4, <3>5, UserDataOctets
    <3>7. DecodeSMS(p).total = Byte(total)
      <4>1. num \in Nat
        BY <3>3
      <4> QED
        BY <3>a, <3>4, <3>6, <4>1, HeaderRead
    <3> QED
      BY <2>7, <3>2, <3>3, <3>a, <3>6, <3>7
  <2>8. Ok
    BY <2>6, <2>7
  <2> QED
    BY <2>0, <2>5, <2>8
<1>3. ASSUME NEW k \in DOMAIN got, got[k] # <<>>
      PROVE  Len(got[k]) = 1 /\ got[k][1].total = IF IsSingle(Text) THEN 0 ELSE Byte(Len(parts))
  <2>1. PICK p \in DOMAIN parts : got[k] = <<DecodeSMS(parts[p])>>
    BY <1>3 DEF PDUInv
  <2>2. PICK y : y = DecodeSMS(parts[p])
    OBVIOUS
  <2>3. y.total = IF IsSingle(Text) THEN 0 ELSE Byte(Len(parts))
    BY <1>2, <2>2
  <2>4. got[k] = <<y>>
    BY <2>1, <2>2
  <2> QED
    BY <2>3, <2>4
<1> QED
  BY <1>1, <1>2, <1>3, Zenon DEF PDUInv, PDUTypeOK

(* The type invariant of the codec: octets go to the modem, and every part *)
(* that was decoded says how many there are.                               *)
THEOREM PDUTypeCorrect == PDUSpec => []PDUTypeOK
BY EncodesOnce, InvPDUType, PTL
=============================================================================
