--------------------------- MODULE IncomingProofs ---------------------------
(***************************************************************************)
(* Proofs about what the network sends through a modem: the replies of     *)
(* USSDService, for any set of queries, and the stored messages of Inbox,  *)
(* for any messages, storages of any size and any number of faults.  The   *)
(* two share no state; every name of Inbox that both would have carries    *)
(* its prefix.                                                             *)
(***************************************************************************)
EXTENDS USSDService, Inbox, FiniteSetTheorems, WellFoundedInduction, TLAPS

(* Type correctness is inductive on its own.                               *)
LEMMA TypeStep == TypeOK /\ [Next]_vars => TypeOK'
<1> SUFFICES ASSUME TypeOK, [Next]_vars PROVE TypeOK'
  OBVIOUS
<1> USE USSDAssumption DEF TypeOK, Errors, Kinds, Handling
<1>1. ASSUME NEW q \in Queries, Register(q) PROVE TypeOK'
  BY <1>1 DEF Register
<1>2. ASSUME NEW q \in Queries, Submit(q) PROVE TypeOK'
  BY <1>2 DEF Submit
<1>3. ASSUME NEW q \in Queries, SubmitFails(q) PROVE TypeOK'
  BY <1>3 DEF SubmitFails
<1>4. ASSUME NEW q \in Queries, Submitted(q) PROVE TypeOK'
  BY <1>4 DEF Submitted
<1>5. ASSUME NEW q \in Queries, ReceiveInline(q) PROVE TypeOK'
  <2>1. inline.to \in Queries /\ inline.kind \in Kinds
    BY <1>5 DEF ReceiveInline
  <2>2. result' \in [Queries -> Queries \cup Errors \cup {NIL}]
    BY <1>5, <2>1 DEF ReceiveInline
  <2> QED
    BY <1>5, <2>2 DEF ReceiveInline
<1>6. ASSUME NEW q \in Queries, Receive(q) PROVE TypeOK'
  BY <1>6 DEF Receive
<1>7. ASSUME NEW q \in Queries, Timeout(q) PROVE TypeOK'
  BY <1>7 DEF Timeout
<1>8. ASSUME NEW q \in Queries, clearPending(q) PROVE TypeOK'
  BY <1>8 DEF clearPending
<1>9. ASSUME NEW q \in Queries, ReportInline(q) PROVE TypeOK'
  <2>1. result[q] \in Queries
    BY <1>9 DEF ReportInline
  <2> QED
    BY <1>9, <2>1 DEF ReportInline
<1>10. ASSUME NEW q \in Queries, NEW k \in Kinds, InlineCUSD(q, k) PROVE TypeOK'
  BY <1>10 DEF InlineCUSD, NetworkReplies
<1>11. ASSUME NEW q \in Queries, NEW k \in Kinds, HandleURC(q, k) PROVE TypeOK'
  <2>1. net' \in [Queries -> {"none", "open", "closed"}] /\ kind' \in [Queries -> Kinds \cup {NIL}]
    BY <1>11 DEF HandleURC, NetworkReplies
  <2>2. pendingCh' \in Queries \cup {NIL}
    BY <1>11 DEF HandleURC
  <2>3. [ch |-> pendingCh, reply |-> q, at |-> "send"] \in Handling
    OBVIOUS
  <2>4. urc' = urc \/ urc' = [ch |-> pendingCh, reply |-> q, at |-> "send"]
    BY <1>11 DEF HandleURC
  <2> QED
    BY <1>11, <2>1, <2>2, <2>3, <2>4 DEF HandleURC
<1>12. ASSUME SendReply PROVE TypeOK'
  BY <1>12 DEF SendReply
<1>13. ASSUME onResponse PROVE TypeOK'
  BY <1>13 DEF onResponse
<1>14. ASSUME UNCHANGED vars PROVE TypeOK'
  BY <1>14 DEF vars
<1> HIDE DEF TypeOK, Errors, Kinds, Handling
<1> QED
  BY <1>1, <1>2, <1>3, <1>4, <1>5, <1>6, <1>7, <1>8, <1>9, <1>10, <1>11, <1>12, <1>13, <1>14
  DEF Next, SendStep

-----------------------------------------------------------------------------
LEMMA HolderStep == TypeOK /\ OneHolder /\ [Next]_vars => OneHolder'
<1> SUFFICES ASSUME TypeOK, OneHolder, [Next]_vars PROVE OneHolder'
  OBVIOUS
<1> USE USSDAssumption DEF OneHolder, TypeOK, Handling
<1>1. ASSUME NEW q \in Queries, Register(q) PROVE OneHolder'
  BY <1>1 DEF Register
<1>2. ASSUME NEW q \in Queries, Submit(q) PROVE OneHolder'
  BY <1>2 DEF Submit
<1>3. ASSUME NEW q \in Queries, SubmitFails(q) PROVE OneHolder'
  BY <1>3 DEF SubmitFails
<1>4. ASSUME NEW q \in Queries, Submitted(q) PROVE OneHolder'
  BY <1>4 DEF Submitted
<1>5. ASSUME NEW q \in Queries, ReceiveInline(q) PROVE OneHolder'
  BY <1>5 DEF ReceiveInline
<1>6. ASSUME NEW q \in Queries, Receive(q) PROVE OneHolder'
  BY <1>6 DEF Receive
<1>7. ASSUME NEW q \in Queries, Timeout(q) PROVE OneHolder'
  BY <1>7 DEF Timeout
<1>8. ASSUME NEW q \in Queries, clearPending(q) PROVE OneHolder'
  BY <1>8 DEF clearPending
<1>9. ASSUME NEW q \in Queries, ReportInline(q) PROVE OneHolder'
  BY <1>9 DEF ReportInline
<1>10. ASSUME NEW q \in Queries, NEW k \in Kinds, InlineCUSD(q, k) PROVE OneHolder'
  BY <1>10 DEF InlineCUSD
<1>11. ASSUME NEW q \in Queries, NEW k \in Kinds, HandleURC(q, k) PROVE OneHolder'
  BY <1>11 DEF HandleURC
<1>12. ASSUME SendReply PROVE OneHolder'
  BY <1>12 DEF SendReply
<1>13. ASSUME onResponse PROVE OneHolder'
  BY <1>13 DEF onResponse
<1>14. ASSUME UNCHANGED vars PROVE OneHolder'
  BY <1>14 DEF vars
<1> HIDE DEF OneHolder, TypeOK, Handling
<1> QED
  BY <1>1, <1>2, <1>3, <1>4, <1>5, <1>6, <1>7, <1>8, <1>9, <1>10, <1>11, <1>12, <1>13, <1>14
  DEF Next, SendStep

LEMMA ReportStep == TypeOK /\ ReportedOrHeld /\ [Next]_vars => ReportedOrHeld'
<1> SUFFICES ASSUME TypeOK, ReportedOrHeld, [Next]_vars PROVE ReportedOrHeld'
  OBVIOUS
<1> USE USSDAssumption DEF ReportedOrHeld, ReturnedIsReported, TypeOK, Handling
<1>1. ASSUME NEW q \in Queries, Register(q) PROVE ReportedOrHeld'
  BY <1>1 DEF Register
<1>2. ASSUME NEW q \in Queries, Submit(q) PROVE ReportedOrHeld'
  BY <1>2 DEF Submit
<1>3. ASSUME NEW q \in Queries, SubmitFails(q) PROVE ReportedOrHeld'
  BY <1>3 DEF SubmitFails
<1>4. ASSUME NEW q \in Queries, Submitted(q) PROVE ReportedOrHeld'
  BY <1>4 DEF Submitted
<1>5. ASSUME NEW q \in Queries, ReceiveInline(q) PROVE ReportedOrHeld'
  BY <1>5 DEF ReceiveInline
<1>6. ASSUME NEW q \in Queries, Receive(q) PROVE ReportedOrHeld'
  BY <1>6 DEF Receive
<1>7. ASSUME NEW q \in Queries, Timeout(q) PROVE ReportedOrHeld'
  BY <1>7 DEF Timeout
<1>8. ASSUME NEW q \in Queries, clearPending(q) PROVE ReportedOrHeld'
  BY <1>8 DEF clearPending
<1>9. ASSUME NEW q \in Queries, ReportInline(q) PROVE ReportedOrHeld'
  BY <1>9 DEF ReportInline
<1>10. ASSUME NEW q \in Queries, NEW k \in Kinds, InlineCUSD(q, k) PROVE ReportedOrHeld'
  BY <1>10 DEF InlineCUSD
<1>11. ASSUME NEW q \in Queries, NEW k \in Kinds, HandleURC(q, k) PROVE ReportedOrHeld'
  BY <1>11 DEF HandleURC
<1>12. ASSUME SendReply PROVE ReportedOrHeld'
  <2>1. urc' # NIL /\ urc'.reply = urc.reply
    BY <1>12 DEF SendReply
  <2>2. \A q \in Queries : chan'[q] = chan[q] \/ chan'[q] = urc.reply
    BY <1>12 DEF SendReply
  <2> QED
    BY <1>12, <2>1, <2>2 DEF SendReply
<1>13. ASSUME onResponse PROVE ReportedOrHeld'
  BY <1>13 DEF onResponse
<1>14. ASSUME UNCHANGED vars PROVE ReportedOrHeld'
  BY <1>14 DEF vars
<1> HIDE DEF ReportedOrHeld, ReturnedIsReported, TypeOK, Handling
<1> QED
  BY <1>1, <1>2, <1>3, <1>4, <1>5, <1>6, <1>7, <1>8, <1>9, <1>10, <1>11, <1>12, <1>13, <1>14
  DEF Next, SendStep

LEMMA Inductive == Spec => [](TypeOK /\ OneHolder /\ ReportedOrHeld)
<1>1. Init => TypeOK /\ OneHolder /\ ReportedOrHeld
  BY USSDAssumption DEF Init, TypeOK, OneHolder, ReportedOrHeld, ReturnedIsReported
<1> QED
  BY <1>1, TypeStep, HolderStep, ReportStep, PTL DEF Spec

-----------------------------------------------------------------------------
(* Every variable of the service keeps its type.                           *)
THEOREM USSDTypeCorrect == Spec => []TypeOK
BY Inductive, PTL

(* pendingCh never names the channel of a Send that returned, however the  *)
(* registrations and clearPending calls of concurrent queries interleave.  *)
THEOREM AwaitedChannels == Spec => []ChannelIsAwaited
<1>1. OneHolder => ChannelIsAwaited
  BY DEF OneHolder, ChannelIsAwaited
<1> QED
  BY <1>1, Inductive, PTL

(* HandleURC's non-blocking send always finds its channel empty.           *)
THEOREM NoDroppedReplies == Spec => []NoReplyDropped
<1>1. OneHolder => NoReplyDropped
  BY DEF OneHolder, NoReplyDropped
<1> QED
  BY <1>1, Inductive, PTL

(* What a Send returned was reported, or the URC goroutine is about to.    *)
THEOREM ReturnedReplies == Spec => []ReturnedIsReported
<1>1. ReportedOrHeld => ReturnedIsReported
  BY DEF ReportedOrHeld
<1> QED
  BY <1>1, Inductive, PTL
-----------------------------------------------------------------------------
(* Inbox.                                                                  *)

(* Any set of numbers that is not empty has a smallest one: the index that *)
(* is worked off next, and the one the modem stores a message at.          *)
LEMMA SmallestIndex ==
  ASSUME NEW T, T \subseteq Nat, T # {}
  PROVE  \E x \in T : \A y \in T : x <= y
<1>1. \E x \in T : \A y \in T : ~ (<<y, x>> \in OpToRel(<, Nat))
  BY WFMin, NatLessThanWellFounded, Zenon
<1>2. PICK x \in T : \A y \in T : ~ (<<y, x>> \in OpToRel(<, Nat))
  BY <1>1
<1>3. ASSUME NEW y \in T PROVE x <= y
  <2>1. x \in Nat /\ y \in Nat
    OBVIOUS
  <2>2. y < x => <<y, x>> \in OpToRel(<, Nat)
    BY <2>1 DEF OpToRel
  <2>3. ~(y < x)
    BY <1>2, <2>2, Zenon
  <2> QED
    BY <2>1, <2>3
<1> QED
  BY <1>3

LEMMA FirstIsListed ==
  ASSUME NEW l, l \subseteq Indexes \X Msgs, l # {}
  PROVE  First(l) \in l
<1> DEFINE T == {e[1] : e \in l}
<1>1. T \subseteq Nat /\ T # {}
  BY InboxAssumption
<1>2. PICK x \in T : \A y \in T : x <= y
  BY <1>1, SmallestIndex
<1>3. PICK e \in l : e[1] = x
  OBVIOUS
<1>4. \A f \in l : e[1] <= f[1]
  BY <1>2, <1>3
<1> QED
  BY <1>4 DEF First

(* The modem stores a message at an index that is free.                    *)
LEMMA ArriveAtFree ==
  ASSUME InboxTypeOK, NEW m, Arrive(m)
  PROVE  \E i \in Indexes : store[active][i] = NONE /\ store' = [store EXCEPT ![active][i] = m]
<1> DEFINE free == {i \in Indexes : store[active][i] = NONE}
           used == {i \in Indexes : store[active][i] # NONE}
           i == CHOOSE j \in Indexes : store[active][j] = NONE /\ \A k \in Indexes : k < j => store[active][k] # NONE
<1>1. free # {}
  <2>1. SUFFICES ASSUME free = {} PROVE FALSE
    OBVIOUS
  <2>2. used = Indexes
    BY <2>1
  <2>3. Cardinality(Indexes) \in Nat
    BY FS_CardinalityType, InboxAssumption
  <2> QED
    BY <2>2, <2>3 DEF Arrive, Used
<1>2. PICK x \in free : \A y \in free : x <= y
  BY <1>1, SmallestIndex, InboxAssumption
<1>3. store[active][x] = NONE /\ \A k \in Indexes : k < x => store[active][k] # NONE
  <2>1. ASSUME NEW k \in Indexes, k < x, store[active][k] = NONE PROVE FALSE
    <3>1. k \in Nat /\ x \in Nat
      BY InboxAssumption
    <3>2. x <= k
      BY <1>2, <2>1
    <3> QED
      BY <2>1, <3>1, <3>2
  <2> QED
    BY <1>2, <2>1
<1>4. i \in Indexes /\ store[active][i] = NONE
  BY <1>3
<1>5. store' = [store EXCEPT ![active][i] = m]
  BY DEF Arrive
<1> QED
  BY <1>4, <1>5
-----------------------------------------------------------------------------
(* Inbox: type correctness.                                                *)

LEMMA FirstSyncType == FirstSync \in [Procs -> Caller] /\ Idle \in Caller
<1>1. Idle \in Caller
  BY DEF Idle, Caller, SyncSteps
<1>2. <<"SM", "ME">> \in Seq(Storages)
  BY DEF Storages
<1>3. [Idle EXCEPT !.pc = "wait", !.todo = <<"SM", "ME">>, !.many = TRUE] \in Caller
  BY <1>2 DEF Idle, Caller, SyncSteps
<1> QED
  BY <1>1, <1>3 DEF FirstSync

LEMMA RecordedType ==
  ASSUME NEW box \in Seq(SUBSET Msgs), Len(box) <= MaxInbox, NEW x \in SUBSET Msgs
  PROVE  Recorded(box, x) \in Seq(SUBSET Msgs) /\ Len(Recorded(box, x)) <= MaxInbox
<1> USE InboxAssumption
<1> DEFINE s == Append(box, x)
<1>1. s \in Seq(SUBSET Msgs) /\ Len(s) = Len(box) + 1
  OBVIOUS
<1>2. CASE Len(s) > MaxInbox
  <2>1. LastOnes(s) = SubSeq(s, Len(s) - MaxInbox + 1, Len(s))
    BY <1>2 DEF LastOnes
  <2>2. LastOnes(s) \in Seq(SUBSET Msgs) /\ Len(LastOnes(s)) = MaxInbox
    BY <1>1, <1>2, <2>1
  <2> QED
    BY <2>2 DEF Recorded
<1>3. CASE ~(Len(s) > MaxInbox)
  BY <1>1, <1>3 DEF Recorded, LastOnes
<1> QED
  BY <1>2, <1>3

(* A message that is recorded once more leaves the list as it is; a new    *)
(* one is put behind the others, of which the oldest may go.               *)
LEMMA RecordedOnce ==
  ASSUME NEW box \in Seq(SUBSET Msgs), Len(box) <= MaxInbox, NEW x \in SUBSET Msgs, IsInjective(box)
  PROVE  IsInjective(Recorded(box, x))
<1> USE InboxAssumption
<1> DEFINE s == Append(box, x)
<1>1. s \in Seq(SUBSET Msgs) /\ Len(s) = Len(box) + 1
  OBVIOUS
<1>2. CASE x \in Range(box)
  BY <1>2 DEF Recorded
<1>3. CASE x \notin Range(box)
  <2>1. \A i \in 1..Len(box) : s[i] = box[i] /\ s[i] # x
    BY <1>3 DEF Range
  <2>2. s[Len(box) + 1] = x
    OBVIOUS
  <2>3. \A i, j \in 1..Len(s) : s[i] = s[j] => i = j
    BY <1>1, <2>1, <2>2 DEF IsInjective
  <2>4. CASE Len(s) > MaxInbox
    <3> DEFINE t == SubSeq(s, Len(s) - MaxInbox + 1, Len(s))
    <3>1. Recorded(box, x) = t
      BY <1>3, <2>4 DEF Recorded, LastOnes
    <3>2. DOMAIN t = 1..MaxInbox /\ \A i \in 1..MaxInbox : t[i] = s[Len(s) - MaxInbox + i]
      BY <1>1, <2>4
    <3>3. \A i \in 1..MaxInbox : Len(s) - MaxInbox + i \in 1..Len(s)
      BY <1>1, <2>4
    <3>4. ASSUME NEW i \in 1..MaxInbox, NEW j \in 1..MaxInbox, t[i] = t[j] PROVE i = j
      <4>1. s[Len(s) - MaxInbox + i] = s[Len(s) - MaxInbox + j]
        BY <3>2, <3>4
      <4>2. Len(s) - MaxInbox + i = Len(s) - MaxInbox + j
        BY <2>3, <3>3, <4>1
      <4> QED
        BY <4>2, <1>1
    <3> HIDE DEF t
    <3> QED
      BY <3>1, <3>2, <3>4 DEF IsInjective
  <2>5. CASE ~(Len(s) > MaxInbox)
    BY <1>1, <1>3, <2>3, <2>5 DEF Recorded, LastOnes, IsInjective
  <2> QED
    BY <2>4, <2>5
<1> QED
  BY <1>2, <1>3
-----------------------------------------------------------------------------
USE DEF modem, books, faults, Failing

LEMMA InboxTypeInit == InboxInit => InboxTypeOK
<1> SUFFICES ASSUME InboxInit PROVE InboxTypeOK
  OBVIOUS
<1> USE InboxAssumption
<1>1. store \in [Storages -> [Indexes -> Msgs \cup {NONE}]]
  BY DEF InboxInit, Msgs
<1>2. proc \in [Procs -> Caller]
  BY FirstSyncType DEF InboxInit
<1>3. inbox \in Seq(SUBSET Msgs) /\ Len(inbox) <= MaxInbox
  BY DEF InboxInit
<1>4. "SM" \in Storages
  BY DEF Storages
<1> QED
  BY <1>1, <1>2, <1>3, <1>4 DEF InboxInit, InboxTypeOK

(* What an action does to the record of its process.                       *)
LEMMA ProcType ==
  ASSUME InboxTypeOK, NEW p \in Procs, NEW r \in Caller, proc' = [proc EXCEPT ![p] = r]
  PROVE  /\ proc' \in [Procs -> Caller] /\ proc'[p] = r
         /\ \A q \in Procs \ {p} : proc'[q] = proc[q]
BY DEF InboxTypeOK

LEMMA PcType ==
  ASSUME InboxTypeOK, NEW p \in Procs, NEW c \in SyncSteps, proc' = [proc EXCEPT ![p].pc = c]
  PROVE  /\ proc' \in [Procs -> Caller] /\ proc'[p].pc = c
         /\ proc'[p].list = proc[p].list /\ proc'[p].todo = proc[p].todo
         /\ \A q \in Procs \ {p} : proc'[q] = proc[q]
<1> DEFINE r == [proc[p] EXCEPT !.pc = c]
<1>0. proc \in [Procs -> Caller]
  BY DEF InboxTypeOK
<1>1. r \in Caller /\ r.pc = c /\ r.list = proc[p].list /\ r.todo = proc[p].todo
  BY <1>0 DEF Caller
<1>2. proc' = [proc EXCEPT ![p] = r]
  BY <1>0
<1> HIDE DEF r
<1>3. proc' \in [Procs -> Caller] /\ proc'[p] = r /\ \A q \in Procs \ {p} : proc'[q] = proc[q]
  BY <1>1, <1>2, ProcType
<1> QED
  BY <1>1, <1>3

LEMMA MessageType ==
  ASSUME InboxTypeOK, NEW p \in Procs, proc[p].list # {}
  PROVE  First(proc[p].list) \in proc[p].list /\ First(proc[p].list)[1] \in Indexes /\ Message(p) \in Msgs
<1>1. proc[p].list \subseteq Indexes \X Msgs
  BY DEF InboxTypeOK, Caller
<1>2. First(proc[p].list) \in proc[p].list
  BY <1>1, FirstIsListed
<1> QED
  BY <1>1, <1>2 DEF Message

LEMMA FaultType == InboxTypeOK /\ Fault => count' \in 0..MaxFaults
BY InboxAssumption DEF InboxTypeOK, Fault

LEMMA CompleteType == ASSUME NEW m PROVE Complete(m) \subseteq Msgs
BY DEF Complete, Msgs

(* What Select, List and Delete leave of the record of their process.      *)
LEMMA SelectProc ==
  ASSUME InboxTypeOK, NEW p \in Procs, Select(p)
  PROVE  /\ proc' \in [Procs -> Caller] /\ active' \in Storages
         /\ \A q \in Procs \ {p} : proc'[q] = proc[q]
         /\ proc'[p].list = proc[p].list
         /\ proc'[p].pc = "next" \/ (proc'[p].pc = "list" /\ proc'[p].todo # <<>>)
<1> DEFINE t == Tail(proc[p].todo)
           r1 == [proc[p] EXCEPT !.todo = t]
           r2 == [proc[p] EXCEPT !.pc = "list"]
<1>0. proc \in [Procs -> Caller]
  BY DEF InboxTypeOK
<1>1. proc[p].todo \in Seq(Storages) /\ proc[p].todo # <<>> /\ proc[p].pc = "next"
  BY <1>0 DEF Select, Caller
<1>2. Head(proc[p].todo) \in Storages /\ t \in Seq(Storages)
  BY <1>1
<1>3. r1 \in Caller /\ r2 \in Caller /\ r1.pc = "next" /\ r2.pc = "list" /\ r1.list = proc[p].list
      /\ r2.list = proc[p].list /\ r2.todo = proc[p].todo
  BY <1>0, <1>1, <1>2 DEF Caller, SyncSteps
<1>4. proc' = [proc EXCEPT ![p] = r1] \/ proc' = [proc EXCEPT ![p] = r2]
  BY <1>0 DEF Select
<1>5. active' \in Storages
  BY <1>2 DEF Select, InboxTypeOK
<1> HIDE DEF r1, r2
<1>6. CASE proc' = [proc EXCEPT ![p] = r1]
  <2>1. proc' \in [Procs -> Caller] /\ proc'[p] = r1 /\ \A q \in Procs \ {p} : proc'[q] = proc[q]
    BY <1>3, <1>6, ProcType
  <2> QED
    BY <1>3, <1>5, <2>1
<1>7. CASE proc' = [proc EXCEPT ![p] = r2]
  <2>1. proc' \in [Procs -> Caller] /\ proc'[p] = r2 /\ \A q \in Procs \ {p} : proc'[q] = proc[q]
    BY <1>3, <1>7, ProcType
  <2> QED
    BY <1>1, <1>3, <1>5, <2>1
<1> QED
  BY <1>4, <1>6, <1>7

LEMMA ListProc ==
  ASSUME InboxTypeOK, NEW p \in Procs, List(p), proc[p].todo # <<>>, proc[p].list = {}
  PROVE  /\ proc' \in [Procs -> Caller]
         /\ \A q \in Procs \ {p} : proc'[q] = proc[q]
         /\ proc'[p].pc = IF proc'[p].list = {} THEN "next" ELSE "handle"
         /\ \A e \in proc'[p].list : store[active][e[1]] = e[2]
<1> DEFINE found == {<<i, store[active][i]>> : i \in {k \in Indexes : store[active][k] # NONE}}
           t == Tail(proc[p].todo)
           rest == [proc[p] EXCEPT !.todo = t]
           r1 == [rest EXCEPT !.pc = IF found = {} THEN "next" ELSE "handle", !.list = found]
           r2 == [rest EXCEPT !.pc = "next"]
<1>0. proc \in [Procs -> Caller]
  BY DEF InboxTypeOK
<1>1. proc[p].todo \in Seq(Storages)
  BY <1>0 DEF Caller
<1>2. t \in Seq(Storages)
  BY <1>1
<1>3. found \subseteq Indexes \X Msgs /\ \A e \in found : store[active][e[1]] = e[2]
  BY DEF InboxTypeOK
<1>4. proc' = [proc EXCEPT ![p] = r1] \/ proc' = [proc EXCEPT ![p] = r2]
  BY <1>0 DEF List
<1> HIDE DEF found, t
<1>5. rest \in Caller /\ rest.list = {}
  BY <1>0, <1>2 DEF Caller, SyncSteps
<1> HIDE DEF rest
<1>6. r1 \in Caller /\ r2 \in Caller /\ r2.pc = "next" /\ r2.list = {} /\ r1.list = found
      /\ r1.pc = IF found = {} THEN "next" ELSE "handle"
  BY <1>3, <1>5 DEF Caller, SyncSteps
<1> HIDE DEF r1, r2
<1>7. CASE proc' = [proc EXCEPT ![p] = r1]
  <2>1. proc' \in [Procs -> Caller] /\ proc'[p] = r1 /\ \A q \in Procs \ {p} : proc'[q] = proc[q]
    BY <1>6, <1>7, ProcType
  <2> QED
    BY <1>3, <1>6, <2>1
<1>8. CASE proc' = [proc EXCEPT ![p] = r2]
  <2>1. proc' \in [Procs -> Caller] /\ proc'[p] = r2 /\ \A q \in Procs \ {p} : proc'[q] = proc[q]
    BY <1>6, <1>8, ProcType
  <2> QED
    BY <1>6, <2>1
<1> QED
  BY <1>4, <1>7, <1>8

LEMMA DeleteProc ==
  ASSUME InboxTypeOK, NEW p \in Procs, Delete(p)
  PROVE  /\ proc' \in [Procs -> Caller]
         /\ \A q \in Procs \ {p} : proc'[q] = proc[q]
         /\ proc'[p].pc = IF proc'[p].list = {} THEN "next" ELSE "handle"
         /\ proc'[p].list = proc[p].list \ {First(proc[p].list)}
<1> DEFINE l == proc[p].list \ {First(proc[p].list)}
           r == [proc[p] EXCEPT !.pc = IF l = {} THEN "next" ELSE "handle", !.list = l]
<1>0. proc \in [Procs -> Caller]
  BY DEF InboxTypeOK
<1>1. l \in SUBSET (Indexes \X Msgs)
  BY <1>0 DEF Caller
<1>2. proc' = [proc EXCEPT ![p] = r]
  BY DEF Delete
<1> HIDE DEF l
<1>3. r \in Caller /\ r.list = l /\ r.pc = IF l = {} THEN "next" ELSE "handle"
  BY <1>0, <1>1 DEF Caller, SyncSteps
<1> HIDE DEF r
<1>4. proc' \in [Procs -> Caller] /\ proc'[p] = r /\ \A q \in Procs \ {p} : proc'[q] = proc[q]
  BY <1>2, <1>3, ProcType
<1> QED
  BY <1>3, <1>4 DEF l

LEMMA OnCMTIProc ==
  ASSUME InboxTypeOK, NEW s \in Storages, OnCMTI(s)
  PROVE  /\ proc' \in [Procs -> Caller] /\ proc'["cmti"].pc = "wait" /\ proc'["cmti"].list = {}
         /\ \A q \in Procs \ {"cmti"} : proc'[q] = proc[q]
<1> DEFINE r == [Idle EXCEPT !.pc = "wait", !.todo = <<s>>]
<1>1. <<s>> \in Seq(Storages)
  OBVIOUS
<1>2. r \in Caller /\ r.pc = "wait" /\ r.list = {}
  BY <1>1 DEF Idle, Caller, SyncSteps
<1>3. proc' = [proc EXCEPT !["cmti"] = r] /\ "cmti" \in Procs
  BY DEF OnCMTI, Procs
<1> HIDE DEF r
<1> QED
  BY <1>2, <1>3, ProcType

LEMMA CheckTickProc ==
  ASSUME InboxTypeOK, CheckTick
  PROVE  /\ proc' \in [Procs -> Caller] /\ proc'["loop"].pc = "wait" /\ proc'["loop"].list = {}
         /\ \A q \in Procs \ {"loop"} : proc'[q] = proc[q]
<1> DEFINE r == FirstSync["loop"]
<1>1. r \in Caller
  BY FirstSyncType DEF Procs
<1>2. r.pc = "wait" /\ r.list = {}
  BY DEF FirstSync, Idle, Procs
<1>3. proc' = [proc EXCEPT !["loop"] = r] /\ "loop" \in Procs
  BY DEF CheckTick, Procs
<1> HIDE DEF r
<1> QED
  BY <1>1, <1>2, <1>3, ProcType

LEMMA UnlockProc ==
  ASSUME InboxTypeOK, NEW p \in Procs, Unlock(p)
  PROVE  /\ proc' \in [Procs -> Caller] /\ proc'[p].pc = "idle" /\ proc'[p].list = {}
         /\ active' \in Storages
         /\ \A q \in Procs \ {p} : proc'[q] = proc[q]
<1>1. proc' = [proc EXCEPT ![p] = Idle] /\ Idle \in Caller
  BY FirstSyncType DEF Unlock
<1>2. proc' \in [Procs -> Caller] /\ proc'[p] = Idle /\ \A q \in Procs \ {p} : proc'[q] = proc[q]
  BY <1>1, ProcType
<1>3. active' \in Storages
  BY DEF Unlock, InboxTypeOK, Storages
<1> QED
  BY <1>2, <1>3 DEF Idle

LEMMA CrashProc ==
  ASSUME Crash
  PROVE  proc' \in [Procs -> Caller] /\ \A q \in Procs : proc'[q].pc \in {"idle", "wait"} /\ proc'[q].list = {}
<1>1. proc' = FirstSync
  BY DEF Crash
<1>2. \A q \in Procs : FirstSync[q].pc \in {"idle", "wait"} /\ FirstSync[q].list = {}
  BY DEF FirstSync, Idle
<1> QED
  BY <1>1, <1>2, FirstSyncType

LEMMA InboxTypeNext == InboxInv /\ [InboxNext]_inboxVars => InboxTypeOK'
<1> SUFFICES ASSUME InboxInv, [InboxNext]_inboxVars PROVE InboxTypeOK'
  OBVIOUS
<1>0. InboxTypeOK /\ ListIsStored /\ \A p \in Procs : proc[p].pc = "list" => proc[p].todo # <<>>
  BY DEF InboxInv
<1>1. ASSUME NEW p \in Procs, Lock(p) PROVE InboxTypeOK'
  BY <1>0, <1>1, PcType DEF Lock, InboxTypeOK, SyncSteps
<1>2. ASSUME NEW p \in Procs, Select(p) PROVE InboxTypeOK'
  BY <1>0, <1>2, SelectProc, FaultType DEF Select, InboxTypeOK
<1>3. ASSUME NEW p \in Procs, List(p) PROVE InboxTypeOK'
  <2>1. proc[p].todo # <<>> /\ proc[p].list = {}
    BY <1>0, <1>3 DEF List, ListIsStored
  <2> QED
    BY <1>0, <1>3, <2>1, ListProc, FaultType DEF List, InboxTypeOK
<1>4. ASSUME NEW p \in Procs, Handle(p) PROVE InboxTypeOK'
  BY <1>0, <1>4, PcType DEF Handle, InboxTypeOK, SyncSteps
<1>5. ASSUME NEW p \in Procs, Unlock(p) PROVE InboxTypeOK'
  BY <1>0, <1>5, UnlockProc, FaultType DEF Unlock, InboxTypeOK
<1>6. ASSUME NEW p \in Procs, Record(p) PROVE InboxTypeOK'
  BY <1>0, <1>6, PcType, CompleteType, RecordedType DEF Record, InboxTypeOK, SyncSteps
<1>7. ASSUME NEW p \in Procs, Publish(p) PROVE InboxTypeOK'
  BY <1>0, <1>7, PcType, CompleteType DEF Publish, InboxTypeOK, SyncSteps
<1>8. ASSUME NEW p \in Procs, Delete(p) PROVE InboxTypeOK'
  <2>1. store' \in [Storages -> [Indexes -> Msgs \cup {NONE}]]
    BY <1>0, <1>8 DEF Delete, InboxTypeOK
  <2>2. proc' \in [Procs -> Caller]
    BY <1>0, <1>8, DeleteProc
  <2> QED
    BY <1>0, <1>8, <2>1, <2>2, FaultType DEF Delete, InboxTypeOK
<1>9. ASSUME NEW s \in Storages, OnCMTI(s) PROVE InboxTypeOK'
  BY <1>0, <1>9, OnCMTIProc DEF OnCMTI, InboxTypeOK
<1>10. ASSUME CheckTick PROVE InboxTypeOK'
  BY <1>0, <1>10, CheckTickProc DEF CheckTick, InboxTypeOK
<1>11. ASSUME Flush PROVE InboxTypeOK'
  BY <1>0, <1>11, RecordedType DEF Flush, InboxTypeOK, Msgs
<1>12. ASSUME ClearReceivedSMS PROVE InboxTypeOK'
  BY <1>0, <1>12, InboxAssumption DEF ClearReceivedSMS, InboxTypeOK
<1>13. ASSUME Crash PROVE InboxTypeOK'
  BY <1>0, <1>13, CrashProc, FaultType DEF Crash, InboxTypeOK
<1>14. ASSUME NEW m \in Msgs, Arrive(m) PROVE InboxTypeOK'
  <2>1. PICK i \in Indexes : store' = [store EXCEPT ![active][i] = m]
    BY <1>0, <1>14, ArriveAtFree
  <2>2. store' \in [Storages -> [Indexes -> Msgs \cup {NONE}]]
    BY <1>0, <2>1 DEF InboxTypeOK
  <2>3. notified' \subseteq Storages
    BY <1>0, <1>14 DEF Arrive, InboxTypeOK
  <2> QED
    BY <1>0, <1>14, <2>2, <2>3 DEF Arrive, InboxTypeOK
<1>15. ASSUME UNCHANGED inboxVars PROVE InboxTypeOK'
  BY <1>0, <1>15 DEF inboxVars, InboxTypeOK
<1> QED
  BY <1>1, <1>2, <1>3, <1>4, <1>5, <1>6, <1>7, <1>8, <1>9, <1>10, <1>11, <1>12, <1>13, <1>14, <1>15
  DEF InboxNext, Work, Sync
-----------------------------------------------------------------------------
(* syncMu: while a process works on the storages, no other one does.       *)
LEMMA OthersWait ==
  ASSUME InboxInv, NEW p \in Procs, proc[p].pc \notin {"idle", "wait"}
  PROVE  lock = p /\ \A q \in Procs \ {p} : proc[q].pc \in {"idle", "wait"} /\ proc[q].list = {}
<1>1. lock = p
  BY DEF InboxInv, HolderSyncs
<1>2. \A q \in Procs \ {p} : proc[q].pc \in {"idle", "wait"}
  BY <1>1 DEF InboxInv, HolderSyncs
<1> QED
  BY <1>1, <1>2 DEF InboxInv, ListIsStored

(* A lock that is free has nobody past it.                                 *)
LEMMA FreeLock ==
  ASSUME InboxInv, lock = NONE
  PROVE  \A q \in Procs : proc[q].pc \in {"idle", "wait"} /\ proc[q].list = {}
<1>1. \A q \in Procs : proc[q].pc \in {"idle", "wait"}
  BY InboxAssumption DEF InboxInv, HolderSyncs, Procs
<1> QED
  BY <1>1 DEF InboxInv, ListIsStored

LEMMA SyncHolderStep == InboxInv /\ [InboxNext]_inboxVars => HolderSyncs'
<1> SUFFICES ASSUME InboxInv, [InboxNext]_inboxVars PROVE HolderSyncs'
  OBVIOUS
<1>0. InboxTypeOK /\ HolderSyncs /\ ListIsStored /\ \A p \in Procs : proc[p].pc = "list" => proc[p].todo # <<>>
  BY DEF InboxInv
<1>1. ASSUME NEW p \in Procs, Lock(p) PROVE HolderSyncs'
  BY <1>0, <1>1, PcType, FreeLock DEF Lock, HolderSyncs, SyncSteps
<1>2. ASSUME NEW p \in Procs, Select(p) PROVE HolderSyncs'
  BY <1>0, <1>2, SelectProc DEF Select, HolderSyncs
<1>3. ASSUME NEW p \in Procs, List(p) PROVE HolderSyncs'
  <2>1. proc[p].todo # <<>> /\ proc[p].list = {}
    BY <1>0, <1>3 DEF List, ListIsStored
  <2> QED
    BY <1>0, <1>3, <2>1, ListProc DEF List, HolderSyncs
<1>4. ASSUME NEW p \in Procs, Handle(p) PROVE HolderSyncs'
  BY <1>0, <1>4, PcType DEF Handle, HolderSyncs, SyncSteps
<1>5. ASSUME NEW p \in Procs, Unlock(p) PROVE HolderSyncs'
  BY <1>0, <1>5, UnlockProc, OthersWait DEF Unlock, HolderSyncs
<1>6. ASSUME NEW p \in Procs, Record(p) PROVE HolderSyncs'
  BY <1>0, <1>6, PcType DEF Record, HolderSyncs, SyncSteps
<1>7. ASSUME NEW p \in Procs, Publish(p) PROVE HolderSyncs'
  BY <1>0, <1>7, PcType DEF Publish, HolderSyncs, SyncSteps
<1>8. ASSUME NEW p \in Procs, Delete(p) PROVE HolderSyncs'
  BY <1>0, <1>8, DeleteProc DEF Delete, HolderSyncs
<1>9. ASSUME NEW s \in Storages, OnCMTI(s) PROVE HolderSyncs'
  BY <1>0, <1>9, OnCMTIProc DEF OnCMTI, HolderSyncs
<1>10. ASSUME CheckTick PROVE HolderSyncs'
  BY <1>0, <1>10, CheckTickProc DEF CheckTick, HolderSyncs
<1>11. ASSUME Crash PROVE HolderSyncs'
  BY <1>11, CrashProc DEF HolderSyncs
<1>12. ASSUME UNCHANGED <<proc, lock>> PROVE HolderSyncs'
  BY <1>0, <1>12 DEF HolderSyncs
<1> QED
  BY <1>1, <1>2, <1>3, <1>4, <1>5, <1>6, <1>7, <1>8, <1>9, <1>10, <1>11, <1>12
  DEF InboxNext, Work, Sync, Flush, ClearReceivedSMS, Arrive, inboxVars

(* The storage a list was read from stays selected, and keeps what is on   *)
(* the list, until the list is done: a new message takes a free index.     *)
LEMMA ListStep == InboxInv /\ [InboxNext]_inboxVars => ListIsStored'
<1> SUFFICES ASSUME InboxInv, [InboxNext]_inboxVars PROVE ListIsStored'
  OBVIOUS
<1>0. InboxTypeOK /\ HolderSyncs /\ ListIsStored /\ \A p \in Procs : proc[p].pc = "list" => proc[p].todo # <<>>
  BY DEF InboxInv
<1>1. ASSUME NEW p \in Procs, Lock(p) PROVE ListIsStored'
  BY <1>0, <1>1, PcType DEF Lock, ListIsStored, SyncSteps
<1>2. ASSUME NEW p \in Procs, Select(p) PROVE ListIsStored'
  BY <1>0, <1>2, SelectProc, OthersWait DEF Select, ListIsStored
<1>3. ASSUME NEW p \in Procs, List(p) PROVE ListIsStored'
  <2>1. proc[p].todo # <<>> /\ proc[p].list = {}
    BY <1>0, <1>3 DEF List, ListIsStored
  <2> QED
    BY <1>0, <1>3, <2>1, ListProc DEF List, ListIsStored
<1>4. ASSUME NEW p \in Procs, Handle(p) PROVE ListIsStored'
  BY <1>0, <1>4, PcType DEF Handle, ListIsStored, SyncSteps
<1>5. ASSUME NEW p \in Procs, Unlock(p) PROVE ListIsStored'
  BY <1>0, <1>5, UnlockProc, OthersWait DEF Unlock, ListIsStored
<1>6. ASSUME NEW p \in Procs, Record(p) PROVE ListIsStored'
  BY <1>0, <1>6, PcType DEF Record, ListIsStored, SyncSteps
<1>7. ASSUME NEW p \in Procs, Publish(p) PROVE ListIsStored'
  BY <1>0, <1>7, PcType DEF Publish, ListIsStored, SyncSteps
<1>8. ASSUME NEW p \in Procs, Delete(p) PROVE ListIsStored'
  <2> DEFINE d == First(proc[p].list)
  <2>1. d \in proc[p].list /\ d[1] \in Indexes /\ active \in Storages
    BY <1>0, <1>8, MessageType DEF Delete, ListIsStored, InboxTypeOK
  <2>2. proc[p].list \subseteq Indexes \X Msgs
    BY <1>0 DEF InboxTypeOK, Caller
  <2>3. \A e \in proc[p].list \ {d} : e[1] # d[1]
    BY <1>0, <2>1, <2>2 DEF ListIsStored
  <2>4. \A e \in proc[p].list \ {d} : store'[active][e[1]] = e[2]
    BY <1>0, <1>8, <2>1, <2>2, <2>3 DEF Delete, ListIsStored, InboxTypeOK
  <2>5. proc'[p].list = proc[p].list \ {d} /\ proc'[p].pc = IF proc'[p].list = {} THEN "next" ELSE "handle"
    BY <1>0, <1>8, DeleteProc
  <2>6. \A q \in Procs \ {p} : proc'[q] = proc[q] /\ proc[q].pc \in {"idle", "wait"} /\ proc[q].list = {}
    BY <1>0, <1>8, DeleteProc, OthersWait DEF Delete
  <2>7. active' = active
    BY <1>8 DEF Delete
  <2> HIDE DEF d
  <2> QED
    BY <2>4, <2>5, <2>6, <2>7 DEF ListIsStored
<1>9. ASSUME NEW s \in Storages, OnCMTI(s) PROVE ListIsStored'
  BY <1>0, <1>9, OnCMTIProc DEF OnCMTI, ListIsStored
<1>10. ASSUME CheckTick PROVE ListIsStored'
  BY <1>0, <1>10, CheckTickProc DEF CheckTick, ListIsStored
<1>11. ASSUME Crash PROVE ListIsStored'
  BY <1>11, CrashProc DEF ListIsStored
<1>12. ASSUME NEW m \in Msgs, Arrive(m) PROVE ListIsStored'
  <2>1. PICK i \in Indexes : store[active][i] = NONE /\ store' = [store EXCEPT ![active][i] = m]
    BY <1>0, <1>12, ArriveAtFree
  <2>2. \A p \in Procs : proc[p].list \subseteq Indexes \X Msgs
    BY <1>0 DEF InboxTypeOK, Caller
  <2>3. \A p \in Procs : \A e \in proc[p].list : e[1] # i
    BY <1>0, <2>1, <2>2, InboxAssumption DEF ListIsStored, Msgs
  <2>4. \A p \in Procs : \A e \in proc[p].list : store'[active][e[1]] = e[2]
    BY <1>0, <2>1, <2>2, <2>3 DEF ListIsStored, InboxTypeOK
  <2>5. UNCHANGED <<active, proc>>
    BY <1>12 DEF Arrive
  <2> QED
    BY <1>0, <2>4, <2>5 DEF ListIsStored
<1>13. ASSUME UNCHANGED <<store, active, proc>> PROVE ListIsStored'
  BY <1>0, <1>13 DEF ListIsStored
<1> QED
  BY <1>1, <1>2, <1>3, <1>4, <1>5, <1>6, <1>7, <1>8, <1>9, <1>10, <1>11, <1>12, <1>13
  DEF InboxNext, Work, Sync, Flush, ClearReceivedSMS, inboxVars

(* A message is deleted after it was junk, went to the assembler or was    *)
(* published, and what the assembler's timer takes is published.           *)
LEMMA DeletedStep == InboxInv /\ [InboxNext]_inboxVars => DeletedIsKept'
<1> SUFFICES ASSUME InboxInv, [InboxNext]_inboxVars PROVE DeletedIsKept'
  OBVIOUS
<1>0. InboxTypeOK /\ HolderSyncs /\ ListIsStored /\ DeletedIsKept /\ \A p \in Procs : proc[p].pc = "list" => proc[p].todo # <<>>
  BY DEF InboxInv
<1>1. ASSUME NEW p \in Procs, proc'[p].pc # "delete", \A q \in Procs \ {p} : proc'[q] = proc[q], UNCHANGED <<asm, published>>
      PROVE  DeletedIsKept'
  BY <1>0, <1>1 DEF DeletedIsKept, Message
<1>2. ASSUME NEW p \in Procs, Lock(p) PROVE DeletedIsKept'
  BY <1>0, <1>1, <1>2, PcType DEF Lock, SyncSteps
<1>3. ASSUME NEW p \in Procs, Select(p) PROVE DeletedIsKept'
  BY <1>0, <1>1, <1>3, SelectProc DEF Select
<1>4. ASSUME NEW p \in Procs, List(p) PROVE DeletedIsKept'
  <2>1. proc[p].todo # <<>> /\ proc[p].list = {}
    BY <1>0, <1>4 DEF List, ListIsStored
  <2> QED
    BY <1>0, <1>1, <1>4, <2>1, ListProc DEF List
<1>5. ASSUME NEW p \in Procs, Unlock(p) PROVE DeletedIsKept'
  BY <1>0, <1>1, <1>5, UnlockProc DEF Unlock
<1>6. ASSUME NEW p \in Procs, Record(p) PROVE DeletedIsKept'
  BY <1>0, <1>1, <1>6, PcType DEF Record, SyncSteps
<1>7. ASSUME NEW p \in Procs, Delete(p) PROVE DeletedIsKept'
  <2>1. proc'[p].pc # "delete" /\ \A q \in Procs \ {p} : proc'[q] = proc[q]
    BY <1>0, <1>7, DeleteProc
  <2>2. UNCHANGED <<asm, published>>
    BY <1>7 DEF Delete
  <2> QED
    BY <1>1, <2>1, <2>2
<1>8. ASSUME NEW s \in Storages, OnCMTI(s) PROVE DeletedIsKept'
  BY <1>0, <1>1, <1>8, OnCMTIProc DEF OnCMTI, Procs
<1>9. ASSUME CheckTick PROVE DeletedIsKept'
  BY <1>0, <1>1, <1>9, CheckTickProc DEF CheckTick, Procs
<1>10. ASSUME NEW p \in Procs, Handle(p) PROVE DeletedIsKept'
  <2> DEFINE m == Message(p)
             parts == asm \cup ({m} \cap Multi)
             whole == m \in Singles \/ (m \in Multi /\ parts = Multi)
  <2>1. m \in Msgs
    BY <1>0, <1>10, MessageType DEF Handle, ListIsStored
  <2>2. proc' = [proc EXCEPT ![p].pc = IF whole THEN "record" ELSE "delete"] /\ asm' = IF parts = Multi THEN {} ELSE parts
    BY <1>10 DEF Handle
  <2>3. proc'[p].pc = (IF whole THEN "record" ELSE "delete") /\ proc'[p].list = proc[p].list
    BY <1>0, <2>2, PcType DEF SyncSteps
  <2>4. Message(p)' = m
    BY <2>3 DEF Message
  <2>5. ~whole => m \in Junk \cup asm'
    BY <2>1, <2>2 DEF Msgs
  <2>6. \A q \in Procs \ {p} : proc'[q] = proc[q] /\ proc[q].pc \in {"idle", "wait"}
    BY <1>0, <1>10, <2>2, PcType, OthersWait DEF Handle, SyncSteps
  <2> HIDE DEF m, parts, whole
  <2> QED
    BY <2>3, <2>4, <2>5, <2>6 DEF DeletedIsKept
<1>11. ASSUME NEW p \in Procs, Publish(p) PROVE DeletedIsKept'
  <2>1. Message(p) \in Msgs
    BY <1>0, <1>11, MessageType DEF Publish, ListIsStored
  <2>2. proc'[p].list = proc[p].list /\ \A q \in Procs \ {p} : proc'[q] = proc[q] /\ proc[q].pc \in {"idle", "wait"}
    BY <1>0, <1>11, PcType, OthersWait DEF Publish, SyncSteps
  <2>3. Message(p)' = Message(p)
    BY <2>2 DEF Message
  <2>4. Message(p) \in Junk \cup published'
    BY <1>11, <2>1 DEF Publish, Complete, Msgs
  <2> QED
    BY <2>2, <2>3, <2>4 DEF DeletedIsKept
<1>12. ASSUME Crash PROVE DeletedIsKept'
  BY <1>12, CrashProc DEF DeletedIsKept
<1>13. ASSUME UNCHANGED proc, asm \cup published \subseteq asm' \cup published' PROVE DeletedIsKept'
  BY <1>0, <1>13 DEF DeletedIsKept, Message
<1>14. ASSUME Flush PROVE DeletedIsKept'
  BY <1>13, <1>14 DEF Flush
<1>15. ASSUME UNCHANGED <<proc, asm, published>> PROVE DeletedIsKept'
  BY <1>13, <1>15
<1> QED
  BY <1>2, <1>3, <1>4, <1>5, <1>6, <1>7, <1>8, <1>9, <1>10, <1>11, <1>12, <1>14, <1>15
  DEF InboxNext, Work, Sync, ClearReceivedSMS, Arrive, inboxVars

(* The remaining parts of the invariant.                                   *)
LEMMA InboxRestStep ==
  InboxInv /\ [InboxNext]_inboxVars =>
    (arrived \cap Junk = {} /\ (asm = {} \/ asm # Multi) /\ \A p \in Procs : proc[p].pc = "list" => proc[p].todo # <<>>)'
<1> SUFFICES ASSUME InboxInv, [InboxNext]_inboxVars
             PROVE  (arrived \cap Junk = {} /\ (asm = {} \/ asm # Multi) /\ \A p \in Procs : proc[p].pc = "list" => proc[p].todo # <<>>)'
  OBVIOUS
<1>0. InboxTypeOK /\ ListIsStored /\ arrived \cap Junk = {} /\ (asm = {} \/ asm # Multi)
      /\ \A p \in Procs : proc[p].pc = "list" => proc[p].todo # <<>>
  BY DEF InboxInv
<1>1. arrived' \cap Junk = {}
  BY <1>0, InboxAssumption DEF InboxNext, Work, Sync, Lock, Select, List, Handle, Unlock, Record, Publish, Delete, OnCMTI,
     CheckTick, Flush, ClearReceivedSMS, Crash, Arrive, inboxVars
<1>2. asm' = {} \/ asm' # Multi
  BY <1>0 DEF InboxNext, Work, Sync, Lock, Select, List, Handle, Unlock, Record, Publish, Delete, OnCMTI,
     CheckTick, Flush, ClearReceivedSMS, Crash, Arrive, inboxVars
<1> DEFINE Goal == \A p \in Procs : proc'[p].pc = "list" => proc'[p].todo # <<>>
<1>a. ASSUME NEW p \in Procs, proc'[p].pc # "list" \/ proc'[p].todo # <<>>, \A q \in Procs \ {p} : proc'[q] = proc[q] PROVE Goal
  BY <1>0, <1>a
<1> HIDE DEF Goal
<1>3. ASSUME NEW p \in Procs, Sync(p) PROVE Goal
  <2>1. CASE Lock(p) \/ Handle(p) \/ Record(p) \/ Publish(p)
    <3>1. PICK c \in SyncSteps \ {"list"} : proc' = [proc EXCEPT ![p].pc = c]
      BY <2>1 DEF Lock, Handle, Record, Publish, SyncSteps
    <3> QED
      BY <1>0, <1>a, <3>1, PcType
  <2>2. CASE Select(p)
    BY <1>0, <1>a, <2>2, SelectProc
  <2>3. CASE List(p)
    <3>1. proc[p].todo # <<>> /\ proc[p].list = {}
      BY <1>0, <2>3 DEF List, ListIsStored
    <3> QED
      BY <1>0, <1>a, <2>3, <3>1, ListProc
  <2>4. CASE Unlock(p)
    BY <1>0, <1>a, <2>4, UnlockProc
  <2>5. CASE Delete(p)
    BY <1>0, <1>a, <2>5, DeleteProc
  <2> QED
    BY <1>3, <2>1, <2>2, <2>3, <2>4, <2>5 DEF Sync
<1>4. ASSUME NEW s \in Storages, OnCMTI(s) PROVE Goal
  BY <1>0, <1>a, <1>4, OnCMTIProc DEF Procs
<1>5. ASSUME CheckTick PROVE Goal
  BY <1>0, <1>a, <1>5, CheckTickProc DEF Procs
<1>6. ASSUME Crash PROVE Goal
  BY <1>6, CrashProc DEF Goal
<1>7. ASSUME UNCHANGED proc PROVE Goal
  BY <1>0, <1>7 DEF Goal
<1>8. Goal
  BY <1>3, <1>4, <1>5, <1>6, <1>7 DEF InboxNext, Work, Flush, ClearReceivedSMS, Arrive, inboxVars
<1> QED
  BY <1>1, <1>2, <1>8 DEF Goal

(* No message goes.                                                        *)
LEMMA InHandIs == ASSUME NEW m PROVE m \in InHand <=> \E p \in Procs : proc[p].pc \in {"record", "publish"} /\ m \in Complete(Message(p))
BY DEF InHand

LEMMA NoneLostStep == InboxInv /\ [InboxNext]_inboxVars => NoneLost'
<1> SUFFICES ASSUME InboxInv, [InboxNext]_inboxVars PROVE NoneLost'
  OBVIOUS
<1>0. InboxTypeOK /\ HolderSyncs /\ ListIsStored /\ DeletedIsKept /\ NoneLost
      /\ arrived \cap Junk = {} /\ (asm = {} \/ asm # Multi)
      /\ \A p \in Procs : proc[p].pc = "list" => proc[p].todo # <<>>
  BY DEF InboxInv
<1> DEFINE Kept == Stored("SM") \cup Stored("ME") \cup asm \cup InHand \cup published \cup lost
<1>a. ASSUME arrived' = arrived, \A m \in arrived : m \in Kept => m \in Kept' PROVE NoneLost'
  BY <1>0, <1>a DEF NoneLost
(* A step of a process that is not in onReceived, and does not enter it.   *)
<1>b. ASSUME UNCHANGED <<store, asm, arrived, published, lost>>, InHand \subseteq InHand' PROVE NoneLost'
  <2>1. \A m \in arrived : m \in Kept => m \in Kept'
    BY <1>b DEF Stored
  <2> QED
    BY <1>a, <1>b, <2>1
<1>c. ASSUME NEW p \in Procs, proc[p].pc \notin {"record", "publish"}, \A q \in Procs \ {p} : proc'[q] = proc[q]
      PROVE  InHand \subseteq InHand'
  BY <1>c DEF InHand, Message
<1>1. ASSUME NEW p \in Procs, Lock(p) PROVE NoneLost'
  BY <1>0, <1>b, <1>c, <1>1, PcType DEF Lock, SyncSteps
<1>2. ASSUME NEW p \in Procs, Select(p) PROVE NoneLost'
  BY <1>0, <1>b, <1>c, <1>2, SelectProc DEF Select
<1>3. ASSUME NEW p \in Procs, List(p) PROVE NoneLost'
  <2>1. proc[p].todo # <<>> /\ proc[p].list = {}
    BY <1>0, <1>3 DEF List, ListIsStored
  <2> QED
    BY <1>0, <1>b, <1>c, <1>3, <2>1, ListProc DEF List
<1>4. ASSUME NEW p \in Procs, Unlock(p) PROVE NoneLost'
  BY <1>0, <1>b, <1>c, <1>4, UnlockProc DEF Unlock
<1>5. ASSUME NEW s \in Storages, OnCMTI(s) PROVE NoneLost'
  BY <1>0, <1>b, <1>c, <1>5, OnCMTIProc DEF OnCMTI, Procs
<1>6. ASSUME CheckTick PROVE NoneLost'
  BY <1>0, <1>b, <1>c, <1>6, CheckTickProc DEF CheckTick, Procs
<1>7. ASSUME NEW p \in Procs, Record(p) PROVE NoneLost'
  <2>1. proc'[p].pc = "publish" /\ proc'[p].list = proc[p].list /\ \A q \in Procs \ {p} : proc'[q] = proc[q]
    BY <1>0, <1>7, PcType DEF Record, SyncSteps
  <2>2. InHand \subseteq InHand'
    BY <2>1 DEF InHand, Message
  <2> QED
    BY <1>b, <1>7, <2>2 DEF Record
<1>8. ASSUME NEW p \in Procs, Publish(p) PROVE NoneLost'
  <2>1. \A q \in Procs \ {p} : proc'[q] = proc[q]
    BY <1>0, <1>8, PcType DEF Publish, SyncSteps
  <2>2. InHand \subseteq InHand' \cup published'
    BY <1>8, <2>1 DEF InHand, Message, Publish
  <2>3. UNCHANGED <<store, asm, arrived, lost>> /\ published \subseteq published'
    BY <1>8 DEF Publish
  <2>4. \A m \in arrived : m \in Kept => m \in Kept'
    BY <2>2, <2>3 DEF Stored
  <2> QED
    BY <1>a, <2>3, <2>4
<1>9. ASSUME NEW p \in Procs, Handle(p) PROVE NoneLost'
  <2> DEFINE m == Message(p)
             parts == asm \cup ({m} \cap Multi)
             whole == m \in Singles \/ (m \in Multi /\ parts = Multi)
  <2>1. proc' = [proc EXCEPT ![p].pc = IF whole THEN "record" ELSE "delete"] /\ asm' = IF parts = Multi THEN {} ELSE parts
    BY <1>9 DEF Handle
  <2>2. proc'[p].pc = (IF whole THEN "record" ELSE "delete") /\ proc'[p].list = proc[p].list
        /\ \A q \in Procs \ {p} : proc'[q] = proc[q]
    BY <1>0, <2>1, PcType DEF SyncSteps
  <2>3. InHand \subseteq InHand'
    BY <1>9, <1>c, <2>2 DEF Handle
  <2>4. m \in Multi /\ parts = Multi => Multi \subseteq InHand'
    <3>1. Message(p)' = m
      BY <2>2 DEF Message
    <3>2. ASSUME m \in Multi, parts = Multi PROVE Complete(m) = Multi /\ proc'[p].pc = "record"
      BY <2>2, <3>2, InboxAssumption DEF Complete
    <3> HIDE DEF m, parts
    <3> QED
      BY <3>1, <3>2 DEF InHand
  <2>5. asm \subseteq asm' \cup InHand'
    BY <1>0, <2>1, <2>4 DEF InboxTypeOK
  <2>6. UNCHANGED <<store, arrived, published, lost>>
    BY <1>9 DEF Handle
  <2>7. \A x \in arrived : x \in Kept => x \in Kept'
    BY <2>3, <2>5, <2>6 DEF Stored
  <2> QED
    BY <1>a, <2>6, <2>7
<1>10. ASSUME NEW p \in Procs, Delete(p) PROVE NoneLost'
  <2> DEFINE d == First(proc[p].list)
  <2>1. d \in proc[p].list /\ d[1] \in Indexes /\ d[2] = Message(p) /\ active \in Storages
    BY <1>0, <1>10, MessageType DEF Delete, ListIsStored, InboxTypeOK, Message
  <2>2. store[active][d[1]] = d[2]
    BY <1>0, <2>1 DEF ListIsStored
  <2>3. d[2] \in Junk \cup asm \cup published
    BY <1>0, <1>10, <2>1 DEF Delete, DeletedIsKept
  <2>4. store' = [store EXCEPT ![active][d[1]] = NONE] \/ store' = store
    BY <1>10 DEF Delete
  <2> HIDE DEF d
  <2>5. ASSUME NEW s \in Storages, NEW m \in Stored(s) \ {d[2]} PROVE m \in Stored(s)'
    <3>1. PICK i \in Indexes : store[s][i] = m /\ m # NONE
      BY <2>5 DEF Stored
    <3>2. ~(s = active /\ i = d[1])
      BY <2>2, <2>5, <3>1
    <3>3. store'[s][i] = m
      BY <1>0, <2>1, <2>4, <3>1, <3>2 DEF InboxTypeOK
    <3> QED
      BY <3>1, <3>3 DEF Stored
  <2>6. InHand \subseteq InHand'
    <3>1. \A q \in Procs \ {p} : proc'[q] = proc[q]
      BY <1>0, <1>10, DeleteProc
    <3> QED
      BY <1>c, <1>10, <3>1 DEF Delete
  <2>7. UNCHANGED <<asm, arrived, published>> /\ lost \subseteq lost'
    BY <1>10 DEF Delete
  <2>8. \A m \in arrived : m \in Kept => m \in Kept'
    BY <1>0, <2>3, <2>5, <2>6, <2>7 DEF Storages
  <2> QED
    BY <1>a, <2>7, <2>8
<1>11. ASSUME Flush PROVE NoneLost'
  <2>1. UNCHANGED <<store, arrived, lost, proc>> /\ asm \cup published \subseteq published'
    BY <1>11 DEF Flush
  <2>2. InHand' = InHand
    BY <2>1 DEF InHand, Message
  <2>3. \A m \in arrived : m \in Kept => m \in Kept'
    BY <2>1, <2>2 DEF Stored
  <2> QED
    BY <1>a, <2>1, <2>3
<1>12. ASSUME UNCHANGED <<store, asm, arrived, published, lost, proc>> PROVE NoneLost'
  <2>1. InHand' = InHand
    BY <1>12 DEF InHand, Message
  <2> QED
    BY <1>b, <1>12, <2>1
(* A message of one part is on the list until it is deleted, and so in the *)
(* storage; parts that were in hand are lost.                              *)
<1>13. ASSUME Crash PROVE NoneLost'
  <2>1. UNCHANGED <<store, active, arrived, published>> /\ lost' = lost \cup ((asm \cup InHand) \cap Multi)
    BY <1>13 DEF Crash
  <2>2. ASSUME NEW m \in InHand PROVE m \in Multi \cup Stored("SM") \cup Stored("ME")
    <3>1. PICK p \in Procs : proc[p].pc \in {"record", "publish"} /\ m \in Complete(Message(p))
      BY <2>2, InHandIs
    <3>2. CASE Message(p) \in Singles
      <4>1. First(proc[p].list) \in proc[p].list /\ First(proc[p].list)[1] \in Indexes
        BY <1>0, <3>1, MessageType DEF ListIsStored
      <4>2. store[active][First(proc[p].list)[1]] = Message(p)
        BY <1>0, <4>1 DEF ListIsStored, Message
      <4>3. Message(p) \in Stored(active) /\ m = Message(p)
        BY <3>1, <3>2, <4>1, <4>2, InboxAssumption DEF Stored, Complete
      <4> QED
        BY <1>0, <4>3 DEF InboxTypeOK, Storages
    <3>3. CASE Message(p) \notin Singles
      BY <3>1, <3>3 DEF Complete
    <3> QED
      BY <3>2, <3>3
  <2>3. Stored("SM")' = Stored("SM") /\ Stored("ME")' = Stored("ME")
    BY <2>1 DEF Stored
  <2>4. asm \subseteq Multi
    BY <1>0 DEF InboxTypeOK
  <2>5. \A m \in arrived : m \in Kept => m \in Kept'
    BY <2>1, <2>2, <2>3, <2>4
  <2> QED
    BY <1>a, <2>1, <2>5
<1>14. ASSUME NEW m \in Msgs, Arrive(m) PROVE NoneLost'
  <2>1. PICK i \in Indexes : store[active][i] = NONE /\ store' = [store EXCEPT ![active][i] = m]
    BY <1>0, <1>14, ArriveAtFree
  <2>2. UNCHANGED <<asm, published, lost, proc, active>> /\ arrived' = arrived \cup {m}
    BY <1>14 DEF Arrive
  <2>3. InHand' = InHand
    BY <2>2 DEF InHand, Message
  <2>4. ASSUME NEW s \in Storages, NEW x \in Stored(s) PROVE x \in Stored(s)'
    <3>1. PICK k \in Indexes : store[s][k] = x /\ x # NONE
      BY <2>4 DEF Stored
    <3>2. store'[s][k] = x
      BY <1>0, <2>1, <3>1 DEF InboxTypeOK
    <3> QED
      BY <3>1, <3>2 DEF Stored
  <2>5. m \in Stored(active)' /\ active \in Storages
    <3>1. store'[active][i] = m
      BY <1>0, <2>1 DEF InboxTypeOK
    <3> QED
      BY <1>0, <2>2, <3>1, InboxAssumption DEF InboxTypeOK, Stored, Msgs
  <2> QED
    BY <1>0, <2>2, <2>3, <2>4, <2>5 DEF NoneLost, Storages
<1> QED
  BY <1>1, <1>2, <1>3, <1>4, <1>5, <1>6, <1>7, <1>8, <1>9, <1>10, <1>11, <1>12, <1>13, <1>14
  DEF InboxNext, Work, Sync, ClearReceivedSMS, inboxVars

LEMMA InboxInvInit == InboxInit => InboxInv
<1> SUFFICES ASSUME InboxInit PROVE InboxInv
  OBVIOUS
<1>1. InboxTypeOK
  BY InboxTypeInit
<1>2. \A p \in Procs : proc[p].pc \in {"idle", "wait"} /\ proc[p].list = {}
  BY DEF InboxInit, FirstSync, Idle
<1>3. HolderSyncs /\ ListIsStored /\ DeletedIsKept /\ \A p \in Procs : proc[p].pc = "list" => proc[p].todo # <<>>
  BY <1>2 DEF HolderSyncs, ListIsStored, DeletedIsKept
<1>4. arrived = {} /\ asm = {}
  BY DEF InboxInit
<1>5. NoneLost
  BY <1>4 DEF NoneLost
<1> QED
  BY <1>1, <1>3, <1>4, <1>5 DEF InboxInv

LEMMA InboxInvariant == InboxSpec => []InboxInv
<1>1. InboxInv /\ [InboxNext]_inboxVars => InboxInv'
  <2> SUFFICES ASSUME InboxInv, [InboxNext]_inboxVars PROVE InboxInv'
    OBVIOUS
  <2>1. InboxTypeOK' /\ HolderSyncs' /\ ListIsStored' /\ DeletedIsKept' /\ NoneLost'
    BY InboxTypeNext, SyncHolderStep, ListStep, DeletedStep, NoneLostStep
  <2> QED
    BY <2>1, InboxRestStep DEF InboxInv
<1> QED
  BY InboxInvInit, <1>1, PTL DEF InboxSpec

(* The storages, the callers of SyncStoredMessages and the inbox keep      *)
(* their types, the inbox its limit.                                       *)
THEOREM InboxTypeCorrect == InboxSpec => []InboxTypeOK
<1>1. InboxInv => InboxTypeOK
  BY DEF InboxInv
<1> QED
  BY InboxInvariant, <1>1, PTL

(* For any storages, messages and faults: a message the network has        *)
(* delivered is stored, in hand or published, unless a crash took parts    *)
(* from the assembler.                                                     *)
THEOREM NoMessageLost == InboxSpec => []NoneLost
<1>1. InboxInv => NoneLost
  BY DEF InboxInv
<1> QED
  BY InboxInvariant, <1>1, PTL

(* DeleteMessage deletes, by its index, the message that was listed there, *)
(* after it was published, unless it is junk or a part that waits.         *)
THEOREM DeletesWhatItHandled == InboxSpec => [](ListIsStored /\ DeletedIsKept)
<1>1. InboxInv => ListIsStored /\ DeletedIsKept
  BY DEF InboxInv
<1> QED
  BY InboxInvariant, <1>1, PTL

(* recordIncomingSMS lists no message twice, whatever is read again and    *)
(* whatever the limit has pushed out.                                      *)
THEOREM ListedOnce == InboxSpec => []InboxOnce
<1>1. InboxInit => InboxOnce
  BY DEF InboxInit, InboxOnce, IsInjective
<1>2. InboxInv /\ InboxOnce /\ [InboxNext]_inboxVars => InboxOnce'
  <2> SUFFICES ASSUME InboxInv, InboxOnce, [InboxNext]_inboxVars PROVE InboxOnce'
    OBVIOUS
  <2>0. inbox \in Seq(SUBSET Msgs) /\ Len(inbox) <= MaxInbox /\ asm \subseteq Msgs
    BY DEF InboxInv, InboxTypeOK, Msgs
  <2>1. ASSUME NEW x \in SUBSET Msgs, inbox' = Recorded(inbox, x) PROVE InboxOnce'
    BY <2>0, <2>1, RecordedOnce DEF InboxOnce
  <2>2. ASSUME NEW p \in Procs, Record(p) PROVE InboxOnce'
    BY <2>1, <2>2, CompleteType DEF Record
  <2>3. CASE Flush
    BY <2>0, <2>1, <2>3 DEF Flush
  <2>4. CASE ClearReceivedSMS
    BY <2>4 DEF ClearReceivedSMS, InboxOnce, IsInjective
  <2>5. CASE inbox' = inbox
    BY <2>5 DEF InboxOnce
  <2> QED
    BY <2>2, <2>3, <2>4, <2>5 DEF InboxNext, Work, Sync, Lock, Select, List, Handle, Unlock, Publish, Delete, OnCMTI,
       CheckTick, Crash, Arrive, inboxVars
<1> QED
  BY InboxInvariant, <1>1, <1>2, PTL DEF InboxSpec
=============================================================================
