------------------------------- MODULE Inbox -------------------------------
(***************************************************************************)
(* Stored messages and the inbox: SyncStoredMessages (sms_storage.go) with *)
(* the storage commands of the drivers (drivers/storage.go), its two kinds *)
(* of callers (a goroutine per +CMTI notification in sms_urc.go; the first *)
(* sync of a session and the check every minute in gateway.go and          *)
(* gateway_ops.go), and the inbox they fill (inbox.go), of which the call  *)
(* history (call_history.go) is a copy without the search for duplicates.  *)
(*                                                                         *)
(* The modem has two storages; the selected one is also the one it stores  *)
(* new messages in, at the first free index.  Commands may fail, a         *)
(* notification may be lost, the process may crash between any two steps.  *)
(* Reassembly is in Assembler: here the parts of the one multipart message *)
(* wait until they are complete or the timer shows what is there.          *)
(***************************************************************************)
EXTENDS Integers, Sequences, FiniteSets, Functions

CONSTANTS
  Singles, Multi,  \* the messages of one part; the parts of one message
  Junk,            \* what the SIM holds at first: outgoing messages, undecodable ones
  Indexes,         \* of each storage
  MaxInbox,        \* 100 in the code
  MaxFaults,       \* bound: failing commands and crashes of the process
  NONE

ASSUME InboxAssumption ==
  /\ Indexes \subseteq Nat /\ IsFiniteSet(Indexes) /\ MaxInbox \in Nat \ {0} /\ MaxFaults \in Nat
  /\ Singles \cap Multi = {} /\ Junk \cap (Singles \cup Multi) = {}
  /\ NONE \notin Singles \cup Multi \cup Junk \cup {"cmti", "loop"}

Msgs == Singles \cup Multi \cup Junk
Storages == {"SM", "ME"}
Procs == {"cmti", "loop"}

VARIABLES
  store, active,  \* per storage: index -> message; the selected storage
  notified,       \* storages of +CMTI notifications not yet worked on
  arrived,        \* messages the network has delivered
  proc,           \* per caller: where it is in SyncStoredMessages
  lock,           \* the holder of syncMu
  asm,            \* parts the assembler holds
  inbox,          \* r.receivedSMS, and inbox_<id>.json: replaced before r.mu is released
  count,          \* failing commands and crashes so far
  published,      \* history: messages saved and given to MQTT
  lost            \* history: parts in the assembler at a crash

modem == <<store, active, notified, arrived>>
books == <<inbox, published>>
faults == <<count, lost>>
inboxVars == <<modem, proc, lock, asm, books, faults>>

Idle == [pc |-> "idle", todo |-> <<>>, many |-> FALSE, list |-> {}]

SyncSteps == {"idle", "wait", "next", "list", "handle", "record", "publish", "delete"}
Caller == [pc : SyncSteps, todo : Seq(Storages), many : BOOLEAN, list : SUBSET (Indexes \X Msgs)]

InboxTypeOK ==
  /\ store \in [Storages -> [Indexes -> Msgs \cup {NONE}]]
  /\ active \in Storages /\ notified \subseteq Storages /\ arrived \subseteq Msgs
  /\ proc \in [Procs -> Caller]
  /\ lock \in Procs \cup {NONE}
  /\ asm \subseteq Multi
  /\ inbox \in Seq(SUBSET Msgs)
  /\ Len(inbox) <= MaxInbox
  /\ count \in 0..MaxFaults
  /\ published \subseteq Msgs /\ lost \subseteq Multi

(* A session begins with a sync of both storages, in a goroutine of its    *)
(* own: the check that starts with it ticks a minute later, and "loop"     *)
(* stands for both.                                                        *)
FirstSync == [p \in Procs |-> IF p = "loop" THEN [Idle EXCEPT !.pc = "wait", !.todo = <<"SM", "ME">>, !.many = TRUE]
                              ELSE Idle]

InboxInit ==
  /\ \E i \in Indexes, j \in Junk \cup {NONE} :
       store = [s \in Storages |-> [k \in Indexes |-> IF s = "SM" /\ k = i THEN j ELSE NONE]]
  /\ active = "SM" /\ notified = {} /\ arrived = {}
  /\ proc = FirstSync /\ lock = NONE
  /\ asm = {} /\ inbox = <<>>
  /\ count = 0
  /\ published = {} /\ lost = {}

Stored(s) == {store[s][i] : i \in Indexes} \ {NONE}
Used(s) == Cardinality({i \in Indexes : store[s][i] # NONE})

(* The list of ListMessages is worked off in the order of the indexes.     *)
First(list) == CHOOSE e \in list : \A f \in list : e[1] <= f[1]
Message(p) == First(proc[p].list)[2]

(* What onReceived is called with: a message that has become complete.     *)
Complete(m) == IF m \in Singles THEN {m} ELSE Multi

(* What calls of onReceived that are under way hold.                       *)
InHand == UNION {Complete(Message(p)) : p \in {x \in Procs : proc[x].pc \in {"record", "publish"}}}
-----------------------------------------------------------------------------
(* The modem and its failures.                                             *)

Arrive(m) ==
  /\ m \in (Singles \cup Multi) \ arrived /\ Used(active) < Cardinality(Indexes)
  /\ LET i == CHOOSE j \in Indexes : store[active][j] = NONE /\ \A k \in Indexes : k < j => store[active][k] # NONE
     IN  store' = [store EXCEPT ![active][i] = m]
  /\ arrived' = arrived \cup {m}
  /\ notified' \in {notified, notified \cup {active}}
  /\ UNCHANGED <<active, proc, lock, asm, books, faults>>

Fault == count < MaxFaults /\ count' = count + 1
Failing == Fault /\ UNCHANGED lost

(* A crash and the next start, which loads the inbox: a crash before the   *)
(* file is replaced comes to the same as one before the message is listed. *)
Crash ==
  /\ Fault
  /\ proc' = FirstSync /\ lock' = NONE /\ notified' = {}
  /\ asm' = {} /\ lost' = lost \cup ((asm \cup InHand) \cap Multi)
  /\ UNCHANGED <<store, active, arrived, books>>
-----------------------------------------------------------------------------
(* SyncStoredMessages.                                                     *)

(* handleCMTIURC: a goroutine for the storage of the notification.         *)
OnCMTI(s) ==
  /\ proc["cmti"].pc = "idle" /\ s \in notified
  /\ notified' = notified \ {s}
  /\ proc' = [proc EXCEPT !["cmti"] = [Idle EXCEPT !.pc = "wait", !.todo = <<s>>]]
  /\ UNCHANGED <<store, active, arrived, lock, asm, books, faults>>

(* Mutant: one message in the storage is not noticed.                      *)
CheckTick_MoreThanOne ==
  /\ proc["loop"].pc = "idle" /\ Used(active) > 1
  /\ proc' = [proc EXCEPT !["loop"] = FirstSync["loop"]]
  /\ UNCHANGED <<modem, lock, asm, books, faults>>

(* startStorageCheckLoop looks at the selected storage.                    *)
CheckTick ==
  /\ proc["loop"].pc = "idle" /\ Used(active) > 0
  /\ proc' = [proc EXCEPT !["loop"] = FirstSync["loop"]]
  /\ UNCHANGED <<modem, lock, asm, books, faults>>

(* Mutant: there is no syncMu.                                             *)
Lock_Free(p) ==
  /\ proc[p].pc = "wait"
  /\ proc' = [proc EXCEPT ![p].pc = "next"]
  /\ UNCHANGED <<modem, lock, asm, books, faults>>

Lock(p) ==
  /\ proc[p].pc = "wait" /\ lock = NONE
  /\ lock' = p
  /\ proc' = [proc EXCEPT ![p].pc = "next"]
  /\ UNCHANGED <<modem, asm, books, faults>>

(* SelectStorage; an empty storage, or one that cannot be selected, is     *)
(* passed over.                                                            *)
Select(p) ==
  /\ proc[p].pc = "next" /\ proc[p].todo # <<>>
  /\ LET s == Head(proc[p].todo)
         skip == [proc EXCEPT ![p].todo = Tail(@)]
     IN  \/ /\ active' = s
            /\ proc' = IF Used(s) = 0 THEN skip ELSE [proc EXCEPT ![p].pc = "list"]
            /\ UNCHANGED faults
         \/ /\ Failing /\ proc' = skip /\ UNCHANGED active
  /\ UNCHANGED <<store, notified, arrived, lock, asm, books>>

(* ListMessages.                                                           *)
List(p) ==
  /\ proc[p].pc = "list"
  /\ LET found == {<<i, store[active][i]>> : i \in {k \in Indexes : store[active][k] # NONE}}
         rest == [proc[p] EXCEPT !.todo = Tail(@)]
     IN  \/ /\ proc' = [proc EXCEPT ![p] = [rest EXCEPT !.pc = IF found = {} THEN "next" ELSE "handle", !.list = found]]
            /\ UNCHANGED faults
         \/ Failing /\ proc' = [proc EXCEPT ![p] = [rest EXCEPT !.pc = "next"]]
  /\ UNCHANGED <<modem, lock, asm, books>>

(* AddPart; junk is only deleted.                                          *)
Handle(p) ==
  /\ proc[p].pc = "handle"
  /\ LET m == Message(p)
         parts == asm \cup ({m} \cap Multi)
         whole == m \in Singles \/ (m \in Multi /\ parts = Multi)
     IN  /\ proc' = [proc EXCEPT ![p].pc = IF whole THEN "record" ELSE "delete"]
         /\ asm' = IF parts = Multi THEN {} ELSE parts
  /\ UNCHANGED <<modem, lock, books, faults>>

(* After several storages "SM" is selected again, unless that command      *)
(* fails or the deadline of the context has ended the loop early.          *)
Unlock(p) ==
  /\ proc[p].pc = "next"
  /\ \/ /\ proc[p].todo = <<>>
        /\ active' = IF proc[p].many THEN "SM" ELSE active
        /\ UNCHANGED faults
     \/ Failing /\ UNCHANGED active
  /\ proc' = [proc EXCEPT ![p] = Idle]
  /\ lock' = NONE
  /\ UNCHANGED <<store, notified, arrived, asm, books>>
-----------------------------------------------------------------------------
(* recordIncomingSMS and the publications of onReceived.                   *)

LastOnes(s) == IF Len(s) > MaxInbox THEN SubSeq(s, Len(s) - MaxInbox + 1, Len(s)) ELSE s

(* Mutant: a message that is there already is recorded again.              *)
Recorded_Twice(box, x) == LastOnes(Append(box, x))

Recorded(box, x) == IF x \in Range(box) THEN box ELSE LastOnes(Append(box, x))

(* The message is put in the list and the list is saved, under r.mu.       *)
Record(p) ==
  /\ proc[p].pc = "record"
  /\ inbox' = Recorded(inbox, Complete(Message(p)))
  /\ proc' = [proc EXCEPT ![p].pc = "publish"]
  /\ UNCHANGED <<modem, lock, asm, published, faults>>

Publish(p) ==
  /\ proc[p].pc = "publish"
  /\ published' = published \cup Complete(Message(p))
  /\ proc' = [proc EXCEPT ![p].pc = "delete"]
  /\ UNCHANGED <<modem, lock, asm, inbox, faults>>

(* DeleteMessage, by index in the selected storage; a failure is logged.   *)
Delete(p) ==
  /\ proc[p].pc = "delete"
  /\ \/ /\ store' = [store EXCEPT ![active][First(proc[p].list)[1]] = NONE]
        /\ UNCHANGED faults
     \/ Failing /\ UNCHANGED store
  /\ LET rest == proc[p].list \ {First(proc[p].list)}
     IN  proc' = [proc EXCEPT ![p] = [proc[p] EXCEPT !.pc = IF rest = {} THEN "next" ELSE "handle", !.list = rest]]
  /\ UNCHANGED <<active, notified, arrived, lock, asm, books>>

(* The assembler's timer: what is there is recorded and published.         *)
Flush ==
  /\ asm # {}
  /\ inbox' = Recorded(inbox, asm)
  /\ published' = published \cup asm
  /\ asm' = {}
  /\ UNCHANGED <<modem, proc, lock, faults>>

(* ClearReceivedSMS.                                                       *)
ClearReceivedSMS ==
  /\ inbox # <<>>
  /\ inbox' = <<>>
  /\ UNCHANGED <<modem, proc, lock, asm, published, faults>>

Sync(p) == Lock(p) \/ Select(p) \/ List(p) \/ Handle(p) \/ Unlock(p)
             \/ Record(p) \/ Publish(p) \/ Delete(p)

Work == (\E p \in Procs : Sync(p)) \/ (\E s \in Storages : OnCMTI(s))

InboxNext == Work \/ CheckTick \/ Flush \/ ClearReceivedSMS \/ Crash \/ \E m \in Msgs : Arrive(m)

InboxSpec == InboxInit /\ [][InboxNext]_inboxVars

(* Every command returns, and the ticker of the check ticks.               *)
InboxFairSpec ==
  /\ InboxSpec
  /\ \A p \in Procs : SF_inboxVars(Lock(p)) /\ WF_inboxVars(Sync(p))
  /\ \A s \in Storages : WF_inboxVars(OnCMTI(s))
  /\ WF_inboxVars(CheckTick) /\ WF_inboxVars(Flush)
-----------------------------------------------------------------------------
(* A message the network has delivered is still stored by the modem, is    *)
(* held as a part by the assembler, or has been saved and published: no    *)
(* crash, no failing command and no message that takes an index just freed *)
(* loses one.  Only parts the assembler held at a crash are gone.          *)
NoneLost ==
  \A m \in arrived : m \in Stored("SM") \cup Stored("ME") \cup asm \cup InHand \cup published \cup lost

(* A message that is read again, after a crash or a failed deletion, is    *)
(* not listed a second time.                                               *)
InboxOnce == IsInjective(inbox)

(* Whatever notifications are lost, a message on the SIM is read, as long  *)
(* as the SIM is the selected storage again and again.                     *)
StoredIsRead ==
  ([]<>(active = "SM" /\ proc["loop"].pc = "idle")) =>
    \A m \in Singles : (m \in Stored("SM")) ~> (m \in published)
-----------------------------------------------------------------------------
(* The inductive strengthening the proofs use.                             *)

(* Past syncMu there is its holder only.                                   *)
HolderSyncs == \A p \in Procs : proc[p].pc \notin {"idle", "wait"} => lock = p

(* While a list is worked off, the selected storage holds every message of *)
(* it at its index: nobody else selects a storage or deletes.              *)
ListIsStored ==
  \A p \in Procs : /\ proc[p].list # {} <=> proc[p].pc \in {"handle", "record", "publish", "delete"}
                   /\ \A e \in proc[p].list : store[active][e[1]] = e[2]

(* What is deleted next is kept elsewhere.                                 *)
DeletedIsKept == \A p \in Procs : proc[p].pc = "delete" => Message(p) \in Junk \cup asm \cup published

(* The network delivers no junk, the assembler holds no whole message, and *)
(* a storage that is listed is one of those to do.                         *)
InboxInv ==
  /\ InboxTypeOK /\ HolderSyncs /\ ListIsStored /\ DeletedIsKept /\ NoneLost
  /\ arrived \cap Junk = {} /\ (asm = {} \/ asm # Multi)
  /\ \A p \in Procs : proc[p].pc = "list" => proc[p].todo # <<>>
=============================================================================
