----------------------------- MODULE Assembler -----------------------------
(***************************************************************************)
(* Reassembly of multipart SMS: internal/sms/assembler.go with its callers *)
(* (the URC goroutine and the storage sync) and the onReceived callback.   *)
(*                                                                         *)
(* A partialMessage and the flushedMessage made of it share one parts map, *)
(* so both are one object, named by its index in obj.  Assembler.mu makes  *)
(* AddPart and the first half of flushPending single steps; formatting the *)
(* flushed text and every onReceived run after the unlock.  NewAssembler   *)
(* is always given a positive timeout (gateway_handlers.go).               *)
(***************************************************************************)
EXTENDS Naturals, Sequences, FiniteSets

CONSTANTS
  Keys,       \* "sender:reference"; a reference is a byte and comes again
  Msgs,       \* messages of the network: [id, key, total]
  Traffics,   \* what may come in one behaviour: a set of messages, and a
              \* bound on the deliveries of their parts, repetitions included
  MaxParts,   \* the largest TotalParts AddPart takes (20 in the code)
  Callers,    \* goroutines that call AddPart
  NIL

Numbers == 1..MaxParts
(* A header may carry any part number, also 0 and one beyond the total.    *)
AnyNumber == 0..(MaxParts + 1)
(* parts[n]: the message whose part n the map holds.                       *)
Slots == [Numbers -> Msgs \cup {NIL}]
NoParts == [n \in Numbers |-> NIL]
Object == [key : Keys, parts : Slots, total : Nat, timer : {"none", "armed", "done"}]
(* What the properties tell of an AssembledSMS.                            *)
Assembled == [parts : Slots, total : Nat, complete : BOOLEAN]

ASSUME AssemblerAssumption ==
  /\ Msgs \subseteq [id : Nat, key : Keys, total : Nat]
  /\ Traffics \subseteq [msgs : SUBSET Msgs, deliveries : Nat]
  /\ MaxParts \in Nat \ {0}
  /\ NIL \notin Msgs \cup Assembled

(* The texts of a map of parts.                                            *)
Texts(parts) == {<<parts[n], n>> : n \in {i \in Numbers : parts[i] # NIL}}

VARIABLES
  sent,       \* the messages that come
  obj,        \* the objects made so far
  pending,    \* Assembler.pending: the object's index, 0 for none
  flushed,    \* Assembler.flushed
  old,        \* objects older than the TTL of the map they are in
  firing,     \* per key: flushPending goroutines that wait for the lock
  flushers,   \* flushPending goroutines past the unlock
  call,       \* per caller: what AddPart returned, until it is published
  crashed,    \* the runtime met a concurrent map read and map write
  left,       \* deliveries left of the bound
  copies,     \* history: deliveries of each part
  shown,      \* history: the texts published
  dropped,    \* history: the texts thrown away by cleanupExpired
  done        \* history, per message: completions it was part of

vars == <<sent, obj, pending, flushed, old, firing, flushers, call, crashed,
          left, copies, shown, dropped, done>>
asm == <<sent, obj, pending, flushed, old>>

TypeOK ==
  /\ sent \subseteq Msgs
  /\ obj \in Seq(Object)
  /\ pending \in [Keys -> 0..Len(obj)]
  /\ flushed \in [Keys -> 0..Len(obj)]
  /\ old \subseteq 1..Len(obj)
  /\ firing \in [Keys -> Nat]
  /\ flushers \subseteq [obj : 1..Len(obj), out : Assembled \cup {NIL}]
  /\ call \in [Callers -> Assembled \cup {NIL}]
  /\ crashed \in BOOLEAN
  /\ left \in Nat
  /\ copies \in [Msgs -> [Numbers -> Nat]]
  /\ shown \subseteq Msgs \X Numbers
  /\ dropped \subseteq Msgs \X Numbers
  /\ done \in [Msgs -> Nat]

Init ==
  /\ \E t \in Traffics : sent = t.msgs /\ left = t.deliveries
  /\ obj = <<>>
  /\ pending = [k \in Keys |-> 0]
  /\ flushed = [k \in Keys |-> 0]
  /\ old = {}
  /\ firing = [k \in Keys |-> 0]
  /\ flushers = {}
  /\ call = [c \in Callers |-> NIL]
  /\ crashed = FALSE
  /\ copies = [m \in Msgs |-> [n \in Numbers |-> 0]]
  /\ shown = {}
  /\ dropped = {}
  /\ done = [m \in Msgs |-> 0]

-----------------------------------------------------------------------------
(* cleanupExpired: entries older than the TTL leave the maps; the timers   *)
(* of the pending ones are stopped.                                        *)
Expired(map) == {i \in old : \E k \in Keys : map[k] = i}
Kept(map) == [k \in Keys |-> IF map[k] \in old THEN 0 ELSE map[k]]
Swept == [i \in DOMAIN obj |-> IF i \in Expired(pending)
                               THEN [obj[i] EXCEPT !.timer = "done"] ELSE obj[i]]
SweptTexts == UNION {Texts(obj[i].parts) : i \in Expired(pending)}

(* Mutant: off by one.                                                     *)
Full_Early(o) == Cardinality({n \in Numbers : o.parts[n] # NIL}) + 1 >= o.total
(* len(parts) == totalParts                                                *)
Full(o) == Cardinality({n \in Numbers : o.parts[n] # NIL}) = o.total
Answer(o) == [parts |-> o.parts, total |-> o.total, complete |-> Full(o)]
Completed(o) == [d \in Msgs |-> IF Full(o) /\ \E n \in Numbers : o.parts[n] = d
                                THEN done[d] + 1 ELSE done[d]]

(* Mutant: a completed entry stays in the map.                             *)
Entry_Kept(o, i) == i
(* A completed entry is deleted.                                           *)
Entry(o, i) == IF Full(o) THEN 0 ELSE i

(* The timer of a completed entry is stopped, any other starts again.      *)
Rearm(o) == [o EXCEPT !.timer = IF Full(o) THEN "done" ELSE "armed"]

(* A part of an entry that was flushed: the caller is always given the     *)
(* entry's texts.  Writing the map while a flusher reads it is a data race *)
(* the runtime may abort on.                                               *)
LatePart(c, m, n, i) ==
  LET o == [obj[i] EXCEPT !.parts[n] = m] IN
  /\ obj' = [Swept EXCEPT ![i] = o]
  /\ pending' = Kept(pending)
  /\ flushed' = [Kept(flushed) EXCEPT ![m.key] = Entry(o, i)]
  /\ call' = [call EXCEPT ![c] = Answer(o)]
  /\ crashed' \in {FALSE, \E f \in flushers : f.obj = i /\ f.out = NIL}
  /\ done' = Completed(o)
  /\ old' = old \ (Expired(pending) \cup Expired(flushed))

(* A part of an entry that is pending.                                     *)
PendingPart(c, m, n, i) ==
  LET o == Rearm([obj[i] EXCEPT !.parts[n] = m]) IN
  /\ obj' = [Swept EXCEPT ![i] = o]
  /\ pending' = [Kept(pending) EXCEPT ![m.key] = Entry(o, i)]
  /\ flushed' = Kept(flushed)
  /\ call' = [call EXCEPT ![c] = IF Full(o) THEN Answer(o) ELSE NIL]
  /\ done' = Completed(o)
  /\ old' = old \ (Expired(pending) \cup Expired(flushed))
  /\ UNCHANGED crashed

(* The first part of a message: a new entry, never complete (total > 1).   *)
FirstPart(m, n) ==
  LET o == [key |-> m.key, parts |-> [NoParts EXCEPT ![n] = m], total |-> m.total, timer |-> "none"] IN
  /\ obj' = Append(Swept, Rearm(o))
  /\ pending' = [Kept(pending) EXCEPT ![m.key] = Len(obj) + 1]
  /\ flushed' = Kept(flushed)
  /\ old' = old \ (Expired(pending) \cup Expired(flushed))
  /\ UNCHANGED <<call, crashed, done>>

(* AddPart for a message that is not multipart: returned as it is.         *)
AddSingle(c, m) ==
  /\ ~crashed /\ call[c] = NIL /\ m.total <= 1 /\ left > 0
  /\ left' = left - 1
  /\ call' = [call EXCEPT ![c] = [parts |-> [NoParts EXCEPT ![1] = m], total |-> 1, complete |-> TRUE]]
  /\ copies' = [copies EXCEPT ![m][1] = @ + 1]
  /\ done' = [done EXCEPT ![m] = @ + 1]
  /\ UNCHANGED <<asm, firing, flushers, crashed, shown, dropped>>

Valid(m, n) == n > 0 /\ n <= m.total /\ m.total <= MaxParts

(* AddPart for a part of a multipart message; a part with a bad header is  *)
(* ignored before the lock.                                                *)
AddPart(c, m, n) ==
  /\ ~crashed /\ call[c] = NIL /\ m.total > 1
  /\ IF ~Valid(m, n)
     THEN UNCHANGED vars
     ELSE /\ left > 0 /\ left' = left - 1
          /\ copies' = [copies EXCEPT ![m][n] = @ + 1]
          /\ dropped' = dropped \cup SweptTexts
          /\ LET late == Kept(flushed)[m.key]
                 at == Kept(pending)[m.key]
             IN \/ late # 0 /\ LatePart(c, m, n, late)
                \/ late = 0 /\ at # 0 /\ PendingPart(c, m, n, at)
                \/ late = 0 /\ at = 0 /\ FirstPart(m, n)
          /\ UNCHANGED <<sent, firing, flushers, shown>>

(* The caller hands what AddPart returned to onReceived.                   *)
Receive(c) ==
  /\ ~crashed /\ call[c] # NIL
  /\ shown' = shown \cup Texts(call[c].parts)
  /\ call' = [call EXCEPT ![c] = NIL]
  /\ UNCHANGED <<asm, firing, flushers, crashed, left, copies, dropped, done>>

-----------------------------------------------------------------------------
(* Timers: pm.timer belongs to the object; its function names only the key *)
(* and can no longer be stopped once started.                              *)
TimerFires(i) ==
  /\ ~crashed /\ obj[i].timer = "armed"
  /\ obj' = [obj EXCEPT ![i].timer = "done"]
  /\ firing' = [firing EXCEPT ![obj[i].key] = @ + 1]
  /\ UNCHANGED <<sent, pending, flushed, old, flushers, call, crashed, left, copies, shown, dropped, done>>

(* Mutant: the entry is dropped, nobody is told.                           *)
flushPending_Silent(k) ==
  /\ ~crashed /\ firing[k] > 0
  /\ firing' = [firing EXCEPT ![k] = @ - 1]
  /\ LET i == pending[k] IN
     IF i = 0 THEN UNCHANGED <<pending, flushed, old>>
     ELSE /\ pending' = [pending EXCEPT ![k] = 0]
          /\ flushed' = [flushed EXCEPT ![k] = i]
          /\ old' = old \ {i}
  /\ UNCHANGED <<sent, obj, flushers, call, crashed, left, copies, shown, dropped, done>>

(* flushPending up to the unlock: whatever entry the key holds now.        *)
flushPending(k) ==
  /\ ~crashed /\ firing[k] > 0
  /\ firing' = [firing EXCEPT ![k] = @ - 1]
  /\ LET i == pending[k] IN
     IF i = 0 THEN UNCHANGED <<pending, flushed, old, flushers>>
     ELSE /\ pending' = [pending EXCEPT ![k] = 0]
          /\ flushed' = [flushed EXCEPT ![k] = i]
          /\ old' = old \ {i}
          /\ flushers' = flushers \cup {[obj |-> i, out |-> NIL]}
  /\ UNCHANGED <<sent, obj, call, crashed, left, copies, shown, dropped, done>>

(* formatPartsSummary and buildAvailableText read the shared map.          *)
Format(f) ==
  /\ ~crashed /\ f.out = NIL
  /\ LET o == obj[f.obj] IN
     flushers' = (flushers \ {f}) \cup
       {[f EXCEPT !.out = [parts |-> o.parts, total |-> o.total, complete |-> FALSE]]}
  /\ UNCHANGED <<asm, firing, call, crashed, left, copies, shown, dropped, done>>

(* onFlush, which is onReceived.                                           *)
onFlush(f) ==
  /\ ~crashed /\ f.out # NIL
  /\ shown' = shown \cup Texts(f.out.parts)
  /\ flushers' = flushers \ {f}
  /\ UNCHANGED <<asm, firing, call, crashed, left, copies, dropped, done>>

(* Time: an entry outlives the TTL of its map.                             *)
Ages(k) ==
  /\ ~crashed
  /\ \E i \in {pending[k], flushed[k]} \ {0} : i \notin old /\ old' = old \cup {i}
  /\ UNCHANGED <<sent, obj, pending, flushed, firing, flushers, call, crashed, left, copies, shown, dropped, done>>

-----------------------------------------------------------------------------
Runs ==
  \/ \E c \in Callers : Receive(c)
  \/ \E i \in DOMAIN obj : TimerFires(i)
  \/ \E k \in Keys : flushPending(k)
  \/ \E f \in flushers : Format(f) \/ onFlush(f)

Next ==
  \/ \E c \in Callers, m \in sent : AddSingle(c, m)
  \/ \E c \in Callers, m \in sent, n \in AnyNumber : AddPart(c, m, n)
  \/ \E k \in Keys : Ages(k)
  \/ Runs

Spec == Init /\ [][Next]_vars

(* Goroutines run and armed timers fire; the network owes nothing.         *)
FairSpec == Spec /\ WF_vars(Runs)
-----------------------------------------------------------------------------
(* Properties.                                                             *)

(* A key is never in both maps: the flushed entry would shadow the parts   *)
(* collected in the pending one.                                           *)
OneEntryPerKey ==
  /\ \A k \in Keys : pending[k] = 0 \/ flushed[k] = 0
  /\ \A k \in Keys : \A i \in {pending[k], flushed[k]} \ {0} : obj[i].key = k

(* Every pending entry has a timer running, or a timer goroutine at the    *)
(* lock that will flush it, whatever stale goroutines of the same key do.  *)
PendingIsTimed ==
  \A k \in Keys : pending[k] # 0 => obj[pending[k]].timer = "armed" \/ firing[k] > 0

(* All messages with m's key announce the same total.                      *)
TotalAgrees(k) == \A m, d \in sent : m.key = k /\ d.key = k => m.total = d.total
(* No other message has m's key.                                           *)
OwnKey(m) == \A d \in sent : m.key = d.key => m = d

WholeText(a) == \A n \in Numbers : n <= a.total => a.parts[n] # NIL

(* A message returned as complete has every one of its parts, when the     *)
(* messages that share its key agree on their total.                       *)
CompleteIsWhole ==
  \A c \in Callers : call[c] # NIL /\ call[c].complete =>
    \/ WholeText(call[c])
    \/ \E n \in Numbers : call[c].parts[n] # NIL /\ ~TotalAgrees(call[c].parts[n].key)

(* assembler.go, AddPart: what it returns as complete is the whole         *)
(* message, also when a reference comes again with another total.          *)
AlwaysWhole ==
  \A c \in Callers : call[c] # NIL /\ call[c].complete => WholeText(call[c])

(* A message is completed no more often than each of its parts was         *)
(* delivered: no flush, late part or duplicate completes it twice.         *)
CompletedOncePerCopy ==
  \A m \in sent, n \in Numbers : OwnKey(m) /\ n <= m.total => done[m] <= copies[m][n]

InHand(m, n) ==
  \/ \E k \in Keys : pending[k] # 0 /\ obj[pending[k]].parts[n] = m
  \/ \E f \in flushers : f.out = NIL /\ obj[f.obj].parts[n] = m
  \/ \E f \in flushers : f.out # NIL /\ f.out.parts[n] = m
  \/ \E c \in Callers : call[c] # NIL /\ call[c].parts[n] = m

(* A part AddPart accepted is published, dropped by the TTL, or still in   *)
(* the hands of something that publishes it.                               *)
NothingLost ==
  \A m \in sent, n \in Numbers :
    OwnKey(m) /\ copies[m][n] > 0 => <<m, n>> \in shown \cup dropped \/ InHand(m, n)

(* Every part accepted is eventually published, complete or not, unless    *)
(* the TTL drops it or the process dies.                                   *)
EveryPartPublished ==
  \A m \in Msgs, n \in Numbers :
    OwnKey(m) /\ copies[m][n] > 0 ~> <<m, n>> \in shown \cup dropped \/ crashed

(* CHANGELOG.md: data races are resolved, so no interleaving of the        *)
(* goroutines makes the runtime abort.                                     *)
NeverCrashes == ~crashed
-----------------------------------------------------------------------------
(* The inductive strengthening the proofs use.                             *)

(* An entry has the total of a message that came, and holds parts of       *)
(* messages with its key only, each where that message has one.            *)
Fits(o) ==
  /\ \E m \in sent : m.key = o.key /\ m.total = o.total /\ m.total > 1
  /\ \A n \in Numbers : LET d == o.parts[n] IN
       d # NIL => d \in sent /\ d.key = o.key /\ d.total > 1 /\ n <= d.total
EntriesFit == \A i \in DOMAIN obj : Fits(obj[i])

(* A part in an entry that can still complete is a delivery that no        *)
(* completion has used up.                                                 *)
UnusedCopy ==
  \A m \in sent, n \in Numbers : OwnKey(m) =>
    \A i \in {pending[m.key], flushed[m.key]} \ {0} :
      obj[i].parts[n] = m => done[m] < copies[m][n]
=============================================================================
