--------------------------- MODULE AssemblerProofs ---------------------------
(***************************************************************************)
(* Proofs about Assembler, for every set of messages, keys and callers,    *)
(* every bound on the parts of a message and every traffic: the entries    *)
(* keep their key, a part that was taken is never lost, and a message is   *)
(* completed when it is whole and no more often than it was delivered.     *)
(***************************************************************************)
EXTENDS Assembler, SequenceTheorems, FiniteSetTheorems, TLAPS

(* The entry i with part n of m.                                           *)
Stored(i, m, n) == [obj[i] EXCEPT !.parts[n] = m]

(* The entry made of the first part of a message.                          *)
Opened(m, n) ==
  [key |-> m.key, parts |-> [NoParts EXCEPT ![n] = m], total |-> m.total, timer |-> "none"]

(* The object with another state of its timer.                             *)
WithTimer(o, t) == [o EXCEPT !.timer = t]

(* Messages have keys and totals, and there is room for one part.          *)
LEMMA MsgTypes ==
  /\ \A m \in Msgs : m.key \in Keys /\ m.total \in Nat /\ m # NIL
  /\ 1 \in Numbers /\ MaxParts \in Nat /\ Numbers \subseteq Nat
BY AssemblerAssumption DEF Numbers

LEMMA ObjectFields ==
  ASSUME NEW o \in Object
  PROVE  /\ o.key \in Keys /\ o.parts \in Slots /\ o.total \in Nat
         /\ \A t \in {"none", "armed", "done"} :
              /\ WithTimer(o, t) \in Object
              /\ WithTimer(o, t).key = o.key /\ WithTimer(o, t).parts = o.parts
              /\ WithTimer(o, t).total = o.total /\ WithTimer(o, t).timer = t
BY DEF Object, WithTimer

LEMMA ObjType ==
  ASSUME TypeOK
  PROVE  /\ Len(obj) \in Nat /\ DOMAIN obj = 1..Len(obj)
         /\ \A i \in 1..Len(obj) : obj[i] \in Object
BY LenProperties, ElementOfSeq DEF TypeOK

LEMMA RearmFields ==
  ASSUME NEW o \in Object
  PROVE  /\ Rearm(o) \in Object /\ Rearm(o).key = o.key /\ Rearm(o).parts = o.parts
         /\ Rearm(o).total = o.total
         /\ Rearm(o).timer = IF Full(o) THEN "done" ELSE "armed"
         /\ Full(Rearm(o)) <=> Full(o)
<1>1. Rearm(o) = WithTimer(o, IF Full(o) THEN "done" ELSE "armed")
  BY DEF Rearm, WithTimer
<1>2. /\ Rearm(o) \in Object /\ Rearm(o).key = o.key /\ Rearm(o).parts = o.parts
      /\ Rearm(o).total = o.total
      /\ Rearm(o).timer = IF Full(o) THEN "done" ELSE "armed"
  BY <1>1, ObjectFields
<1> QED
  BY <1>2 DEF Full

LEMMA StoredFields ==
  ASSUME TypeOK, NEW i \in 1..Len(obj), NEW m \in Msgs, NEW n \in Numbers
  PROVE  /\ Stored(i, m, n) \in Object
         /\ Stored(i, m, n).key = obj[i].key /\ Stored(i, m, n).total = obj[i].total
         /\ Stored(i, m, n).timer = obj[i].timer
         /\ \A x \in Numbers : Stored(i, m, n).parts[x] = IF x = n THEN m ELSE obj[i].parts[x]
<1>1. obj[i] \in Object
  BY ObjType
<1> QED
  BY <1>1 DEF Stored, Object, Slots

LEMMA OpenedFields ==
  ASSUME NEW m \in Msgs, NEW n \in Numbers
  PROVE  /\ Opened(m, n) \in Object
         /\ Opened(m, n).key = m.key /\ Opened(m, n).total = m.total
         /\ \A x \in Numbers : Opened(m, n).parts[x] = IF x = n THEN m ELSE NIL
BY MsgTypes DEF Opened, NoParts, Object, Slots

(* cleanupExpired touches timers only.                                     *)
LEMMA SweptFields ==
  ASSUME TypeOK
  PROVE  /\ Swept \in Seq(Object) /\ Len(Swept) = Len(obj)
         /\ \A i \in 1..Len(obj) :
              /\ Swept[i].key = obj[i].key /\ Swept[i].parts = obj[i].parts
              /\ Swept[i].total = obj[i].total
              /\ i \notin Expired(pending) => Swept[i] = obj[i]
<1>1. \A i \in 1..Len(obj) :
        /\ Swept[i] = IF i \in Expired(pending) THEN WithTimer(obj[i], "done") ELSE obj[i]
        /\ obj[i] \in Object
  BY ObjType DEF Swept, WithTimer
<1>2. \A i \in 1..Len(obj) :
        /\ Swept[i] \in Object
        /\ Swept[i].key = obj[i].key /\ Swept[i].parts = obj[i].parts
        /\ Swept[i].total = obj[i].total
        /\ i \notin Expired(pending) => Swept[i] = obj[i]
  BY <1>1, ObjectFields
<1>3. Swept \in [1..Len(obj) -> Object]
  BY <1>2, ObjType DEF Swept
<1>4. Swept \in Seq(Object)
  BY <1>3, ObjType, SeqDef
<1>5. Len(Swept) = Len(obj)
  BY <1>3, <1>4, ObjType, LenProperties
<1> QED
  BY <1>2, <1>4, <1>5

LEMMA KeptFields ==
  ASSUME TypeOK, NEW map \in [Keys -> 0..Len(obj)]
  PROVE  /\ Kept(map) \in [Keys -> 0..Len(obj)]
         /\ \A k \in Keys : Kept(map)[k] = IF map[k] \in old THEN 0 ELSE map[k]
         /\ \A k \in Keys : Kept(map)[k] # 0 => Kept(map)[k] = map[k] /\ map[k] \notin old
BY ObjType DEF Kept

LEMMA AnswerType == ASSUME NEW o \in Object PROVE Answer(o) \in Assembled
<1>1. Full(o) \in BOOLEAN
  BY DEF Full
<1> QED
  BY <1>1 DEF Answer, Assembled, Object

LEMMA CompletedType ==
  ASSUME TypeOK, NEW o
  PROVE  Completed(o) \in [Msgs -> Nat]
BY DEF Completed, TypeOK

-----------------------------------------------------------------------------
(* What the three kinds of an accepted part do to the objects.             *)

LEMMA LateObjects ==
  ASSUME TypeOK, NEW c, NEW m \in Msgs, NEW n \in Numbers, NEW i \in 1..Len(obj), LatePart(c, m, n, i)
  PROVE  /\ obj' \in Seq(Object) /\ Len(obj') = Len(obj)
         /\ obj'[i] = Stored(i, m, n)
         /\ \A j \in 1..Len(obj) : j # i => obj'[j] = Swept[j]
<1>1. obj' = [Swept EXCEPT ![i] = Stored(i, m, n)]
  BY DEF LatePart, Stored
<1> QED
  BY <1>1, SweptFields, StoredFields, ExceptSeq

LEMMA PendingObjects ==
  ASSUME TypeOK, NEW c, NEW m \in Msgs, NEW n \in Numbers, NEW i \in 1..Len(obj), PendingPart(c, m, n, i)
  PROVE  /\ obj' \in Seq(Object) /\ Len(obj') = Len(obj)
         /\ obj'[i] = Rearm(Stored(i, m, n))
         /\ \A j \in 1..Len(obj) : j # i => obj'[j] = Swept[j]
<1>1. obj' = [Swept EXCEPT ![i] = Rearm(Stored(i, m, n))]
  BY DEF PendingPart, Stored
<1> QED
  BY <1>1, SweptFields, StoredFields, RearmFields, ExceptSeq

LEMMA FirstObjects ==
  ASSUME TypeOK, NEW m \in Msgs, NEW n \in Numbers, FirstPart(m, n)
  PROVE  /\ obj' \in Seq(Object) /\ Len(obj') = Len(obj) + 1
         /\ obj'[Len(obj) + 1] = Rearm(Opened(m, n))
         /\ \A j \in 1..Len(obj) : obj'[j] = Swept[j]
<1>1. obj' = Append(Swept, Rearm(Opened(m, n)))
  BY DEF FirstPart, Opened
<1>2. Rearm(Opened(m, n)) \in Object /\ Swept \in Seq(Object) /\ Len(Swept) = Len(obj) /\ Len(obj) \in Nat
  BY OpenedFields, RearmFields, SweptFields, ObjType
<1> HIDE DEF Opened, Rearm, Swept
<1> QED
  BY <1>1, <1>2

(* What every accepted part does besides.                                  *)
Accepted(c, m, n) ==
  /\ n \in Numbers /\ n <= m.total /\ m.total > 1 /\ call[c] = NIL
  /\ left > 0 /\ left' = left - 1
  /\ copies' = [copies EXCEPT ![m][n] = @ + 1]
  /\ dropped' = dropped \cup SweptTexts
  /\ UNCHANGED <<sent, firing, flushers, shown>>

(* The entry of the key m has, if the map has one that has not expired.    *)
Live(map, m, i) == i \in 1..Len(obj) /\ i = map[m.key] /\ i \notin old
NoneLive(map, m) == map[m.key] = 0 \/ map[m.key] \in old

(* AddPart ignores a part, or stores it in the entry its key has.          *)
LEMMA AddPartCases ==
  ASSUME TypeOK, NEW c \in Callers, NEW m \in Msgs, NEW n \in AnyNumber, AddPart(c, m, n)
  PROVE  \/ UNCHANGED vars
         \/ Accepted(c, m, n) /\ \E i \in 1..Len(obj) : Live(flushed, m, i) /\ LatePart(c, m, n, i)
         \/ Accepted(c, m, n) /\ \E i \in 1..Len(obj) :
              Live(pending, m, i) /\ NoneLive(flushed, m) /\ PendingPart(c, m, n, i)
         \/ Accepted(c, m, n) /\ NoneLive(flushed, m) /\ NoneLive(pending, m) /\ FirstPart(m, n)
<1>1. CASE ~Valid(m, n)
  BY <1>1 DEF AddPart
<1>2. CASE Valid(m, n)
  <2> DEFINE late == Kept(flushed)[m.key]
             at == Kept(pending)[m.key]
  <2>1. n \in Numbers /\ n <= m.total
    BY <1>2, MsgTypes DEF Valid, AnyNumber, Numbers
  <2>2. Accepted(c, m, n)
    BY <1>2, <2>1 DEF AddPart, Accepted
  <2>3. /\ late \in 0..Len(obj) /\ (late # 0 => Live(flushed, m, late)) /\ (late = 0 => NoneLive(flushed, m))
        /\ at \in 0..Len(obj) /\ (at # 0 => Live(pending, m, at)) /\ (at = 0 => NoneLive(pending, m))
    <3>1. /\ late \in 0..Len(obj) /\ at \in 0..Len(obj)
          /\ late = IF flushed[m.key] \in old THEN 0 ELSE flushed[m.key]
          /\ at = IF pending[m.key] \in old THEN 0 ELSE pending[m.key]
      BY KeptFields, MsgTypes DEF TypeOK
    <3> HIDE DEF late, at
    <3> QED
      BY <3>1, ObjType DEF Live, NoneLive
  <2>4. \/ late # 0 /\ LatePart(c, m, n, late)
        \/ late = 0 /\ at # 0 /\ PendingPart(c, m, n, at)
        \/ late = 0 /\ at = 0 /\ FirstPart(m, n)
    BY <1>2 DEF AddPart
  <2> HIDE DEF late, at
  <2>5. (late # 0 => late \in 1..Len(obj)) /\ (at # 0 => at \in 1..Len(obj))
    BY <2>3, ObjType
  <2> QED
    BY <2>2, <2>3, <2>4, <2>5
<1> QED
  BY <1>1, <1>2

-----------------------------------------------------------------------------
(* Types.                                                                  *)

LEMMA AssemblerTypeInit == Init => TypeOK
<1> SUFFICES ASSUME Init PROVE TypeOK
  OBVIOUS
<1>1. sent \subseteq Msgs /\ left \in Nat
  BY AssemblerAssumption DEF Init
<1>2. obj \in Seq(Object) /\ Len(obj) = 0
  BY EmptySeq DEF Init
<1>3. copies \in [Msgs -> [Numbers -> Nat]] /\ call \in [Callers -> Assembled \cup {NIL}]
  BY DEF Init
<1>4. pending \in [Keys -> 0..Len(obj)] /\ flushed \in [Keys -> 0..Len(obj)]
  BY <1>2 DEF Init
<1>5. /\ old \subseteq 1..Len(obj) /\ shown \subseteq Msgs \X Numbers /\ dropped \subseteq Msgs \X Numbers
      /\ flushers \subseteq [obj : 1..Len(obj), out : Assembled \cup {NIL}]
  BY DEF Init
<1>6. firing \in [Keys -> Nat] /\ done \in [Msgs -> Nat] /\ crashed \in BOOLEAN
  BY DEF Init
<1> QED
  BY <1>1, <1>2, <1>3, <1>4, <1>5, <1>6 DEF TypeOK

(* The types that depend on the objects follow when objects are added.     *)
LEMMA MoreObjects ==
  ASSUME TypeOK, NEW l \in Nat, Len(obj) <= l
  PROVE  /\ 0..Len(obj) \subseteq 0..l /\ 1..Len(obj) \subseteq 1..l
         /\ flushers \subseteq [obj : 1..l, out : Assembled \cup {NIL}]
         /\ old \subseteq 1..l
<1>1. 0..Len(obj) \subseteq 0..l /\ 1..Len(obj) \subseteq 1..l
  BY ObjType
<1>2. flushers \subseteq [obj : 1..Len(obj), out : Assembled \cup {NIL}] /\ old \subseteq 1..Len(obj)
  BY DEF TypeOK
<1> QED
  BY <1>1, <1>2

LEMMA CopiesType ==
  ASSUME TypeOK, NEW m \in Msgs, NEW n \in Numbers, copies' = [copies EXCEPT ![m][n] = @ + 1]
  PROVE  /\ copies' \in [Msgs -> [Numbers -> Nat]]
         /\ \A d \in Msgs, x \in Numbers :
              copies'[d][x] = IF d = m /\ x = n THEN copies[d][x] + 1 ELSE copies[d][x]
BY DEF TypeOK

LEMMA TextsType == ASSUME NEW parts \in Slots PROVE Texts(parts) \subseteq Msgs \X Numbers
BY DEF Texts, Slots

LEMMA SweptTextsType == ASSUME TypeOK PROVE SweptTexts \subseteq Msgs \X Numbers
<1> SUFFICES ASSUME NEW i \in Expired(pending) PROVE Texts(obj[i].parts) \subseteq Msgs \X Numbers
  BY DEF SweptTexts
<1>1. i \in 1..Len(obj)
  BY DEF Expired, TypeOK
<1>2. obj[i].parts \in Slots
  BY <1>1, ObjType, ObjectFields
<1> QED
  BY <1>2, TextsType

LEMMA AddPartType ==
  ASSUME TypeOK, NEW c \in Callers, NEW m \in sent, NEW n \in AnyNumber, AddPart(c, m, n)
  PROVE  TypeOK'
<1>1. m \in Msgs
  BY DEF TypeOK
<1>2. CASE UNCHANGED vars
  BY <1>2 DEF vars, asm, TypeOK
<1>3. ASSUME Accepted(c, m, n)
      PROVE  /\ n \in Numbers /\ left' \in Nat /\ copies' \in [Msgs -> [Numbers -> Nat]]
             /\ dropped' \subseteq Msgs \X Numbers
             /\ UNCHANGED <<sent, firing, flushers, shown>>
  BY <1>1, <1>3, CopiesType, SweptTextsType DEF Accepted, TypeOK
<1>4. /\ Kept(pending) \in [Keys -> 0..Len(obj)] /\ Kept(flushed) \in [Keys -> 0..Len(obj)]
      /\ m.key \in Keys /\ Len(obj) \in Nat
  BY <1>1, KeptFields, MsgTypes, ObjType DEF TypeOK
<1>5. ASSUME Accepted(c, m, n), NEW i \in 1..Len(obj), LatePart(c, m, n, i) PROVE TypeOK'
  <2>1. obj' \in Seq(Object) /\ Len(obj') = Len(obj)
    BY <1>1, <1>3, <1>5, LateObjects
  <2>2. Stored(i, m, n) \in Object
    BY <1>1, <1>3, <1>5, StoredFields
  <2>3. pending' \in [Keys -> 0..Len(obj)] /\ flushed' \in [Keys -> 0..Len(obj)]
    <3>1. Entry(Stored(i, m, n), i) \in 0..Len(obj)
      BY <1>4 DEF Entry
    <3> QED
      BY <1>4, <1>5, <3>1 DEF LatePart, Stored
  <2>4. call' \in [Callers -> Assembled \cup {NIL}]
    BY <1>5, <2>2, AnswerType DEF LatePart, Stored, TypeOK
  <2>5. done' \in [Msgs -> Nat] /\ old' \subseteq old /\ crashed' \in BOOLEAN
    BY <1>5, CompletedType DEF LatePart
  <2> QED
    BY <1>3, <1>5, <2>1, <2>3, <2>4, <2>5 DEF TypeOK
<1>6. ASSUME Accepted(c, m, n), NEW i \in 1..Len(obj), PendingPart(c, m, n, i) PROVE TypeOK'
  <2>1. obj' \in Seq(Object) /\ Len(obj') = Len(obj)
    BY <1>1, <1>3, <1>6, PendingObjects
  <2>2. Rearm(Stored(i, m, n)) \in Object
    BY <1>1, <1>3, <1>6, StoredFields, RearmFields
  <2>3. pending' \in [Keys -> 0..Len(obj)] /\ flushed' \in [Keys -> 0..Len(obj)]
    <3>1. Entry(Rearm(Stored(i, m, n)), i) \in 0..Len(obj)
      BY <1>4 DEF Entry
    <3> QED
      BY <1>4, <1>6, <3>1 DEF PendingPart, Stored
  <2>4. call' \in [Callers -> Assembled \cup {NIL}]
    BY <1>6, <2>2, AnswerType DEF PendingPart, Stored, TypeOK
  <2>5. done' \in [Msgs -> Nat] /\ old' \subseteq old /\ UNCHANGED crashed
    BY <1>6, CompletedType DEF PendingPart
  <2> QED
    BY <1>3, <1>6, <2>1, <2>3, <2>4, <2>5 DEF TypeOK
<1>7. ASSUME Accepted(c, m, n), FirstPart(m, n) PROVE TypeOK'
  <2>1. obj' \in Seq(Object) /\ Len(obj') = Len(obj) + 1
    BY <1>1, <1>3, <1>7, FirstObjects
  <2>2. /\ 0..Len(obj) \subseteq 0..Len(obj') /\ Len(obj) + 1 \in 0..Len(obj')
        /\ flushers \subseteq [obj : 1..Len(obj'), out : Assembled \cup {NIL}]
        /\ old \subseteq 1..Len(obj')
    BY <1>4, <2>1, MoreObjects
  <2>3. pending' \in [Keys -> 0..Len(obj')] /\ flushed' \in [Keys -> 0..Len(obj')]
    BY <1>4, <1>7, <2>2 DEF FirstPart
  <2>4. old' \subseteq old /\ UNCHANGED <<call, crashed, done>>
    BY <1>7 DEF FirstPart
  <2> QED
    BY <1>3, <1>7, <2>1, <2>2, <2>3, <2>4 DEF TypeOK
<1> QED
  BY <1>1, <1>2, <1>5, <1>6, <1>7, AddPartCases

LEMMA AssemblerTypeNext == TypeOK /\ [Next]_vars => TypeOK'
<1> SUFFICES ASSUME TypeOK, [Next]_vars PROVE TypeOK'
  OBVIOUS
<1> USE DEF asm
<1>1. ASSUME NEW c \in Callers, NEW m \in sent, AddSingle(c, m) PROVE TypeOK'
  <2>1. m \in Msgs /\ 1 \in Numbers
    BY MsgTypes DEF TypeOK
  <2>2. [parts |-> [NoParts EXCEPT ![1] = m], total |-> 1, complete |-> TRUE] \in Assembled
    BY <2>1 DEF NoParts, Assembled, Slots
  <2>3. copies' \in [Msgs -> [Numbers -> Nat]]
    BY <1>1, <2>1, CopiesType DEF AddSingle
  <2> QED
    BY <1>1, <2>1, <2>2, <2>3 DEF AddSingle, TypeOK
<1>2. ASSUME NEW c \in Callers, Receive(c) PROVE TypeOK'
  <2>1. Texts(call[c].parts) \subseteq Msgs \X Numbers
    BY <1>2, TextsType DEF Receive, TypeOK, Assembled
  <2> QED
    BY <1>2, <2>1 DEF Receive, TypeOK
<1>3. ASSUME NEW i \in DOMAIN obj, TimerFires(i) PROVE TypeOK'
  <2>1. i \in 1..Len(obj) /\ obj[i] \in Object
    BY ObjType
  <2>2. obj' = [obj EXCEPT ![i] = WithTimer(obj[i], "done")]
    BY <1>3 DEF TimerFires, WithTimer
  <2>3. obj' \in Seq(Object) /\ Len(obj') = Len(obj)
    BY <2>1, <2>2, ObjectFields, ExceptSeq DEF TypeOK
  <2>4. firing' \in [Keys -> Nat]
    BY <1>3, <2>1, ObjectFields DEF TimerFires, TypeOK
  <2> QED
    BY <1>3, <2>3, <2>4 DEF TimerFires, TypeOK
<1>4. ASSUME NEW k \in Keys, flushPending(k) PROVE TypeOK'
  <2>1. firing' \in [Keys -> Nat]
    BY <1>4 DEF flushPending, TypeOK
  <2>2. CASE pending[k] = 0
    BY <1>4, <2>1, <2>2 DEF flushPending, TypeOK
  <2>3. CASE pending[k] # 0
    <3>1. pending[k] \in 1..Len(obj) /\ 0 \in 0..Len(obj)
      BY <2>3, ObjType DEF TypeOK
    <3>2. [obj |-> pending[k], out |-> NIL] \in [obj : 1..Len(obj), out : Assembled \cup {NIL}]
      BY <3>1
    <3>3. pending' \in [Keys -> 0..Len(obj)] /\ flushed' \in [Keys -> 0..Len(obj)]
      BY <1>4, <2>3, <3>1 DEF flushPending, TypeOK
    <3> QED
      BY <1>4, <2>1, <2>3, <3>2, <3>3 DEF flushPending, TypeOK
  <2> QED
    BY <2>2, <2>3
<1>5. ASSUME NEW f \in flushers, Format(f) PROVE TypeOK'
  <2>1. f \in [obj : 1..Len(obj), out : Assembled \cup {NIL}] /\ obj[f.obj] \in Object
    BY ObjType DEF TypeOK
  <2>2. [parts |-> obj[f.obj].parts, total |-> obj[f.obj].total, complete |-> FALSE] \in Assembled
    BY <2>1, ObjectFields DEF Assembled
  <2> QED
    BY <1>5, <2>1, <2>2 DEF Format, TypeOK
<1>6. ASSUME NEW f \in flushers, onFlush(f) PROVE TypeOK'
  <2>1. Texts(f.out.parts) \subseteq Msgs \X Numbers
    BY <1>6, TextsType DEF onFlush, TypeOK, Assembled
  <2> QED
    BY <1>6, <2>1 DEF onFlush, TypeOK
<1>7. ASSUME NEW k \in Keys, Ages(k) PROVE TypeOK'
  <2>1. ({pending[k], flushed[k]} \ {0}) \subseteq 1..Len(obj)
    BY ObjType DEF TypeOK
  <2> QED
    BY <1>7, <2>1 DEF Ages, TypeOK
<1>8. CASE UNCHANGED vars
  BY <1>8 DEF vars, TypeOK
<1> QED
  BY <1>1, <1>2, <1>3, <1>4, <1>5, <1>6, <1>7, <1>8, AddPartType DEF Next, Runs

(* Every variable of the assembler, its callers and its timers keeps its   *)
(* type: entries of the maps are objects that exist.                       *)
THEOREM AssemblerTypeCorrect == Spec => []TypeOK
BY AssemblerTypeInit, AssemblerTypeNext, PTL DEF Spec

-----------------------------------------------------------------------------
(***************************************************************************)
(* The entries.                                                            *)
(***************************************************************************)

(* A part that is taken fills one slot of the entry with its key, and      *)
(* changes no other part of any object.                                    *)
LEMMA PartsGrow ==
  ASSUME TypeOK, OneEntryPerKey, NEW c \in Callers, NEW m \in sent, NEW n \in AnyNumber,
         AddPart(c, m, n)
  PROVE  /\ Len(obj) <= Len(obj') /\ 1..Len(obj) \subseteq 1..Len(obj')
         /\ \A j \in 1..Len(obj) :
              /\ obj'[j].key = obj[j].key /\ obj'[j].total = obj[j].total
              /\ \A x \in Numbers :
                   \/ obj'[j].parts[x] = obj[j].parts[x]
                   \/ Accepted(c, m, n) /\ x = n /\ obj[j].key = m.key /\ obj'[j].parts[x] = m
         /\ \A j \in 1..Len(obj') :
              \/ j \in 1..Len(obj)
              \/ Accepted(c, m, n) /\ j = Len(obj) + 1 /\ obj'[j] = Rearm(Opened(m, n))
<1>1. m \in Msgs /\ m.key \in Keys /\ Len(obj) \in Nat
  BY MsgTypes, ObjType DEF TypeOK
<1>2. CASE UNCHANGED vars
  BY <1>1, <1>2 DEF vars, asm
<1>3. ASSUME Accepted(c, m, n), NEW i \in 1..Len(obj), Live(flushed, m, i), LatePart(c, m, n, i)
      PROVE  /\ Len(obj) = Len(obj')
             /\ \A j \in 1..Len(obj) :
                  /\ obj'[j].key = obj[j].key /\ obj'[j].total = obj[j].total
                  /\ \A x \in Numbers :
                       \/ obj'[j].parts[x] = obj[j].parts[x]
                       \/ x = n /\ obj[j].key = m.key /\ obj'[j].parts[x] = m
  <2>1. n \in Numbers
    BY <1>3 DEF Accepted
  <2>2. obj[i].key = m.key
    BY <1>1, <1>3 DEF Live, OneEntryPerKey
  <2>3. /\ Len(obj') = Len(obj) /\ obj'[i] = Stored(i, m, n)
        /\ \A j \in 1..Len(obj) : j # i => obj'[j] = Swept[j]
    BY <1>1, <1>3, <2>1, LateObjects
  <2>4. /\ Stored(i, m, n).key = obj[i].key /\ Stored(i, m, n).total = obj[i].total
        /\ \A x \in Numbers : Stored(i, m, n).parts[x] = IF x = n THEN m ELSE obj[i].parts[x]
    BY <1>1, <2>1, StoredFields
  <2> QED
    BY <2>2, <2>3, <2>4, SweptFields
<1>4. ASSUME Accepted(c, m, n), NEW i \in 1..Len(obj), Live(pending, m, i), PendingPart(c, m, n, i)
      PROVE  /\ Len(obj) = Len(obj')
             /\ \A j \in 1..Len(obj) :
                  /\ obj'[j].key = obj[j].key /\ obj'[j].total = obj[j].total
                  /\ \A x \in Numbers :
                       \/ obj'[j].parts[x] = obj[j].parts[x]
                       \/ x = n /\ obj[j].key = m.key /\ obj'[j].parts[x] = m
  <2>1. n \in Numbers
    BY <1>4 DEF Accepted
  <2>2. obj[i].key = m.key
    BY <1>1, <1>4 DEF Live, OneEntryPerKey
  <2>3. /\ Rearm(Stored(i, m, n)).key = obj[i].key /\ Rearm(Stored(i, m, n)).total = obj[i].total
        /\ Rearm(Stored(i, m, n)).parts = Stored(i, m, n).parts
    BY <1>1, <2>1, StoredFields, RearmFields
  <2> QED
    BY <1>1, <1>4, <2>1, <2>2, <2>3, PendingObjects, StoredFields, SweptFields
<1>5. ASSUME Accepted(c, m, n), FirstPart(m, n)
      PROVE  /\ Len(obj') = Len(obj) + 1 /\ obj'[Len(obj) + 1] = Rearm(Opened(m, n))
             /\ \A j \in 1..Len(obj) :
                  /\ obj'[j].key = obj[j].key /\ obj'[j].total = obj[j].total
                  /\ \A x \in Numbers : obj'[j].parts[x] = obj[j].parts[x]
  <2>1. n \in Numbers
    BY <1>5 DEF Accepted
  <2> QED
    BY <1>1, <1>5, <2>1, FirstObjects, SweptFields
<1>6. CASE Accepted(c, m, n) /\ \E i \in 1..Len(obj) : Live(flushed, m, i) /\ LatePart(c, m, n, i)
  BY <1>1, <1>3, <1>6
<1>7. CASE Accepted(c, m, n) /\ \E i \in 1..Len(obj) : Live(pending, m, i) /\ PendingPart(c, m, n, i)
  BY <1>1, <1>4, <1>7
<1>8. CASE Accepted(c, m, n) /\ FirstPart(m, n)
  BY <1>1, <1>5, <1>8
<1> QED
  BY <1>1, <1>2, <1>6, <1>7, <1>8, AddPartCases

(* What a part that is taken does to the maps.                             *)
LEMMA EntryMoves ==
  ASSUME TypeOK, NEW c \in Callers, NEW m \in sent, NEW n \in AnyNumber, AddPart(c, m, n)
  PROVE  \A k \in Keys :
           /\ flushed'[k] \in {0, flushed[k]}
           /\ \/ pending'[k] \in {0, pending[k]}
              \/ /\ k = m.key /\ pending'[k] = Len(obj) + 1 /\ flushed'[k] = 0
                 /\ Accepted(c, m, n) /\ obj'[Len(obj) + 1] = Rearm(Opened(m, n))
<1>1. m \in Msgs /\ m.key \in Keys
  BY MsgTypes DEF TypeOK
<1>2. /\ Kept(pending) \in [Keys -> 0..Len(obj)] /\ Kept(flushed) \in [Keys -> 0..Len(obj)]
      /\ \A k \in Keys : Kept(pending)[k] \in {0, pending[k]} /\ Kept(flushed)[k] \in {0, flushed[k]}
      /\ NoneLive(flushed, m) => Kept(flushed)[m.key] = 0
  BY <1>1, KeptFields DEF TypeOK, NoneLive
<1>3. CASE UNCHANGED vars
  BY <1>3 DEF vars, asm
<1>4. ASSUME NEW i \in 1..Len(obj), Live(flushed, m, i), LatePart(c, m, n, i), NEW k \in Keys
      PROVE  flushed'[k] \in {0, flushed[k]} /\ pending'[k] \in {0, pending[k]}
  BY <1>1, <1>2, <1>4 DEF LatePart, Live, Entry
<1>5. ASSUME NEW i \in 1..Len(obj), Live(pending, m, i), PendingPart(c, m, n, i), NEW k \in Keys
      PROVE  flushed'[k] \in {0, flushed[k]} /\ pending'[k] \in {0, pending[k]}
  BY <1>1, <1>2, <1>5 DEF PendingPart, Live, Entry
<1>6. ASSUME Accepted(c, m, n), NoneLive(flushed, m), FirstPart(m, n), NEW k \in Keys
      PROVE  /\ flushed'[k] \in {0, flushed[k]}
             /\ \/ pending'[k] \in {0, pending[k]}
                \/ /\ k = m.key /\ pending'[k] = Len(obj) + 1 /\ flushed'[k] = 0
                   /\ Accepted(c, m, n) /\ obj'[Len(obj) + 1] = Rearm(Opened(m, n))
  <2>1. obj'[Len(obj) + 1] = Rearm(Opened(m, n))
    BY <1>1, <1>6, FirstObjects DEF Accepted
  <2>2. /\ pending' = [Kept(pending) EXCEPT ![m.key] = Len(obj) + 1] /\ flushed' = Kept(flushed)
    BY <1>6 DEF FirstPart
  <2> QED
    BY <1>1, <1>2, <1>6, <2>1, <2>2
<1> QED
  BY <1>1, <1>3, <1>4, <1>5, <1>6, AddPartCases

LEMMA OneEntryNext == TypeOK /\ OneEntryPerKey /\ [Next]_vars => OneEntryPerKey'
<1> SUFFICES ASSUME TypeOK, OneEntryPerKey, [Next]_vars PROVE OneEntryPerKey'
  OBVIOUS
<1> USE DEF asm
<1>1. ASSUME NEW c \in Callers, NEW m \in sent, NEW n \in AnyNumber, AddPart(c, m, n)
      PROVE  OneEntryPerKey'
  <2> SUFFICES ASSUME NEW k \in Keys
               PROVE  /\ pending'[k] = 0 \/ flushed'[k] = 0
                      /\ \A i \in {pending'[k], flushed'[k]} \ {0} : obj'[i].key = k
    BY DEF OneEntryPerKey
  <2>1. pending[k] \in 0..Len(obj) /\ flushed[k] \in 0..Len(obj) /\ Len(obj) \in Nat /\ m \in Msgs
    BY ObjType DEF TypeOK
  <2>2. \A i \in {pending[k], flushed[k]} \ {0} : obj'[i].key = k
    BY <1>1, <2>1, PartsGrow DEF OneEntryPerKey
  <2>3. CASE pending'[k] \in {0, pending[k]}
    BY <1>1, <2>2, <2>3, EntryMoves DEF OneEntryPerKey
  <2>4. CASE /\ k = m.key /\ pending'[k] = Len(obj) + 1 /\ flushed'[k] = 0
             /\ Accepted(c, m, n) /\ obj'[Len(obj) + 1] = Rearm(Opened(m, n))
    <3>1. obj'[Len(obj) + 1].key = k
      BY <2>1, <2>4, OpenedFields, RearmFields DEF Accepted
    <3> QED
      BY <2>4, <3>1
  <2> QED
    BY <1>1, <2>3, <2>4, EntryMoves
<1>2. ASSUME NEW i \in DOMAIN obj, TimerFires(i) PROVE OneEntryPerKey'
  <2>1. \A j \in 1..Len(obj) : obj'[j].key = obj[j].key
    BY <1>2, ObjType DEF TimerFires, Object
  <2>2. UNCHANGED <<pending, flushed>>
    BY <1>2 DEF TimerFires
  <2>3. \A k \in Keys : ({pending[k], flushed[k]} \ {0}) \subseteq 1..Len(obj)
    BY ObjType DEF TypeOK
  <2> QED
    BY <2>1, <2>2, <2>3 DEF OneEntryPerKey
<1>3. ASSUME NEW k \in Keys, flushPending(k) PROVE OneEntryPerKey'
  BY <1>3 DEF flushPending, OneEntryPerKey, TypeOK
<1>4. CASE UNCHANGED <<obj, pending, flushed>>
  BY <1>4 DEF OneEntryPerKey
<1> QED
  BY <1>1, <1>2, <1>3, <1>4 DEF Next, Runs, AddSingle, Receive, Format, onFlush, Ages, vars

LEMMA EntriesFitNext == TypeOK /\ OneEntryPerKey /\ EntriesFit /\ [Next]_vars => EntriesFit'
<1> SUFFICES ASSUME TypeOK, OneEntryPerKey, EntriesFit, [Next]_vars PROVE EntriesFit'
  OBVIOUS
<1> USE DEF asm
<1>0. DOMAIN obj = 1..Len(obj) /\ DOMAIN obj' = 1..Len(obj')
  BY AssemblerTypeNext, ObjType, LenProperties DEF TypeOK
<1>1. ASSUME NEW c \in Callers, NEW m \in sent, NEW n \in AnyNumber, AddPart(c, m, n)
      PROVE  EntriesFit'
  <2>1. m \in Msgs /\ UNCHANGED sent
    BY <1>1 DEF TypeOK, AddPart, vars
  <2>2. ASSUME NEW j \in 1..Len(obj) PROVE Fits(obj[j])'
    <3>1. obj'[j].key = obj[j].key /\ obj'[j].total = obj[j].total
      BY <1>1, PartsGrow
    <3>2. \E d \in sent : d.key = obj'[j].key /\ d.total = obj'[j].total /\ d.total > 1
      BY <1>0, <3>1 DEF EntriesFit, Fits
    <3>3. ASSUME NEW x \in Numbers, obj'[j].parts[x] # NIL
          PROVE  LET d == obj'[j].parts[x] IN
                 d \in sent /\ d.key = obj'[j].key /\ d.total > 1 /\ x <= d.total
      <4>1. CASE obj'[j].parts[x] = obj[j].parts[x]
        BY <1>0, <3>1, <3>3, <4>1 DEF EntriesFit, Fits
      <4>2. CASE Accepted(c, m, n) /\ x = n /\ obj[j].key = m.key /\ obj'[j].parts[x] = m
        BY <3>1, <4>2 DEF Accepted
      <4> QED
        BY <1>1, <4>1, <4>2, PartsGrow
    <3> QED
      BY <2>1, <3>2, <3>3 DEF Fits
  <2>3. ASSUME Accepted(c, m, n), NEW j, obj'[j] = Rearm(Opened(m, n)) PROVE Fits(obj[j])'
    <3>1. /\ obj'[j].key = m.key /\ obj'[j].total = m.total
          /\ \A x \in Numbers : obj'[j].parts[x] = IF x = n THEN m ELSE NIL
      BY <2>1, <2>3, OpenedFields, RearmFields DEF Accepted
    <3> QED
      BY <2>1, <2>3, <3>1 DEF Accepted, Fits
  <2> QED
    BY <1>0, <1>1, <2>2, <2>3, PartsGrow DEF EntriesFit
<1>2. ASSUME NEW i \in DOMAIN obj, TimerFires(i) PROVE EntriesFit'
  <2>1. /\ \A j \in 1..Len(obj) : /\ obj'[j].key = obj[j].key /\ obj'[j].parts = obj[j].parts
                                    /\ obj'[j].total = obj[j].total
        /\ DOMAIN obj' = DOMAIN obj /\ UNCHANGED sent
    BY <1>2, ObjType DEF TimerFires, Object
  <2> QED
    BY <1>0, <2>1 DEF EntriesFit, Fits
<1>3. CASE UNCHANGED <<sent, obj>>
  BY <1>3 DEF EntriesFit, Fits
<1> QED
  BY <1>1, <1>2, <1>3 DEF Next, Runs, AddSingle, Receive, flushPending, Format, onFlush, Ages, vars

(* The entries never share a key, and hold what belongs to it.             *)
LEMMA EntriesInvariant == Spec => [](TypeOK /\ OneEntryPerKey /\ EntriesFit)
<1>1. Init => OneEntryPerKey /\ EntriesFit
  BY DEF Init, OneEntryPerKey, EntriesFit
<1> QED
  BY <1>1, AssemblerTypeInit, AssemblerTypeNext, OneEntryNext, EntriesFitNext, PTL DEF Spec

(* A key never has an entry in both maps of assembler.go, and an entry is  *)
(* found under its own key only, so that no flush or late part reaches the *)
(* parts of another message.                                               *)
THEOREM EntriesApart == Spec => []OneEntryPerKey
BY EntriesInvariant, PTL

-----------------------------------------------------------------------------
(***************************************************************************)
(* Timers.                                                                 *)
(***************************************************************************)

LEMMA OneIsNotFull ==
  ASSUME NEW m \in Msgs, NEW n \in Numbers, m.total > 1
  PROVE  Rearm(Opened(m, n)).timer = "armed"
<1>1. {x \in Numbers : Opened(m, n).parts[x] # NIL} = {n}
  <2>1. \A x \in Numbers : Opened(m, n).parts[x] # NIL <=> x = n
    BY OpenedFields, MsgTypes
  <2> QED
    BY <2>1
<1>2. Cardinality({x \in Numbers : Opened(m, n).parts[x] # NIL}) = 1
  BY <1>1, FS_Singleton
<1>3. Opened(m, n).total # 1
  BY OpenedFields, MsgTypes
<1>4. ~Full(Opened(m, n))
  BY <1>2, <1>3 DEF Full
<1> QED
  BY <1>4, OpenedFields, RearmFields

LEMMA PendingTimedNext ==
  TypeOK /\ OneEntryPerKey /\ PendingIsTimed /\ [Next]_vars => PendingIsTimed'
<1> SUFFICES ASSUME TypeOK, OneEntryPerKey, PendingIsTimed, [Next]_vars, NEW k \in Keys, pending'[k] # 0
             PROVE  obj'[pending'[k]].timer = "armed" \/ firing'[k] > 0
  BY DEF PendingIsTimed
<1> USE DEF asm
<1>0. /\ pending[k] \in 0..Len(obj) /\ Len(obj) \in Nat /\ firing[k] \in Nat
      /\ pending[k] # 0 => pending[k] \in 1..Len(obj) /\ obj[pending[k]].key = k /\ flushed[k] = 0
  BY ObjType DEF TypeOK, OneEntryPerKey
<1>1. ASSUME NEW c \in Callers, NEW m \in sent, NEW n \in AnyNumber, AddPart(c, m, n)
      PROVE  obj'[pending'[k]].timer = "armed" \/ firing'[k] > 0
  <2>1. m \in Msgs /\ m.key \in Keys
    BY MsgTypes DEF TypeOK
  <2>2. CASE UNCHANGED vars
    BY <2>2 DEF vars, PendingIsTimed
  <2>3. ASSUME Accepted(c, m, n), pending[k] # 0, pending[k] \notin old, pending'[k] = pending[k],
               obj'[pending[k]] = Swept[pending[k]]
        PROVE  obj'[pending'[k]].timer = "armed" \/ firing'[k] > 0
    <3>1. Swept[pending[k]] = obj[pending[k]]
      BY <1>0, <2>3, SweptFields DEF Expired
    <3> QED
      BY <2>3, <3>1 DEF PendingIsTimed, Accepted
  <2>4. Kept(pending)[k] # 0 => Kept(pending)[k] = pending[k] /\ pending[k] \notin old
    BY KeptFields DEF TypeOK
  <2>5. ASSUME Accepted(c, m, n), NEW i \in 1..Len(obj), Live(flushed, m, i), LatePart(c, m, n, i)
        PROVE  obj'[pending'[k]].timer = "armed" \/ firing'[k] > 0
    <3>1. pending'[k] = pending[k] /\ pending[k] \notin old
      BY <2>4, <2>5 DEF LatePart
    <3>2. pending[k] # i
      BY <1>0, <2>1, <2>5, <3>1 DEF Live, OneEntryPerKey
    <3>3. obj'[pending[k]] = Swept[pending[k]]
      BY <1>0, <2>1, <2>5, <3>1, <3>2, LateObjects DEF Accepted
    <3> QED
      BY <2>3, <2>5, <3>1, <3>3
  <2>6. ASSUME Accepted(c, m, n), NEW i \in 1..Len(obj), Live(pending, m, i), PendingPart(c, m, n, i)
        PROVE  obj'[pending'[k]].timer = "armed" \/ firing'[k] > 0
    <3>1. pending' = [Kept(pending) EXCEPT ![m.key] = Entry(Rearm(Stored(i, m, n)), i)]
      BY <2>6 DEF PendingPart, Stored
    <3>2. /\ obj'[i] = Rearm(Stored(i, m, n)) /\ Stored(i, m, n) \in Object
          /\ \A j \in 1..Len(obj) : j # i => obj'[j] = Swept[j]
      <4>1. n \in Numbers
        BY <2>6 DEF Accepted
      <4>2. Stored(i, m, n) \in Object
        BY <2>1, <4>1, StoredFields
      <4> QED
        BY <2>1, <2>6, <4>1, <4>2, PendingObjects
    <3>3. CASE k = m.key
      <4>1. pending'[k] = i /\ ~Full(Rearm(Stored(i, m, n)))
        BY <2>1, <3>1, <3>3, KeptFields DEF Entry, TypeOK
      <4> QED
        BY <3>2, <4>1, RearmFields
    <3>4. CASE k # m.key
      <4>1. pending'[k] = pending[k] /\ pending[k] \notin old
        BY <2>4, <3>1, <3>4, KeptFields DEF TypeOK
      <4>2. pending[k] # i
        BY <1>0, <2>1, <2>6, <3>4, <4>1 DEF Live, OneEntryPerKey
      <4> QED
        BY <1>0, <2>3, <2>6, <3>2, <4>1, <4>2
    <3> QED
      BY <3>3, <3>4
  <2>7. ASSUME Accepted(c, m, n), FirstPart(m, n)
        PROVE  obj'[pending'[k]].timer = "armed" \/ firing'[k] > 0
    <3>1. pending' = [Kept(pending) EXCEPT ![m.key] = Len(obj) + 1]
      BY <2>7 DEF FirstPart
    <3>2. /\ obj'[Len(obj) + 1] = Rearm(Opened(m, n))
          /\ \A j \in 1..Len(obj) : obj'[j] = Swept[j]
      BY <2>1, <2>7, FirstObjects DEF Accepted
    <3>3. CASE k = m.key
      <4>1. pending'[k] = Len(obj) + 1
        BY <2>1, <3>1, <3>3, KeptFields DEF TypeOK
      <4> QED
        BY <2>1, <2>7, <3>2, <4>1, OneIsNotFull DEF Accepted
    <3>4. CASE k # m.key
      <4>1. pending'[k] = pending[k] /\ pending[k] \notin old
        BY <2>4, <3>1, <3>4, KeptFields DEF TypeOK
      <4> QED
        BY <1>0, <2>3, <2>7, <3>2, <4>1
    <3> QED
      BY <3>3, <3>4
  <2> QED
    BY <1>1, <2>1, <2>2, <2>5, <2>6, <2>7, AddPartCases
<1>2. ASSUME NEW i \in DOMAIN obj, TimerFires(i)
      PROVE  obj'[pending'[k]].timer = "armed" \/ firing'[k] > 0
  <2>1. pending'[k] = pending[k] /\ firing' = [firing EXCEPT ![obj[i].key] = @ + 1]
    BY <1>2 DEF TimerFires
  <2>2. CASE pending[k] = i
    BY <1>0, <2>1, <2>2 DEF TypeOK
  <2>3. CASE pending[k] # i
    <3>1. obj'[pending[k]] = obj[pending[k]]
      BY <1>0, <1>2, <2>1, <2>3, ObjType DEF TimerFires
    <3>2. firing[k] > 0 => firing'[k] > 0
      BY <1>0, <2>1 DEF TypeOK
    <3> QED
      BY <2>1, <3>1, <3>2 DEF PendingIsTimed
  <2> QED
    BY <2>2, <2>3
<1>3. ASSUME NEW l \in Keys, flushPending(l)
      PROVE  obj'[pending'[k]].timer = "armed" \/ firing'[k] > 0
  <2>1. k # l
    BY <1>3 DEF flushPending, TypeOK
  <2> QED
    BY <1>3, <2>1 DEF flushPending, TypeOK, PendingIsTimed
<1>4. CASE UNCHANGED <<obj, pending, firing>>
  BY <1>4 DEF PendingIsTimed
<1> QED
  BY <1>1, <1>2, <1>3, <1>4 DEF Next, Runs, AddSingle, Receive, Format, onFlush, Ages, vars

(* No incomplete message is ever left without the timer that publishes it: *)
(* a pending entry has its timer running or a flushPending goroutine at    *)
(* the lock, whatever stale timers of the same key do.                     *)
THEOREM PendingTimed == Spec => []PendingIsTimed
<1>1. Init => PendingIsTimed
  BY DEF Init, PendingIsTimed
<1> QED
  BY <1>1, PendingTimedNext, EntriesInvariant, PTL DEF Spec

-----------------------------------------------------------------------------
(***************************************************************************)
(* What is returned as complete.                                           *)
(***************************************************************************)

(* len(parts) == totalParts means that no slot up to the total is empty,   *)
(* when none beyond it is used.                                            *)
LEMMA FullIsWhole ==
  ASSUME NEW o \in Object, Full(o), \A n \in Numbers : o.parts[n] # NIL => n <= o.total
  PROVE  \A n \in Numbers : n <= o.total => o.parts[n] # NIL
<1> DEFINE filled == {n \in Numbers : o.parts[n] # NIL}
<1>1. o.total \in Nat
  BY ObjectFields
<1>2. filled \in SUBSET (1..o.total)
  BY <1>1, MsgTypes DEF Numbers
<1>3. IsFiniteSet(1..o.total) /\ Cardinality(1..o.total) = o.total
  <2>1. \A t \in Nat : IsFiniteSet(1..t) /\ Cardinality(1..t) = IF 1 > t THEN 0 ELSE t - 1 + 1
    BY FS_Interval
  <2>2. \A t \in Nat : (IF 1 > t THEN 0 ELSE t - 1 + 1) = t
    OBVIOUS
  <2> QED
    BY <1>1, <2>1, <2>2
<1>4. Cardinality(filled) = o.total
  BY DEF Full
<1>5. filled = 1..o.total
  <2> HIDE DEF filled
  <2> QED
    BY <1>2, <1>3, <1>4, FS_Subset
<1> QED
  BY <1>1, <1>5, MsgTypes DEF Numbers

(* A full entry is whole when the messages of its key agree on the total.  *)
LEMMA FittingFull ==
  ASSUME NEW o \in Object, Fits(o), Full(o), TotalAgrees(o.key)
  PROVE  /\ \A n \in Numbers : n <= o.total => o.parts[n] # NIL
         /\ \A m \in sent : m.key = o.key => m.total = o.total
<1>1. \A m \in sent : m.key = o.key => m.total = o.total
  BY DEF Fits, TotalAgrees
<1>2. \A n \in Numbers : o.parts[n] # NIL => n <= o.total
  BY <1>1 DEF Fits
<1> QED
  BY <1>1, <1>2, FullIsWhole

LEMMA FullHasPart ==
  ASSUME NEW o \in Object, Fits(o), Full(o), sent \subseteq Msgs
  PROVE  \E n \in Numbers : o.parts[n] # NIL
<1>1. o.total > 1
  BY DEF Fits
<1>2. CASE {n \in Numbers : o.parts[n] # NIL} = {}
  <2>1. Cardinality({n \in Numbers : o.parts[n] # NIL}) = 0
    BY <1>2, FS_EmptySet
  <2> QED
    BY <1>1, <2>1 DEF Full
<1> QED
  BY <1>2

(* What a caller is given is the state of an entry after the call.         *)
LEMMA AnswerMoves ==
  ASSUME TypeOK, NEW c \in Callers, NEW m \in sent, NEW n \in AnyNumber, AddPart(c, m, n)
  PROVE  \A b \in Callers : \/ call'[b] = call[b]
                            \/ b = c /\ \E i \in 1..Len(obj') : call'[b] = Answer(obj'[i])
                            \/ call'[b] = NIL
<1>1. m \in Msgs
  BY DEF TypeOK
<1>2. CASE UNCHANGED vars
  BY <1>2 DEF vars
<1>3. ASSUME Accepted(c, m, n), NEW i \in 1..Len(obj), LatePart(c, m, n, i)
      PROVE  call' = [call EXCEPT ![c] = Answer(obj'[i])] /\ i \in 1..Len(obj')
  <2>1. obj'[i] = Stored(i, m, n) /\ Len(obj') = Len(obj)
    BY <1>1, <1>3, LateObjects DEF Accepted
  <2>2. call' = [call EXCEPT ![c] = Answer(Stored(i, m, n))]
    BY <1>3 DEF LatePart, Stored
  <2> QED
    BY <2>1, <2>2
<1>4. ASSUME Accepted(c, m, n), NEW i \in 1..Len(obj), PendingPart(c, m, n, i)
      PROVE  call' = [call EXCEPT ![c] = IF Full(obj'[i]) THEN Answer(obj'[i]) ELSE NIL] /\ i \in 1..Len(obj')
  <2>1. obj'[i] = Rearm(Stored(i, m, n)) /\ Len(obj') = Len(obj)
    BY <1>1, <1>4, PendingObjects DEF Accepted
  <2>2. call' = [call EXCEPT ![c] = IF Full(Rearm(Stored(i, m, n))) THEN Answer(Rearm(Stored(i, m, n))) ELSE NIL]
    BY <1>4 DEF PendingPart, Stored
  <2> QED
    BY <2>1, <2>2
<1>5. ASSUME FirstPart(m, n) PROVE call' = call
  BY <1>5 DEF FirstPart
<1>6. call \in [Callers -> Assembled \cup {NIL}]
  BY DEF TypeOK
<1> HIDE DEF Answer, Full
<1>7. CASE Accepted(c, m, n) /\ \E i \in 1..Len(obj) : LatePart(c, m, n, i)
  BY <1>3, <1>6, <1>7
<1>8. CASE Accepted(c, m, n) /\ \E i \in 1..Len(obj) : PendingPart(c, m, n, i)
  BY <1>4, <1>6, <1>8
<1> QED
  BY <1>1, <1>2, <1>5, <1>7, <1>8, AddPartCases

LEMMA SameTraffic == [Next]_vars => UNCHANGED sent
BY DEF Next, Runs, AddSingle, AddPart, Receive, TimerFires, flushPending, Format, onFlush, Ages, vars, asm

LEMMA WholeNext ==
  TypeOK /\ OneEntryPerKey /\ EntriesFit /\ CompleteIsWhole /\ [Next]_vars => CompleteIsWhole'
<1> SUFFICES ASSUME TypeOK, OneEntryPerKey, EntriesFit, CompleteIsWhole, [Next]_vars,
                    NEW b \in Callers, call'[b] # NIL, call'[b].complete
             PROVE  \/ WholeText(call'[b])
                    \/ \E n \in Numbers : call'[b].parts[n] # NIL /\ ~TotalAgrees(call'[b].parts[n].key)
  BY SameTraffic DEF CompleteIsWhole, WholeText, TotalAgrees
<1> USE DEF asm
<1>0. UNCHANGED sent
  BY SameTraffic
<1>1. CASE call'[b] = call[b]
  BY <1>1 DEF CompleteIsWhole, WholeText
<1>2. ASSUME NEW i \in 1..Len(obj'), call'[b] = Answer(obj'[i])
      PROVE  \/ WholeText(call'[b])
             \/ \E n \in Numbers : call'[b].parts[n] # NIL /\ ~TotalAgrees(call'[b].parts[n].key)
  <2>1. obj'[i] \in Object /\ i \in DOMAIN obj'
    <3>1. obj' \in Seq(Object)
      BY AssemblerTypeNext DEF TypeOK
    <3> QED
      BY <3>1, LenProperties, ElementOfSeq
  <2>2. Fits(obj'[i])
    BY <1>0, <2>1, EntriesFitNext DEF EntriesFit, Fits
  <2>3. Full(obj'[i]) /\ call'[b].parts = obj'[i].parts /\ call'[b].total = obj'[i].total
    BY <1>2 DEF Answer
  <2>4. PICK n \in Numbers : obj'[i].parts[n] # NIL
    BY <2>1, <2>2, <2>3, FullHasPart DEF TypeOK
  <2>5. obj'[i].parts[n].key = obj'[i].key
    BY <2>2, <2>4 DEF Fits
  <2>6. CASE TotalAgrees(obj'[i].key)
    BY <2>1, <2>2, <2>3, <2>6, FittingFull DEF WholeText
  <2>7. CASE ~TotalAgrees(obj'[i].key)
    BY <2>3, <2>4, <2>5, <2>7
  <2> QED
    BY <2>6, <2>7
<1>3. ASSUME NEW c \in Callers, NEW m \in sent, AddSingle(c, m), call'[b] # call[b]
      PROVE  WholeText(call'[b])
  <2>1. call'[b] = [parts |-> [NoParts EXCEPT ![1] = m], total |-> 1, complete |-> TRUE]
    BY <1>3 DEF AddSingle, TypeOK
  <2>2. m \in Msgs /\ m # NIL /\ 1 \in Numbers
    BY MsgTypes DEF TypeOK
  <2>3. \A n \in Numbers : n <= 1 => n = 1
    BY MsgTypes DEF Numbers
  <2> QED
    BY <2>1, <2>2, <2>3 DEF WholeText, NoParts
<1>4. ASSUME NEW c \in Callers, NEW m \in sent, NEW n \in AnyNumber, AddPart(c, m, n)
      PROVE  call'[b] = call[b] \/ \E i \in 1..Len(obj') : call'[b] = Answer(obj'[i])
  <2> HIDE DEF Answer
  <2> QED
    BY <1>4, AnswerMoves
<1>5. ASSUME NEW c \in Callers, Receive(c) PROVE call'[b] = call[b]
  BY <1>5 DEF Receive, TypeOK
<1>6. UNCHANGED call => call'[b] = call[b]
  OBVIOUS
<1> HIDE DEF Answer, WholeText
<1> QED
  BY <1>1, <1>2, <1>3, <1>4, <1>5, <1>6
     DEF Next, Runs, TimerFires, flushPending, Format, onFlush, Ages, vars

(* What AddPart returns as complete is whole, or mixes messages whose      *)
(* reused reference announces different totals (assembler.go AddPart).     *)
THEOREM CompleteWhole == Spec => []CompleteIsWhole
<1>1. Init => CompleteIsWhole
  BY DEF Init, CompleteIsWhole
<1> QED
  BY <1>1, WholeNext, EntriesInvariant, PTL DEF Spec

-----------------------------------------------------------------------------
(***************************************************************************)
(* How often a message is completed.                                       *)
(***************************************************************************)

(* A part that is taken completes nothing, or the entry of its key, which  *)
(* leaves both maps.                                                       *)
LEMMA DoneMoves ==
  ASSUME TypeOK, OneEntryPerKey, NEW c \in Callers, NEW m \in sent, NEW n \in AnyNumber,
         AddPart(c, m, n)
  PROVE  \/ done' = done
         \/ /\ Accepted(c, m, n) /\ pending'[m.key] = 0 /\ flushed'[m.key] = 0
            /\ \E i \in {pending[m.key], flushed[m.key]} \ {0} :
                 Full(obj'[i]) /\ done' = Completed(obj'[i])
<1>1. m \in Msgs /\ m.key \in Keys /\ done \in [Msgs -> Nat]
  BY MsgTypes DEF TypeOK
<1>2. \A o : ~Full(o) => Completed(o) = done
  BY <1>1 DEF Completed
<1>3. /\ Kept(pending) \in [Keys -> 0..Len(obj)] /\ Kept(flushed) \in [Keys -> 0..Len(obj)]
      /\ Kept(pending)[m.key] \in {0, pending[m.key]}
      /\ NoneLive(flushed, m) => Kept(flushed)[m.key] = 0
  BY <1>1, KeptFields DEF TypeOK, NoneLive
<1>4. CASE UNCHANGED vars
  BY <1>4 DEF vars
<1>5. ASSUME Accepted(c, m, n), NEW i \in 1..Len(obj), Live(flushed, m, i), LatePart(c, m, n, i)
      PROVE  \/ done' = done
             \/ /\ pending'[m.key] = 0 /\ flushed'[m.key] = 0 /\ i \in {flushed[m.key]} \ {0}
                /\ Full(obj'[i]) /\ done' = Completed(obj'[i])
  <2>1. obj'[i] = Stored(i, m, n)
    BY <1>1, <1>5, LateObjects DEF Accepted
  <2>2. /\ pending' = Kept(pending)
        /\ flushed' = [Kept(flushed) EXCEPT ![m.key] = Entry(Stored(i, m, n), i)]
        /\ done' = Completed(Stored(i, m, n))
    BY <1>5 DEF LatePart, Stored
  <2>3. i = flushed[m.key] /\ i # 0 /\ pending[m.key] = 0
    BY <1>1, <1>5 DEF Live, OneEntryPerKey
  <2>4. Full(Stored(i, m, n)) => flushed'[m.key] = 0
    BY <1>1, <1>3, <2>2 DEF Entry
  <2> HIDE DEF Stored, Full, Completed
  <2> QED
    BY <1>2, <1>3, <2>1, <2>2, <2>3, <2>4
<1>6. ASSUME Accepted(c, m, n), NEW i \in 1..Len(obj), Live(pending, m, i), NoneLive(flushed, m),
             PendingPart(c, m, n, i)
      PROVE  \/ done' = done
             \/ /\ pending'[m.key] = 0 /\ flushed'[m.key] = 0 /\ i \in {pending[m.key]} \ {0}
                /\ Full(obj'[i]) /\ done' = Completed(obj'[i])
  <2>1. obj'[i] = Rearm(Stored(i, m, n))
    BY <1>1, <1>6, PendingObjects DEF Accepted
  <2>2. /\ pending' = [Kept(pending) EXCEPT ![m.key] = Entry(Rearm(Stored(i, m, n)), i)]
        /\ flushed' = Kept(flushed)
        /\ done' = Completed(Rearm(Stored(i, m, n)))
    BY <1>6 DEF PendingPart, Stored
  <2>3. i = pending[m.key] /\ i # 0
    BY <1>6 DEF Live
  <2>4. Full(Rearm(Stored(i, m, n))) => pending'[m.key] = 0
    BY <1>1, <1>3, <2>2 DEF Entry
  <2> HIDE DEF Stored, Full, Completed, Rearm
  <2> QED
    BY <1>2, <1>3, <1>6, <2>1, <2>2, <2>3, <2>4
<1>7. ASSUME FirstPart(m, n) PROVE done' = done
  BY <1>7 DEF FirstPart
<1> HIDE DEF Full, Completed
<1>8. CASE Accepted(c, m, n) /\ \E i \in 1..Len(obj) : Live(flushed, m, i) /\ LatePart(c, m, n, i)
  BY <1>5, <1>8
<1>9. CASE Accepted(c, m, n) /\ \E i \in 1..Len(obj) :
             Live(pending, m, i) /\ NoneLive(flushed, m) /\ PendingPart(c, m, n, i)
  BY <1>6, <1>9
<1> QED
  BY <1>1, <1>4, <1>7, <1>8, <1>9, AddPartCases

(* A part in an entry after the step was there before, or has just come.   *)
LEMMA PartWasThere ==
  ASSUME TypeOK, OneEntryPerKey, NEW c \in Callers, NEW m \in sent, NEW n \in AnyNumber,
         AddPart(c, m, n), NEW d \in Msgs, NEW x \in Numbers,
         NEW j \in {pending'[d.key], flushed'[d.key]} \ {0}, obj'[j].parts[x] = d
  PROVE  \/ j \in {pending[d.key], flushed[d.key]} \ {0} /\ obj[j].parts[x] = d
         \/ Accepted(c, m, n) /\ d = m /\ x = n
<1>1. d.key \in Keys /\ m \in Msgs /\ d # NIL /\ Len(obj) \in Nat
  BY MsgTypes, ObjType DEF TypeOK
<1>2. CASE j \in {pending[d.key], flushed[d.key]}
  <2>1. j \in 1..Len(obj)
    BY <1>1, <1>2 DEF TypeOK
  <2> QED
    BY <1>2, <2>1, PartsGrow
<1>3. CASE Accepted(c, m, n) /\ obj'[j] = Rearm(Opened(m, n))
  <2>1. obj'[j].parts[x] = IF x = n THEN m ELSE NIL
    BY <1>1, <1>3, OpenedFields, RearmFields DEF Accepted
  <2> QED
    BY <1>1, <1>3, <2>1
<1> QED
  BY <1>1, <1>2, <1>3, EntryMoves

(* Deliveries are only ever added.                                         *)
LEMMA MoreCopies ==
  ASSUME TypeOK, NEW c \in Callers, NEW m \in sent, NEW n \in AnyNumber, AddPart(c, m, n)
  PROVE  \A d \in Msgs, x \in Numbers :
           /\ copies[d][x] \in Nat /\ copies'[d][x] \in Nat
           /\ copies'[d][x] = IF Accepted(c, m, n) /\ d = m /\ x = n THEN copies[d][x] + 1 ELSE copies[d][x]
<1>1. m \in Msgs /\ copies \in [Msgs -> [Numbers -> Nat]]
  BY DEF TypeOK
<1>2. CASE Accepted(c, m, n)
  BY <1>1, <1>2, CopiesType DEF Accepted
<1>3. CASE ~Accepted(c, m, n)
  <2>1. UNCHANGED vars
    BY <1>1, <1>3, AddPartCases
  <2> QED
    BY <1>1, <1>3, <2>1 DEF vars
<1> QED
  BY <1>2, <1>3

(* All the parts of a message alone with its key are its own.              *)
LEMMA OwnEntry ==
  ASSUME NEW o \in Object, Fits(o), Full(o), NEW d \in sent, OwnKey(d), d.key = o.key
  PROVE  \A x \in Numbers : x <= d.total => o.parts[x] = d
<1>1. TotalAgrees(o.key)
  BY DEF OwnKey, TotalAgrees
<1>2. d.total = o.total /\ \A x \in Numbers : x <= o.total => o.parts[x] # NIL
  BY <1>1, FittingFull
<1> QED
  BY <1>2 DEF Fits, OwnKey

(* The counting invariant over an accepted part.                           *)
LEMMA CountAddPart ==
  ASSUME TypeOK, OneEntryPerKey, EntriesFit, UnusedCopy, CompletedOncePerCopy, [Next]_vars,
         NEW c \in Callers, NEW m \in sent, NEW n \in AnyNumber, AddPart(c, m, n)
  PROVE  UnusedCopy' /\ CompletedOncePerCopy'
<1>1. sent \subseteq Msgs /\ UNCHANGED sent /\ (TypeOK /\ EntriesFit)'
  BY SameTraffic, AssemblerTypeNext, EntriesFitNext DEF TypeOK
<1>2. \A d \in sent : OwnKey(d)' <=> OwnKey(d)
  BY <1>1 DEF OwnKey
<1>3. done \in [Msgs -> Nat]
  BY DEF TypeOK
<1> SUFFICES ASSUME NEW d \in sent, OwnKey(d), NEW x \in Numbers
             PROVE  /\ \A j \in {pending'[d.key], flushed'[d.key]} \ {0} :
                         obj'[j].parts[x] = d => done'[d] < copies'[d][x]
                    /\ x <= d.total => done'[d] <= copies'[d][x]
  BY <1>1, <1>2 DEF UnusedCopy, CompletedOncePerCopy
<1>4. /\ copies[d][x] \in Nat /\ copies'[d][x] \in Nat /\ done[d] \in Nat /\ d \in Msgs
      /\ copies'[d][x] = IF Accepted(c, m, n) /\ d = m /\ x = n THEN copies[d][x] + 1 ELSE copies[d][x]
  BY <1>1, <1>3, MoreCopies
<1>5. x <= d.total => done[d] <= copies[d][x]
  BY DEF CompletedOncePerCopy
<1>6. CASE done'[d] = done[d]
  <2>1. x <= d.total => done'[d] <= copies'[d][x]
    BY <1>4, <1>5, <1>6
  <2>2. ASSUME NEW j \in {pending'[d.key], flushed'[d.key]} \ {0}, obj'[j].parts[x] = d
        PROVE  done'[d] < copies'[d][x]
    <3>1. CASE j \in {pending[d.key], flushed[d.key]} \ {0} /\ obj[j].parts[x] = d
      <4>1. done[d] < copies[d][x]
        BY <3>1 DEF UnusedCopy
      <4> QED
        BY <1>4, <1>6, <4>1
    <3>2. CASE Accepted(c, m, n) /\ d = m /\ x = n
      <4>1. x <= d.total
        BY <3>2 DEF Accepted
      <4> QED
        BY <1>4, <1>5, <1>6, <3>2, <4>1
    <3> QED
      BY <1>4, <2>2, <3>1, <3>2, PartWasThere
  <2> QED
    BY <2>1, <2>2
<1>7. CASE done'[d] # done[d]
  <2>1. PICK i \in {pending[m.key], flushed[m.key]} \ {0} :
          Full(obj'[i]) /\ done' = Completed(obj'[i]) /\ Accepted(c, m, n)
    BY <1>7, DoneMoves
  <2>2. pending'[m.key] = 0 /\ flushed'[m.key] = 0
    BY <1>7, DoneMoves
  <2>3. i \in 1..Len(obj) /\ obj[i].key = m.key /\ m.key \in Keys
    <3>1. m.key \in Keys /\ Len(obj) \in Nat
      BY <1>1, MsgTypes, ObjType
    <3>2. pending[m.key] \in 0..Len(obj) /\ flushed[m.key] \in 0..Len(obj)
      BY <3>1 DEF TypeOK
    <3>3. obj[i].key = m.key
      BY <3>1 DEF OneEntryPerKey
    <3> QED
      BY <3>1, <3>2, <3>3
  <2>4. obj'[i].key = m.key /\ i \in 1..Len(obj')
    BY <2>3, PartsGrow
  <2>5. obj'[i] \in Object /\ Fits(obj'[i])
    <3>1. obj' \in Seq(Object) /\ DOMAIN obj' = 1..Len(obj')
      BY <1>1, LenProperties DEF TypeOK
    <3>2. obj'[i] \in Object
      BY <2>4, <3>1, ElementOfSeq
    <3> QED
      BY <1>1, <2>4, <3>1, <3>2 DEF EntriesFit, Fits
  <2>6. done'[d] = done[d] + 1 /\ \E y \in Numbers : obj'[i].parts[y] = d
    BY <1>4, <1>7, <2>1 DEF Completed
  <2>7. d.key = m.key /\ d = m
    <3>1. d.key = m.key
      BY <1>4, <2>4, <2>5, <2>6, MsgTypes DEF Fits
    <3> QED
      BY <3>1 DEF OwnKey
  <2>8. x <= d.total => done'[d] <= copies'[d][x]
    <3> SUFFICES ASSUME x <= d.total PROVE done[d] + 1 <= copies'[d][x]
      BY <2>6
    <3>1. obj'[i].parts[x] = d
      BY <2>1, <2>4, <2>5, <2>7, OwnEntry
    <3>2. CASE obj[i].parts[x] = d
      <4>1. done[d] < copies[d][x]
        BY <2>1, <2>7, <3>2 DEF UnusedCopy
      <4> QED
        BY <1>4, <4>1
    <3>3. CASE x = n
      BY <1>4, <1>5, <2>1, <2>7, <3>3
    <3> QED
      BY <2>3, <3>1, <3>2, <3>3, PartsGrow
  <2> QED
    BY <2>2, <2>7, <2>8
<1> QED
  BY <1>6, <1>7

LEMMA CountNext ==
  TypeOK /\ OneEntryPerKey /\ EntriesFit /\ UnusedCopy /\ CompletedOncePerCopy /\ [Next]_vars
    => UnusedCopy' /\ CompletedOncePerCopy'
<1> SUFFICES ASSUME TypeOK, OneEntryPerKey, EntriesFit, UnusedCopy, CompletedOncePerCopy, [Next]_vars
             PROVE  UnusedCopy' /\ CompletedOncePerCopy'
  OBVIOUS
<1> USE DEF asm
<1>1. sent \subseteq Msgs /\ UNCHANGED sent
  BY SameTraffic DEF TypeOK
<1>2. \A d \in sent : OwnKey(d)' <=> OwnKey(d)
  BY <1>1 DEF OwnKey
<1>3. \A d \in Msgs : d.key \in Keys /\ {pending[d.key], flushed[d.key]} \ {0} \subseteq DOMAIN obj
  BY MsgTypes, ObjType DEF TypeOK
<1>4. ASSUME NEW c \in Callers, NEW m \in sent, AddSingle(c, m) PROVE UnusedCopy' /\ CompletedOncePerCopy'
  <2>1. /\ m \in Msgs /\ m.total \in Nat /\ m.total <= 1 /\ UNCHANGED <<obj, pending, flushed>>
        /\ done' = [done EXCEPT ![m] = @ + 1] /\ copies' = [copies EXCEPT ![m][1] = @ + 1]
    BY <1>1, <1>4, MsgTypes DEF AddSingle
  <2>2. \A d \in Msgs, x \in Numbers :
          /\ copies[d][x] \in Nat /\ done[d] \in Nat
          /\ copies'[d][x] = IF d = m /\ x = 1 THEN copies[d][x] + 1 ELSE copies[d][x]
          /\ done'[d] = IF d = m THEN done[d] + 1 ELSE done[d]
    BY <2>1, CopiesType, MsgTypes DEF TypeOK
  <2>3. \A x \in Numbers : x <= m.total => x = 1
    BY <2>1, MsgTypes DEF Numbers
  <2>4. CompletedOncePerCopy'
    <3> SUFFICES ASSUME NEW d \in sent, NEW x \in Numbers, OwnKey(d), x <= d.total
                 PROVE  done'[d] <= copies'[d][x]
      BY <1>1, <1>2 DEF CompletedOncePerCopy
    <3>1. done[d] <= copies[d][x]
      BY DEF CompletedOncePerCopy
    <3>2. /\ copies[d][x] \in Nat /\ done[d] \in Nat
          /\ copies'[d][x] = IF d = m /\ x = 1 THEN copies[d][x] + 1 ELSE copies[d][x]
          /\ done'[d] = IF d = m THEN done[d] + 1 ELSE done[d]
      BY <1>1, <2>2
    <3>3. d = m => x = 1
      BY <2>3
    <3> QED
      BY <3>1, <3>2, <3>3
  <2>5. UnusedCopy'
    <3> SUFFICES ASSUME NEW d \in sent, NEW x \in Numbers, OwnKey(d),
                        NEW j \in {pending[d.key], flushed[d.key]} \ {0}, obj[j].parts[x] = d
                 PROVE  done'[d] < copies'[d][x]
      BY <1>1, <1>2, <2>1 DEF UnusedCopy
    <3>1. d.total > 1 /\ d \in Msgs
      BY <1>1, <1>3, MsgTypes DEF EntriesFit, Fits
    <3>2. d # m
      BY <2>1, <3>1
    <3>3. done[d] < copies[d][x]
      BY DEF UnusedCopy
    <3> QED
      BY <2>2, <3>1, <3>2, <3>3
  <2> QED
    BY <2>4, <2>5
<1>5. CASE UNCHANGED <<obj, pending, flushed, copies, done>>
  BY <1>1, <1>2, <1>5 DEF UnusedCopy, CompletedOncePerCopy
<1>6. ASSUME NEW i \in DOMAIN obj, TimerFires(i) PROVE UnusedCopy' /\ CompletedOncePerCopy'
  <2>1. /\ \A j \in DOMAIN obj : obj'[j].parts = obj[j].parts
        /\ UNCHANGED <<pending, flushed, copies, done>>
    BY <1>6, ObjType DEF TimerFires, Object
  <2> QED
    BY <1>1, <1>2, <1>3, <2>1 DEF UnusedCopy, CompletedOncePerCopy
<1>7. ASSUME NEW k \in Keys, flushPending(k) PROVE UnusedCopy' /\ CompletedOncePerCopy'
  <2>1. /\ \A l \in Keys : {pending'[l], flushed'[l]} \ {0} \subseteq {pending[l], flushed[l]} \ {0}
        /\ UNCHANGED <<obj, copies, done>>
    BY <1>7 DEF flushPending, TypeOK
  <2> QED
    BY <1>1, <1>2, <1>3, <2>1 DEF UnusedCopy, CompletedOncePerCopy
<1> QED
  BY <1>4, <1>5, <1>6, <1>7, CountAddPart DEF Next, Runs, Receive, Format, onFlush, Ages, vars

(* A message that is alone with its key is completed no more often than    *)
(* each of its parts was delivered: no flush, late part, duplicate or race *)
(* of two callers makes AddPart (assembler.go) return it once too often.   *)
THEOREM CompletedOnce == Spec => []CompletedOncePerCopy
<1>1. Init => UnusedCopy /\ CompletedOncePerCopy
  <2> SUFFICES ASSUME Init PROVE UnusedCopy /\ CompletedOncePerCopy
    OBVIOUS
  <2>1. sent \subseteq Msgs
    BY AssemblerTypeInit DEF TypeOK
  <2>2. \A d \in Msgs, x \in Numbers : done[d] = 0 /\ copies[d][x] = 0 /\ pending[d.key] = 0 /\ flushed[d.key] = 0
    BY MsgTypes DEF Init
  <2> QED
    BY <2>1, <2>2 DEF UnusedCopy, CompletedOncePerCopy
<1> QED
  BY <1>1, CountNext, EntriesInvariant, PTL DEF Spec

-----------------------------------------------------------------------------
(***************************************************************************)
(* Nothing is lost.                                                        *)
(***************************************************************************)

(* Part n of m is published, dropped by the TTL, or on its way.            *)
Accounted(m, n) == <<m, n>> \in shown \cup dropped \/ InHand(m, n)

(* A part of a message alone with its key is never overwritten.            *)
LEMMA PartStays ==
  ASSUME TypeOK, OneEntryPerKey, EntriesFit, [Next]_vars,
         NEW d \in sent, OwnKey(d), NEW x \in Numbers, NEW j \in 1..Len(obj), obj[j].parts[x] = d
  PROVE  obj'[j].parts[x] = d
<1> USE DEF asm
<1>1. d \in Msgs /\ d # NIL /\ j \in DOMAIN obj
  BY MsgTypes, ObjType DEF TypeOK
<1>2. d.key = obj[j].key
  BY <1>1 DEF EntriesFit, Fits
<1>3. ASSUME NEW c \in Callers, NEW m \in sent, NEW n \in AnyNumber, AddPart(c, m, n)
      PROVE  obj'[j].parts[x] = d
  BY <1>2, <1>3, PartsGrow DEF OwnKey
<1>4. ASSUME NEW i \in DOMAIN obj, TimerFires(i) PROVE obj'[j].parts[x] = d
  BY <1>1, <1>4, ObjType DEF TimerFires, Object
<1>5. UNCHANGED obj => obj'[j].parts[x] = d
  OBVIOUS
<1> QED
  BY <1>3, <1>4, <1>5 DEF Next, Runs, AddSingle, Receive, flushPending, Format, onFlush, Ages, vars

LEMMA TextsOf ==
  ASSUME NEW parts, NEW x \in Numbers, NEW d \in Msgs, parts[x] = d
  PROVE  <<d, x>> \in Texts(parts)
BY MsgTypes DEF Texts

(* What was accounted for still is after a part has been taken.            *)
LEMMA OthersStay ==
  ASSUME TypeOK, OneEntryPerKey, EntriesFit, [Next]_vars,
         NEW c \in Callers, NEW m \in sent, NEW n \in AnyNumber, AddPart(c, m, n),
         NEW d \in sent, OwnKey(d), NEW x \in Numbers, Accounted(d, x)
  PROVE  Accounted(d, x)'
<1>1. d \in Msgs /\ d # NIL /\ m \in Msgs /\ m.key \in Keys
  BY MsgTypes DEF TypeOK
<1>2. UNCHANGED vars \/ Accepted(c, m, n)
  BY <1>1, AddPartCases
<1>3. CASE UNCHANGED vars
  BY <1>3 DEF vars, asm, Accounted, InHand
<1>4. CASE Accepted(c, m, n)
  <2>1. UNCHANGED <<shown, flushers>> /\ dropped' = dropped \cup SweptTexts /\ call[c] = NIL
    BY <1>4 DEF Accepted
  <2>2. CASE <<d, x>> \in shown \cup dropped
    BY <2>1, <2>2 DEF Accounted
  <2>3. ASSUME NEW k \in Keys, pending[k] # 0, obj[pending[k]].parts[x] = d PROVE Accounted(d, x)'
    <3>1. pending[k] \in 1..Len(obj)
      BY <2>3, ObjType DEF TypeOK
    <3>2. CASE pending[k] \in old
      <4>1. pending[k] \in Expired(pending)
        BY <3>2 DEF Expired
      <4>2. <<d, x>> \in SweptTexts
        BY <1>1, <2>3, <4>1, TextsOf DEF SweptTexts
      <4> QED
        BY <2>1, <4>2 DEF Accounted
    <3>3. CASE pending'[k] = pending[k]
      <4>1. obj'[pending[k]].parts[x] = d
        BY <2>3, <3>1, PartStays
      <4> QED
        BY <2>3, <3>3, <4>1 DEF Accounted, InHand
    <3>4. CASE pending[k] \notin old /\ pending'[k] # pending[k]
      <4>1. Kept(pending)[k] = pending[k] /\ Kept(pending) \in [Keys -> 0..Len(obj)]
        BY <3>4, KeptFields DEF TypeOK
      <4>2. PICK i \in 1..Len(obj) : i = pending[k] /\ PendingPart(c, m, n, i)
        <5>1. ASSUME NEW i \in 1..Len(obj), LatePart(c, m, n, i) PROVE FALSE
          BY <3>4, <4>1, <5>1 DEF LatePart
        <5>2. ASSUME NoneLive(pending, m), FirstPart(m, n) PROVE FALSE
          <6>1. pending' = [Kept(pending) EXCEPT ![m.key] = Len(obj) + 1]
            BY <5>2 DEF FirstPart
          <6>2. k = m.key
            BY <3>4, <4>1, <6>1
          <6> QED
            BY <2>3, <3>4, <5>2, <6>2 DEF NoneLive
        <5>3. ASSUME NEW i \in 1..Len(obj), Live(pending, m, i), PendingPart(c, m, n, i)
              PROVE  i = pending[k]
          <6>1. PICK e : pending' = [Kept(pending) EXCEPT ![m.key] = e]
            BY <5>3 DEF PendingPart
          <6>2. k = m.key
            BY <3>4, <4>1, <6>1
          <6> QED
            BY <5>3, <6>2 DEF Live
        <5>4. ~UNCHANGED vars
          BY <3>4 DEF vars, asm
        <5> QED
          BY <1>1, <5>1, <5>2, <5>3, <5>4, AddPartCases
      <4>3. /\ obj'[i] = Rearm(Stored(i, m, n)) /\ obj'[i].parts[x] = d /\ obj'[i] \in Object
        <5>1. obj'[i] = Rearm(Stored(i, m, n))
          BY <1>1, <1>4, <4>2, PendingObjects DEF Accepted
        <5>2. obj'[i].parts[x] = d
          BY <2>3, <4>2, PartStays
        <5>3. Stored(i, m, n) \in Object
          BY <1>1, <1>4, StoredFields DEF Accepted
        <5> QED
          BY <5>1, <5>2, <5>3, RearmFields
      <4>4. pending' = [Kept(pending) EXCEPT ![m.key] = Entry(Rearm(Stored(i, m, n)), i)]
        BY <4>2 DEF PendingPart, Stored
      <4>5. Full(Rearm(Stored(i, m, n)))
        BY <3>4, <4>1, <4>2, <4>4 DEF Entry
      <4>6. call' = [call EXCEPT ![c] = Answer(obj'[i])]
        <5>1. call' = [call EXCEPT ![c] = IF Full(Rearm(Stored(i, m, n)))
                                          THEN Answer(Rearm(Stored(i, m, n))) ELSE NIL]
          BY <4>2 DEF PendingPart, Stored
        <5> QED
          BY <4>3, <4>5, <5>1
      <4>7. Answer(obj'[i]) # NIL /\ Answer(obj'[i]).parts[x] = d
        BY <4>3, AnswerType, AssemblerAssumption DEF Answer
      <4>8. call'[c] = Answer(obj'[i])
        BY <4>6 DEF TypeOK
      <4> QED
        BY <4>7, <4>8 DEF Accounted, InHand
    <3> QED
      BY <3>2, <3>3, <3>4
  <2>4. ASSUME NEW f \in flushers, f.out = NIL, obj[f.obj].parts[x] = d PROVE Accounted(d, x)'
    <3>1. f.obj \in 1..Len(obj)
      BY DEF TypeOK
    <3>2. obj'[f.obj].parts[x] = d
      BY <2>4, <3>1, PartStays
    <3> QED
      BY <2>1, <2>4, <3>2 DEF Accounted, InHand
  <2>5. ASSUME NEW f \in flushers, f.out # NIL, f.out.parts[x] = d PROVE Accounted(d, x)'
    BY <2>1, <2>5 DEF Accounted, InHand
  <2>6. ASSUME NEW b \in Callers, call[b] # NIL, call[b].parts[x] = d PROVE Accounted(d, x)'
    <3>1. b # c
      BY <2>1, <2>6
    <3>2. call'[b] = call[b]
      <4>1. ASSUME NEW i, LatePart(c, m, n, i) \/ PendingPart(c, m, n, i) PROVE call'[b] = call[b]
        BY <3>1, <4>1 DEF LatePart, PendingPart, TypeOK
      <4>2. ASSUME FirstPart(m, n) PROVE call'[b] = call[b]
        BY <4>2 DEF FirstPart
      <4>3. ASSUME UNCHANGED vars PROVE call'[b] = call[b]
        BY <4>3 DEF vars
      <4> QED
        BY <1>1, <4>1, <4>2, <4>3, AddPartCases
    <3> QED
      BY <2>6, <3>2 DEF Accounted, InHand
  <2> QED
    BY <2>2, <2>3, <2>4, <2>5, <2>6 DEF Accounted, InHand
<1> QED
  BY <1>2, <1>3, <1>4

(* The part that has just been taken is in hand.                           *)
LEMMA NewPartInHand ==
  ASSUME TypeOK, OneEntryPerKey, EntriesFit,
         NEW c \in Callers, NEW m \in sent, NEW n \in AnyNumber, AddPart(c, m, n), Accepted(c, m, n)
  PROVE  Accounted(m, n)'
<1>1. m \in Msgs /\ m # NIL /\ m.key \in Keys /\ n \in Numbers
  BY MsgTypes DEF TypeOK, Accepted
<1>2. ASSUME NEW i \in 1..Len(obj), LatePart(c, m, n, i) PROVE Accounted(m, n)'
  <2>1. Stored(i, m, n) \in Object /\ Stored(i, m, n).parts[n] = m
    BY <1>1, StoredFields
  <2>2. Answer(Stored(i, m, n)) # NIL /\ Answer(Stored(i, m, n)).parts[n] = m
    BY <2>1, AnswerType, AssemblerAssumption DEF Answer
  <2>3. call'[c] = Answer(Stored(i, m, n))
    BY <1>2 DEF LatePart, Stored, TypeOK
  <2> QED
    BY <2>2, <2>3 DEF Accounted, InHand
<1>3. ASSUME NEW i \in 1..Len(obj), PendingPart(c, m, n, i) PROVE Accounted(m, n)'
  <2>1. /\ Stored(i, m, n) \in Object /\ Stored(i, m, n).parts[n] = m
    BY <1>1, StoredFields
  <2>2. Rearm(Stored(i, m, n)) \in Object /\ Rearm(Stored(i, m, n)).parts[n] = m
    BY <2>1, RearmFields
  <2>3. /\ obj'[i] = Rearm(Stored(i, m, n))
        /\ pending' = [Kept(pending) EXCEPT ![m.key] = Entry(Rearm(Stored(i, m, n)), i)]
        /\ call' = [call EXCEPT ![c] = IF Full(Rearm(Stored(i, m, n)))
                                       THEN Answer(Rearm(Stored(i, m, n))) ELSE NIL]
    <3>1. obj'[i] = Rearm(Stored(i, m, n))
      BY <1>1, <1>3, PendingObjects
    <3> QED
      BY <1>3, <3>1 DEF PendingPart, Stored
  <2>4. CASE Full(Rearm(Stored(i, m, n)))
    <3>1. /\ Answer(Rearm(Stored(i, m, n))) # NIL
          /\ Answer(Rearm(Stored(i, m, n))).parts[n] = m
      BY <2>2, AnswerType, AssemblerAssumption DEF Answer
    <3>2. call'[c] = Answer(Rearm(Stored(i, m, n)))
      BY <2>3, <2>4 DEF TypeOK
    <3> QED
      BY <3>1, <3>2 DEF Accounted, InHand
  <2>5. CASE ~Full(Rearm(Stored(i, m, n)))
    <3>1. pending'[m.key] = i /\ i # 0
      <4>1. Kept(pending) \in [Keys -> 0..Len(obj)]
        BY KeptFields DEF TypeOK
      <4>2. Entry(Rearm(Stored(i, m, n)), i) = i
        BY <2>5 DEF Entry
      <4> QED
        BY <1>1, <2>3, <4>1, <4>2
    <3>2. obj'[pending'[m.key]].parts[n] = m
      BY <2>2, <2>3, <3>1
    <3> QED
      BY <1>1, <3>1, <3>2 DEF Accounted, InHand
  <2> QED
    BY <2>4, <2>5
<1>4. ASSUME FirstPart(m, n) PROVE Accounted(m, n)'
  <2>1. obj'[Len(obj) + 1] = Rearm(Opened(m, n))
    BY <1>1, <1>4, FirstObjects
  <2>2. Rearm(Opened(m, n)).parts[n] = m
    BY <1>1, OpenedFields, RearmFields
  <2>3. pending'[m.key] = Len(obj) + 1 /\ Len(obj) + 1 # 0
    <3>1. Kept(pending) \in [Keys -> 0..Len(obj)] /\ Len(obj) \in Nat
      BY KeptFields, ObjType DEF TypeOK
    <3> QED
      BY <1>1, <1>4, <3>1 DEF FirstPart
  <2>4. obj'[pending'[m.key]].parts[n] = m
    BY <2>1, <2>2, <2>3
  <2> QED
    BY <1>1, <2>3, <2>4 DEF Accounted, InHand
<1>5. ~UNCHANGED vars
  <2>1. left \in Nat /\ left' = left - 1
    BY DEF TypeOK, Accepted
  <2> QED
    BY <2>1 DEF vars
<1> QED
  BY <1>1, <1>2, <1>3, <1>4, <1>5, AddPartCases

LEMMA LostNext ==
  TypeOK /\ OneEntryPerKey /\ EntriesFit /\ NothingLost /\ [Next]_vars => NothingLost'
<1> SUFFICES ASSUME TypeOK, OneEntryPerKey, EntriesFit, NothingLost, [Next]_vars,
                    NEW d \in sent, NEW x \in Numbers, OwnKey(d), copies'[d][x] > 0
             PROVE  Accounted(d, x)'
  BY SameTraffic DEF NothingLost, OwnKey, Accounted
<1> USE DEF asm
<1>1. d \in Msgs /\ d # NIL /\ copies[d][x] \in Nat
  BY MsgTypes DEF TypeOK
<1>2. copies[d][x] > 0 => Accounted(d, x)
  BY DEF NothingLost, Accounted
<1>3. ASSUME NEW c \in Callers, NEW m \in sent, NEW n \in AnyNumber, AddPart(c, m, n)
      PROVE  Accounted(d, x)'
  <2>1. CASE Accepted(c, m, n) /\ d = m /\ x = n
    BY <1>3, <2>1, NewPartInHand
  <2>2. CASE ~(Accepted(c, m, n) /\ d = m /\ x = n)
    <3>1. copies'[d][x] = copies[d][x]
      BY <1>1, <1>3, <2>2, MoreCopies
    <3> QED
      BY <1>2, <1>3, <3>1, OthersStay
  <2> QED
    BY <2>1, <2>2
<1>4. ASSUME NEW c \in Callers, NEW m \in sent, AddSingle(c, m) PROVE Accounted(d, x)'
  <2> DEFINE a == [parts |-> [NoParts EXCEPT ![1] = m], total |-> 1, complete |-> TRUE]
  <2>1. /\ m \in Msgs /\ 1 \in Numbers /\ call[c] = NIL /\ call' = [call EXCEPT ![c] = a]
        /\ copies' = [copies EXCEPT ![m][1] = @ + 1]
        /\ UNCHANGED <<obj, pending, flushers, shown, dropped>>
    BY <1>4, MsgTypes DEF AddSingle, TypeOK
  <2>2. a \in Assembled /\ a.parts[1] = m
    BY <2>1 DEF Assembled, NoParts, Slots
  <2>3. a # NIL /\ a.parts[1] = m
    BY <2>2, AssemblerAssumption
  <2> HIDE DEF a
  <2>4. CASE d = m /\ x = 1
    <3>1. call'[c] = a
      BY <2>1 DEF TypeOK
    <3> QED
      BY <2>3, <2>4, <3>1 DEF Accounted, InHand
  <2>5. CASE ~(d = m /\ x = 1)
    <3>1. Accounted(d, x)
      BY <1>1, <1>2, <2>1, <2>5, CopiesType
    <3>2. \A b \in Callers : call[b] # NIL => call'[b] = call[b]
      BY <2>1 DEF TypeOK
    <3> QED
      BY <2>1, <3>1, <3>2 DEF Accounted, InHand
  <2> QED
    BY <2>4, <2>5
<1>5. CASE UNCHANGED copies
  <2>0. Accounted(d, x)
    BY <1>2, <1>5
  <2>1. ASSUME NEW c \in Callers, Receive(c) PROVE Accounted(d, x)'
    <3>1. /\ shown' = shown \cup Texts(call[c].parts) /\ call' = [call EXCEPT ![c] = NIL]
          /\ UNCHANGED <<obj, pending, flushers, dropped>>
      BY <2>1 DEF Receive
    <3>2. CASE call[c].parts[x] = d
      BY <1>1, <3>1, <3>2, TextsOf DEF Accounted
    <3>3. CASE call[c].parts[x] # d
      <4>1. \A b \in Callers : b # c => call'[b] = call[b]
        BY <3>1 DEF TypeOK
      <4> QED
        BY <2>0, <3>1, <3>3, <4>1 DEF Accounted, InHand
    <3> QED
      BY <3>2, <3>3
  <2>2. ASSUME NEW i \in DOMAIN obj, TimerFires(i) PROVE Accounted(d, x)'
    <3>1. UNCHANGED <<pending, flushers, call, shown, dropped>>
      BY <2>2 DEF TimerFires
    <3>2. \A j \in 1..Len(obj) : obj'[j].parts = obj[j].parts
      BY <2>2, ObjType DEF TimerFires, Object
    <3>3. /\ \A k \in Keys : pending[k] # 0 => pending[k] \in 1..Len(obj)
          /\ \A f \in flushers : f.obj \in 1..Len(obj)
      BY ObjType DEF TypeOK
    <3> QED
      BY <2>0, <3>1, <3>2, <3>3 DEF Accounted, InHand
  <2>3. ASSUME NEW k \in Keys, flushPending(k) PROVE Accounted(d, x)'
    <3>1. UNCHANGED <<obj, call, shown, dropped>>
      BY <2>3 DEF flushPending
    <3>2. CASE pending[k] = 0
      BY <2>0, <2>3, <3>1, <3>2 DEF flushPending, Accounted, InHand
    <3>3. CASE pending[k] # 0
      <4> DEFINE f == [obj |-> pending[k], out |-> NIL]
      <4>1. pending' = [pending EXCEPT ![k] = 0] /\ flushers' = flushers \cup {f}
        BY <2>3, <3>3 DEF flushPending
      <4>2. f \in flushers' /\ f.out = NIL /\ f.obj = pending[k]
        BY <4>1
      <4> HIDE DEF f
      <4>3. CASE obj[pending[k]].parts[x] = d
        BY <3>1, <4>2, <4>3 DEF Accounted, InHand
      <4>4. CASE obj[pending[k]].parts[x] # d
        <5>1. \A l \in Keys : l # k => pending'[l] = pending[l]
          BY <4>1 DEF TypeOK
        <5> QED
          BY <2>0, <3>1, <4>1, <4>4, <5>1 DEF Accounted, InHand
      <4> QED
        BY <4>3, <4>4
    <3> QED
      BY <3>2, <3>3
  <2>4. ASSUME NEW f \in flushers, Format(f) PROVE Accounted(d, x)'
    <3> DEFINE a == [parts |-> obj[f.obj].parts, total |-> obj[f.obj].total, complete |-> FALSE]
               g == [f EXCEPT !.out = a]
    <3>1. /\ UNCHANGED <<obj, pending, call, shown, dropped>> /\ f.out = NIL
          /\ flushers' = (flushers \ {f}) \cup {g}
      BY <2>4 DEF Format
    <3>2. f \in [obj : 1..Len(obj), out : Assembled \cup {NIL}] /\ obj[f.obj] \in Object
      BY ObjType DEF TypeOK
    <3>3. a \in Assembled /\ a.parts = obj[f.obj].parts
      BY <3>2, ObjectFields DEF Assembled
    <3>4. g.out = a /\ g \in flushers'
      BY <3>1, <3>2
    <3>5. a # NIL
      BY <3>3, AssemblerAssumption
    <3> HIDE DEF a, g
    <3>6. CASE obj[f.obj].parts[x] = d
      BY <3>3, <3>4, <3>5, <3>6 DEF Accounted, InHand
    <3>7. CASE obj[f.obj].parts[x] # d
      BY <2>0, <3>1, <3>7 DEF Accounted, InHand
    <3> QED
      BY <3>6, <3>7
  <2>5. ASSUME NEW f \in flushers, onFlush(f) PROVE Accounted(d, x)'
    <3>1. /\ shown' = shown \cup Texts(f.out.parts) /\ flushers' = flushers \ {f} /\ f.out # NIL
          /\ UNCHANGED <<obj, pending, call, dropped>>
      BY <2>5 DEF onFlush
    <3>2. CASE f.out.parts[x] = d
      BY <1>1, <3>1, <3>2, TextsOf DEF Accounted
    <3>3. CASE f.out.parts[x] # d
      BY <2>0, <3>1, <3>3 DEF Accounted, InHand
    <3> QED
      BY <3>2, <3>3
  <2>6. CASE UNCHANGED <<obj, pending, flushers, call, shown, dropped>>
    BY <2>0, <2>6 DEF Accounted, InHand
  <2>7. ASSUME NEW k \in Keys, Ages(k) PROVE Accounted(d, x)'
    BY <2>6, <2>7 DEF Ages
  <2>8. CASE UNCHANGED vars
    BY <2>6, <2>8 DEF vars
  <2> QED
    BY <1>3, <1>4, <2>1, <2>2, <2>3, <2>4, <2>5, <2>7, <2>8 DEF Next, Runs
<1>6. (\E c \in Callers, m \in sent : AddSingle(c, m)) \/
      (\E c \in Callers, m \in sent, n \in AnyNumber : AddPart(c, m, n)) \/ UNCHANGED copies
  BY DEF Next, Runs, Receive, TimerFires, flushPending, Format, onFlush, Ages, vars
<1> QED
  BY <1>3, <1>4, <1>5, <1>6

(* A part AddPart took is published, dropped by the TTL, or in the hands   *)
(* of an entry, a flush or a caller that publishes it: no order of parts,  *)
(* timers, flushes and expiries loses it (assembler.go).                   *)
THEOREM PartsNeverLost == Spec => []NothingLost
<1>1. Init => NothingLost
  <2> SUFFICES ASSUME Init PROVE NothingLost
    OBVIOUS
  <2>1. \A d \in sent, x \in Numbers : copies[d][x] = 0
    BY AssemblerTypeInit DEF Init, TypeOK
  <2> QED
    BY <2>1 DEF NothingLost
<1> QED
  BY <1>1, LostNext, EntriesInvariant, PTL DEF Spec

=============================================================================
