--------------------------- MODULE ATEngineProofs ---------------------------
(***************************************************************************)
(* Proofs about ATEngine, for every set of calls, every capacity of the    *)
(* URC channel and every set of unsolicited lines.                         *)
(***************************************************************************)
EXTENDS ATEngine, SequenceTheorems, TLAPS

USE DEF engineVars, modemVars, history, readerVars

(* The URC channel keeps its type and its capacity.                        *)
LEMMA DispatchType ==
  ASSUME urcChan \in Seq(Lines), Len(urcChan) <= UrcCap,
         NEW l \in Lines, dispatchURC(l)
  PROVE  urcChan' \in Seq(Lines) /\ Len(urcChan') <= UrcCap
BY ConstantsAssumption DEF dispatchURC

(* A Response stays a Response.                                            *)
LEMMA ResponseType ==
  ASSUME NEW r \in Response, NEW l \in Lines
  PROVE  WithLine(r, l) \in Response /\ WithOK(r) \in Response /\ WithError(r) \in Response
BY DEF WithLine, WithOK, WithError, Response

(* A final line, and any other line of an answer.                          *)
LEMMA DeliverType ==
  ASSUME inFlight \in Calls, currentResp \in Calls \cup {NIL},
         resp \in [Calls -> Response], respChan \in [Calls -> BOOLEAN],
         final \in [Calls -> Lines \cup {NIL}],
         NEW l \in Lines, Deliver(l)
  PROVE  /\ inFlight' \in Calls \cup {NIL}
         /\ reader' \in {"panicked", "blocked", reader}
         /\ resp' \in [Calls -> Response]
         /\ respChan' \in [Calls -> BOOLEAN]
         /\ final' \in [Calls -> Lines \cup {NIL}]
         /\ UNCHANGED urcChan
<1>1. \A r \in Response : /\ WithOK(r) \in Response
                         /\ WithError(WithLine(r, l)) \in Response
  BY ResponseType
<1>2. resp' \in [Calls -> Response]
  BY <1>1 DEF Deliver
<1>3. respChan' \in [Calls -> BOOLEAN]
  BY DEF Deliver
<1>4. final' \in [Calls -> Lines \cup {NIL}]
  BY DEF Deliver
<1> QED
  BY <1>2, <1>3, <1>4 DEF Deliver

LEMMA CollectType ==
  ASSUME currentResp \in Calls \cup {NIL}, resp \in [Calls -> Response],
         NEW l \in Lines, Collect(l)
  PROVE  /\ reader' \in {"panicked", reader}
         /\ resp' \in [Calls -> Response]
         /\ UNCHANGED <<urcChan, respChan, inFlight, final>>
<1>1. \A r \in Response : WithLine(r, l) \in Response
  BY ResponseType
<1> QED
  BY <1>1 DEF Collect

(* What processLine does to a well-typed engine.                           *)
LEMMA ProcessLineType ==
  ASSUME TypeOK, NEW l \in Lines, processLine(l)
  PROVE  /\ inFlight' \in Calls \cup {NIL}
         /\ urcChan' \in Seq(Lines) /\ Len(urcChan') <= UrcCap
         /\ reader' \in {"running", "stopped", "blocked", "panicked"}
         /\ resp' \in [Calls -> Response]
         /\ respChan' \in [Calls -> BOOLEAN]
         /\ final' \in [Calls -> Lines \cup {NIL}]
<1>1. CASE ToURC(l)
  <2>1. urcChan' \in Seq(Lines) /\ Len(urcChan') <= UrcCap
    BY <1>1, DispatchType DEF TypeOK, ToURC
  <2> QED
    BY <1>1, <2>1 DEF TypeOK, ToURC
<1>2. CASE inFlight # NIL /\ Deliver(l)
  BY <1>2, DeliverType DEF TypeOK
<1>3. CASE Collect(l)
  BY <1>3, CollectType DEF TypeOK
<1>4. CASE UNCHANGED <<urcChan, reader, resp, respChan, inFlight, final>>
  BY <1>4 DEF TypeOK
<1> QED
  BY <1>1, <1>2, <1>3, <1>4 DEF processLine

LEMMA LineTypes ==
  /\ \A c \in Calls : TypeOK => \A k \in AnswerKinds(c) : [k |-> k, of |-> c] \in Lines
  /\ \A k \in Unsolicited : [k |-> k, of |-> NIL] \in Lines
  /\ [k |-> "TEXT", of |-> NIL] \in Lines
BY ConstantsAssumption DEF AnswerKinds, Lines, Kinds, TypeOK, Cmds

LEMMA SignalPromptType ==
  ASSUME TypeOK, SignalPrompt
  PROVE  promptBuf' \in [Calls -> BOOLEAN]
BY DEF TypeOK, SignalPrompt

LEMMA TypeInit == Init => TypeOK
<1> SUFFICES ASSUME Init PROVE TypeOK
  OBVIOUS
<1>1. EmptyResponse \in Response
  BY DEF EmptyResponse, Response
<1>2. urcChan \in Seq(Lines) /\ Len(urcChan) <= UrcCap /\ owed \in Seq(Calls)
  <2>1. urcChan = <<>> /\ owed = <<>>
    BY DEF Init
  <2> QED
    BY <2>1, ConstantsAssumption
<1>3. /\ respChan \in [Calls -> BOOLEAN] /\ promptBuf \in [Calls -> BOOLEAN]
      /\ clean \in [Calls -> BOOLEAN] /\ prompted \in [Calls -> BOOLEAN]
  BY DEF Init
<1>4. /\ cmdMu = NIL /\ inFlight = NIL /\ currentResp = NIL /\ promptChan = NIL
      /\ activeCmd = "" /\ reader = "running"
      /\ cmd \in [Calls -> Cmds]
  BY DEF Init
<1>5. /\ pc \in [Calls -> PCs]
      /\ out \in [Calls -> {"none", "resp", "err"}]
      /\ mst \in [Calls -> {"none", "got", "prompted", "body", "escaped"}]
      /\ final \in [Calls -> Lines \cup {NIL}]
  BY DEF Init, PCs
<1>6. resp \in [Calls -> Response]
  BY <1>1 DEF Init
<1> QED
  BY <1>2, <1>3, <1>4, <1>5, <1>6 DEF TypeOK

LEMMA ReturnType ==
  ASSUME TypeOK, NEW c \in Calls, NEW o \in {"resp", "err"}, Return(c, o)
  PROVE  /\ cmdMu' \in Calls \cup {NIL} /\ inFlight' \in Calls \cup {NIL}
         /\ currentResp' \in Calls \cup {NIL} /\ promptChan' \in Calls \cup {NIL}
         /\ activeCmd' \in Cmds \cup {""}
         /\ pc' \in [Calls -> PCs]
         /\ out' \in [Calls -> {"none", "resp", "err"}]
         /\ UNCHANGED <<urcChan, reader, cmd, resp, promptBuf, clean, final, prompted>>
BY DEF TypeOK, Return, clearInFlight, PCs

LEMMA TypeNext == TypeOK /\ [Next]_vars => TypeOK'
<1> SUFFICES ASSUME TypeOK, [Next]_vars PROVE TypeOK'
  OBVIOUS
<1>1. ASSUME NEW c \in Calls, Call(c) PROVE TypeOK'
  BY <1>1 DEF Call, TypeOK, PCs
<1>2. ASSUME NEW c \in Calls, DeadlineExceeded(c) PROVE TypeOK'
  BY <1>2 DEF DeadlineExceeded, TypeOK, PCs
<1>3. ASSUME NEW c \in Calls, Register(c) PROVE TypeOK'
  BY <1>3 DEF Register, TypeOK, PCs
<1>4. ASSUME NEW c \in Calls, Write(c) PROVE TypeOK'
  <2>1. owed \in Seq(Calls) /\ owed' = Append(owed, c)
    BY <1>4 DEF Write, TypeOK
  <2>2. owed' \in Seq(Calls)
    BY <2>1
  <2> QED
    BY <1>4, <2>2 DEF Write, TypeOK, PCs
<1>5. ASSUME NEW c \in Calls, WriteFails(c) PROVE TypeOK'
  BY <1>5, ReturnType DEF WriteFails, TypeOK
<1>6. ASSUME NEW c \in Calls, TakeResponse(c) PROVE TypeOK'
  BY <1>6, ReturnType DEF TakeResponse, TypeOK
<1>7. ASSUME NEW c \in Calls, Timeout(c) PROVE TypeOK'
  BY <1>7, ReturnType DEF Timeout, TypeOK
<1>8. ASSUME NEW c \in Calls, AbortPDU(c) PROVE TypeOK'
  BY <1>8, ReturnType DEF AbortPDU, Escape, TypeOK
<1>9. ASSUME NEW c \in Calls, TakePrompt(c) PROVE TypeOK'
  BY <1>9 DEF TakePrompt, TypeOK, PCs
<1>10. ASSUME NEW c \in Calls, WritePayload(c) PROVE TypeOK'
  BY <1>10 DEF WritePayload, TypeOK, PCs
<1>11. CASE ModemAnswers
  <2>1. Head(owed) \in Calls /\ Tail(owed) \in Seq(Calls)
    BY <1>11, HeadTailProperties DEF ModemAnswers, TypeOK
  <2>2. PICK k \in AnswerKinds(Head(owed)) :
           /\ processLine([k |-> k, of |-> Head(owed)])
           /\ owed' \in {owed, Tail(owed)}
    BY <1>11 DEF ModemAnswers
  <2> QED
    BY <1>11, <2>1, <2>2, LineTypes, ProcessLineType DEF ModemAnswers, TypeOK
<1>17. CASE ModemForgets
  BY <1>17, HeadTailProperties DEF ModemForgets, TypeOK
<1>12. CASE ModemPrompts
  BY <1>12, SignalPromptType DEF ModemPrompts, TypeOK
<1>13. CASE ReaderStops
  BY <1>13 DEF ReaderStops, TypeOK
<1>14. CASE ConsumeURC
  <2>1. urcChan' \in Seq(Lines) /\ Len(urcChan') = Len(urcChan) - 1
    BY <1>14, HeadTailProperties DEF ConsumeURC, TypeOK
  <2>0. urcChan \in Seq(Lines) /\ Len(urcChan) <= UrcCap
    BY DEF TypeOK
  <2>2. Len(urcChan) \in Nat /\ Len(urcChan) <= UrcCap
    BY <2>0
  <2>3. Len(urcChan') <= UrcCap
    BY <2>1, <2>2, ConstantsAssumption
  <2> QED
    BY <1>14, <2>1, <2>3 DEF ConsumeURC, TypeOK
<1>15. ASSUME NEW k \in Unsolicited, UnsolicitedLine(k) PROVE TypeOK'
  BY <1>15, LineTypes, ProcessLineType, SignalPromptType DEF UnsolicitedLine, TypeOK
<1>16. CASE UNCHANGED vars
  BY <1>16 DEF vars, TypeOK
<1> QED
  BY <1>1, <1>2, <1>3, <1>4, <1>5, <1>6, <1>7, <1>8, <1>9, <1>10, <1>11, <1>12,
     <1>13, <1>14, <1>15, <1>16, <1>17 DEF Next, CallStep

(* The engine's fields, its channels and the URC buffer keep their types;  *)
(* in particular urcChan never holds more lines than its capacity.         *)
THEOREM TypeCorrect == Spec => []TypeOK
BY TypeInit, TypeNext, PTL DEF Spec

-----------------------------------------------------------------------------
(***************************************************************************)
(* LineInv is inductive: the engine's own bookkeeping.                     *)
(***************************************************************************)

LEMMA LineInit == Init => LineInv
<1> SUFFICES ASSUME Init PROVE LineInv
  OBVIOUS
<1>1. \A c \in Calls : pc[c] \in Active <=> cmdMu = c
  BY ConstantsAssumption DEF Init, Active
<1>2. inFlight = NIL /\ promptChan = NIL /\ reader = "running"
  BY DEF Init
<1>3. \A c \in Calls : ~respChan[c] /\ ~promptBuf[c]
  BY DEF Init
<1>4. \A c \in Calls : resp[c] = EmptyResponse
  BY DEF Init
<1> QED
  BY <1>1, <1>2, <1>3, <1>4 DEF LineInv, ReaderNeverBlocks

(* processLine on an engine whose fields agree: it never blocks or panics, *)
(* and only touches the Response and the channel of the call in flight.    *)
LEMMA ProcessLineEffect ==
  ASSUME TypeOK, LineInv, NEW l \in Lines, processLine(l)
  PROVE  /\ UNCHANGED reader
         /\ inFlight' \in {inFlight, NIL}
         /\ \A c \in Calls : c # inFlight =>
              resp'[c] = resp[c] /\ respChan'[c] = respChan[c] /\ final'[c] = final[c]
         /\ inFlight # NIL /\ inFlight' # NIL =>
              /\ respChan'[inFlight] = respChan[inFlight]
              /\ resp'[inFlight].OK = resp[inFlight].OK
         /\ inFlight # NIL =>
              /\ resp'[inFlight].Lines \subseteq resp[inFlight].Lines \cup {l}
              /\ resp'[inFlight].OK => l.k = "OK" /\ final'[inFlight] = l
<1>1. CASE UNCHANGED <<reader, resp, respChan, inFlight, final>>
  BY <1>1 DEF LineInv
<1>2. CASE inFlight # NIL /\ Deliver(l)
  <2>1. /\ inFlight \in Calls /\ currentResp = inFlight /\ ~respChan[inFlight]
        /\ currentResp # NIL /\ ~resp[inFlight].OK /\ resp[inFlight] \in Response
    BY <1>2 DEF TypeOK, LineInv
  <2>2. /\ resp' = [resp EXCEPT ![inFlight] =
                      IF l.k = "OK" THEN WithOK(@) ELSE WithError(WithLine(@, l))]
        /\ respChan' = [respChan EXCEPT ![inFlight] = TRUE]
        /\ final' = [final EXCEPT ![inFlight] = l]
        /\ inFlight' = NIL
        /\ UNCHANGED reader
    BY <1>2, <2>1 DEF Deliver
  <2>3. /\ resp'[inFlight].Lines \subseteq resp[inFlight].Lines \cup {l}
        /\ resp'[inFlight].OK => l.k = "OK"
    BY <2>1, <2>2 DEF WithOK, WithLine, WithError, Response, TypeOK
  <2> QED
    BY <2>1, <2>2, <2>3 DEF TypeOK
<1>3. CASE inFlight # NIL /\ Collect(l)
  <2>1. /\ inFlight \in Calls /\ currentResp = inFlight
        /\ currentResp # NIL /\ ~resp[inFlight].OK /\ resp[inFlight] \in Response
    BY <1>3 DEF TypeOK, LineInv
  <2>2. /\ resp' = [resp EXCEPT ![inFlight] = WithLine(@, l)]
        /\ UNCHANGED <<reader, respChan, inFlight, final>>
    BY <1>3, <2>1 DEF Collect
  <2>3. /\ resp'[inFlight].Lines \subseteq resp[inFlight].Lines \cup {l}
        /\ resp'[inFlight].OK = resp[inFlight].OK
    BY <2>1, <2>2 DEF WithLine, Response, TypeOK
  <2> QED
    BY <2>1, <2>2, <2>3 DEF TypeOK
<1> QED
  BY <1>1, <1>2, <1>3 DEF processLine, ToURC

(* The part of LineInv that a line can disturb.                            *)
LEMMA ProcessLineKeepsLine ==
  ASSUME TypeOK, LineInv, NEW l \in Lines, processLine(l),
         UNCHANGED <<cmdMu, currentResp, promptChan, pc, cmd>>,
         \A c \in Calls : promptBuf'[c] = promptBuf[c] \/ c = promptChan
  PROVE  LineInv'
<1>1. \A c \in Calls : pc[c] \in {"idle", "lock"} => c # inFlight /\ c # promptChan
  BY ConstantsAssumption DEF LineInv, Active
<1>2. \A c \in Calls : pc'[c] \in {"idle", "lock"} =>
         ~respChan'[c] /\ ~promptBuf'[c] /\ resp'[c] = EmptyResponse
  <2> SUFFICES ASSUME NEW c \in Calls, pc'[c] \in {"idle", "lock"}
               PROVE  ~respChan'[c] /\ ~promptBuf'[c] /\ resp'[c] = EmptyResponse
    OBVIOUS
  <2>1. pc[c] \in {"idle", "lock"} /\ c # inFlight /\ c # promptChan
    BY <1>1
  <2>2. ~respChan[c] /\ ~promptBuf[c] /\ resp[c] = EmptyResponse
    BY <2>1 DEF LineInv
  <2>3. resp'[c] = resp[c] /\ respChan'[c] = respChan[c] /\ promptBuf'[c] = promptBuf[c]
    BY <2>1, ProcessLineEffect
  <2> QED
    BY <2>2, <2>3
<1>3. inFlight' # NIL => inFlight' = inFlight /\ inFlight # NIL
  BY ProcessLineEffect
<1>4. inFlight' # NIL => ~respChan'[inFlight'] /\ ~(resp'[inFlight']).OK
  <2>1. ASSUME inFlight' # NIL PROVE ~respChan'[inFlight] /\ ~(resp'[inFlight]).OK
    <3>1. /\ respChan'[inFlight] = respChan[inFlight]
          /\ resp'[inFlight].OK = resp[inFlight].OK
      BY <1>3, <2>1, ProcessLineEffect
    <3> QED
      BY <1>3, <2>1, <3>1 DEF LineInv
  <2> QED
    BY <1>3, <2>1
<1>5. inFlight' # NIL => inFlight' = cmdMu' /\ currentResp' = inFlight'
  BY <1>3 DEF LineInv
<1> QED
  BY <1>2, <1>4, <1>5, ProcessLineEffect DEF LineInv, ReaderNeverBlocks

LEMMA ReturnKeepsLine ==
  ASSUME TypeOK, LineInv, NEW c \in Calls, NEW o \in {"resp", "err"},
         pc[c] \in Active, Return(c, o),
         \A d \in Calls : d # c => respChan'[d] = respChan[d],
         o = "resp" => respChan[c]
  PROVE  LineInv'
<1>1. cmdMu = c /\ cmdMu' = NIL
  BY DEF LineInv, Return
<1>2. inFlight' = NIL
  BY <1>1 DEF Return, clearInFlight, LineInv, TypeOK
<1>3. promptChan' \in {promptChan, NIL}
  BY DEF Return, clearInFlight
<1>4. promptChan' = NIL
  BY <1>1, <1>3 DEF Return, clearInFlight, LineInv
<1> QED
  <2>1. \A d \in Calls : pc'[d] \in Active <=> cmdMu' = d
    <3>1. \A d \in Calls : d # c => pc'[d] = pc[d]
      BY DEF Return, TypeOK
    <3>2. pc'[c] = "done"
      BY DEF Return, TypeOK
    <3>3. \A d \in Calls : cmdMu' # d
      BY <1>1, ConstantsAssumption
    <3>4. \A d \in Calls : d # c => pc[d] \notin Active
      BY <1>1 DEF LineInv
    <3>5. "done" \notin Active
      BY DEF Active
    <3> QED
      BY <3>1, <3>2, <3>3, <3>4, <3>5
  <2>2. \A d \in Calls : pc'[d] \in {"idle", "lock"} => d # c /\ pc'[d] = pc[d]
    BY DEF Return, TypeOK
  <2>3. UNCHANGED <<reader, resp, promptBuf>>
    BY DEF Return
  <2>4. \A d \in Calls : pc'[d] \in {"idle", "lock"} =>
           ~respChan'[d] /\ ~promptBuf'[d] /\ resp'[d] = EmptyResponse
    BY <2>2, <2>3 DEF LineInv
  <2> QED
    BY <1>2, <1>4, <2>1, <2>3, <2>4 DEF LineInv, ReaderNeverBlocks


LEMMA LineNext == TypeOK /\ LineInv /\ [Next]_vars => LineInv'
<1> SUFFICES ASSUME TypeOK, LineInv, [Next]_vars PROVE LineInv'
  OBVIOUS
<1> USE DEF Active, ReaderNeverBlocks
<1>1. ASSUME NEW c \in Calls, Call(c) PROVE LineInv'
  BY <1>1 DEF Call, LineInv, TypeOK
<1>2. ASSUME NEW c \in Calls, DeadlineExceeded(c) PROVE LineInv'
  BY <1>2 DEF DeadlineExceeded, LineInv, TypeOK
<1>3. ASSUME NEW c \in Calls, Register(c) PROVE LineInv'
  <2>1. /\ pc' = [pc EXCEPT ![c] = "registered"] /\ cmdMu' = c /\ cmdMu = NIL
        /\ inFlight' = c /\ currentResp' = c /\ pc[c] = "lock"
        /\ UNCHANGED <<reader, cmd, resp, respChan, promptBuf>>
    BY <1>3 DEF Register
  <2>2. \A d \in Calls : pc'[d] \in Active <=> cmdMu' = d
    BY <2>1, ConstantsAssumption DEF LineInv, TypeOK
  <2>3. ~respChan'[c] /\ ~resp'[c].OK
    BY <2>1 DEF LineInv, EmptyResponse
  <2>4. promptChan' # NIL => promptChan' = c /\ cmd[c] = "pdu"
    BY <1>3 DEF Register, LineInv
  <2>5. \A d \in Calls : pc'[d] \in {"idle", "lock"} => pc[d] \in {"idle", "lock"}
    BY <2>1 DEF TypeOK
  <2> QED
    BY <2>1, <2>2, <2>3, <2>4, <2>5 DEF LineInv
<1>4. ASSUME NEW c \in Calls, Write(c) PROVE LineInv'
  BY <1>4 DEF Write, LineInv, TypeOK
<1>5. ASSUME NEW c \in Calls, WriteFails(c) PROVE LineInv'
  BY <1>5, ReturnKeepsLine DEF WriteFails
<1>6. ASSUME NEW c \in Calls, TakeResponse(c) PROVE LineInv'
  BY <1>6, ReturnKeepsLine DEF TakeResponse, TypeOK
<1>7. ASSUME NEW c \in Calls, Timeout(c) PROVE LineInv'
  BY <1>7, ReturnKeepsLine DEF Timeout
<1>8. ASSUME NEW c \in Calls, AbortPDU(c) PROVE LineInv'
  BY <1>8, ReturnKeepsLine DEF AbortPDU
<1>9. ASSUME NEW c \in Calls, TakePrompt(c) PROVE LineInv'
  BY <1>9 DEF TakePrompt, LineInv, TypeOK
<1>10. ASSUME NEW c \in Calls, WritePayload(c) PROVE LineInv'
  BY <1>10 DEF WritePayload, LineInv, TypeOK
<1>11. CASE ModemAnswers
  <2>1. Head(owed) \in Calls
    BY <1>11, HeadTailProperties DEF ModemAnswers, TypeOK
  <2>2. PICK k \in AnswerKinds(Head(owed)) : processLine([k |-> k, of |-> Head(owed)])
    BY <1>11 DEF ModemAnswers
  <2> QED
    BY <1>11, <2>1, <2>2, LineTypes, ProcessLineKeepsLine DEF ModemAnswers
<1>12. CASE ModemForgets
  BY <1>12 DEF ModemForgets, LineInv
<1>13. CASE ModemPrompts
  <2>1. /\ UNCHANGED <<cmdMu, inFlight, currentResp, promptChan, pc, cmd, resp, respChan, reader>>
        /\ \A c \in Calls : promptBuf'[c] => promptBuf[c] \/ c = promptChan
    BY <1>13 DEF ModemPrompts, SignalPrompt, TypeOK
  <2>2. \A c \in Calls : pc[c] \in {"idle", "lock"} => ~promptBuf'[c]
    BY <2>1, ConstantsAssumption DEF LineInv
  <2> QED
    BY <2>1, <2>2 DEF LineInv
<1>14. CASE ReaderStops
  BY <1>14 DEF ReaderStops, LineInv
<1>15. CASE ConsumeURC
  BY <1>15 DEF ConsumeURC, LineInv
<1>16. ASSUME NEW k \in Unsolicited, UnsolicitedLine(k) PROVE LineInv'
  <2>1. \A c \in Calls : promptBuf'[c] = promptBuf[c] \/ c = promptChan
    BY <1>16 DEF UnsolicitedLine, SignalPrompt, TypeOK
  <2> QED
    BY <1>16, <2>1, LineTypes, ProcessLineKeepsLine DEF UnsolicitedLine
<1>17. CASE UNCHANGED vars
  BY <1>17 DEF vars, LineInv
<1> QED
  BY <1>1, <1>2, <1>3, <1>4, <1>5, <1>6, <1>7, <1>8, <1>9, <1>10, <1>11, <1>12,
     <1>13, <1>14, <1>15, <1>16, <1>17 DEF Next, CallStep


LEMMA LineInvariant == Spec => []LineInv
BY TypeInit, TypeNext, LineInit, LineNext, PTL DEF Spec

(* The reader never blocks on the channel in flight and never follows a    *)
(* nil Response, so respMu is always released (engine.go processLine).     *)
THEOREM ReaderSafe == Spec => []ReaderNeverBlocks
BY LineInvariant, PTL DEF LineInv

(* A step leaves every Response alone that was handed over or whose call   *)
(* has returned.                                                           *)
LEMMA ResponseFrozenStep ==
  TypeOK /\ LineInv /\ [Next]_vars =>
    [\A c \in Calls : respChan[c] \/ pc[c] = "done" => resp'[c] = resp[c]]_vars
<1> SUFFICES ASSUME TypeOK, LineInv, Next, NEW c \in Calls, respChan[c] \/ pc[c] = "done"
             PROVE  resp'[c] = resp[c]
  OBVIOUS
<1>1. c # inFlight
  BY ConstantsAssumption DEF LineInv, Active
<1>2. ASSUME NEW l \in Lines, processLine(l) PROVE resp'[c] = resp[c]
  BY <1>1, <1>2, ProcessLineEffect
<1>3. CASE ModemAnswers
  <2>1. Head(owed) \in Calls
    BY <1>3, HeadTailProperties DEF ModemAnswers, TypeOK
  <2>2. PICK k \in AnswerKinds(Head(owed)) : processLine([k |-> k, of |-> Head(owed)])
    BY <1>3 DEF ModemAnswers
  <2> QED
    BY <1>2, <2>1, <2>2, LineTypes
<1>4. ASSUME NEW k \in Unsolicited, UnsolicitedLine(k) PROVE resp'[c] = resp[c]
  BY <1>2, <1>4, LineTypes DEF UnsolicitedLine
<1>5. CASE \E d \in Calls : Call(d) \/ DeadlineExceeded(d) \/ CallStep(d)
  BY <1>5 DEF Call, DeadlineExceeded, CallStep, Register, Write, WriteFails, TakeResponse,
              Timeout, AbortPDU, TakePrompt, WritePayload, Return
<1>6. CASE ModemForgets \/ ModemPrompts \/ ReaderStops \/ ConsumeURC
  BY <1>6 DEF ModemForgets, ModemPrompts, ReaderStops, ConsumeURC
<1> QED
  BY <1>3, <1>4, <1>5, <1>6 DEF Next

(* The Response a caller holds is never written to again by the reader.    *)
THEOREM FrozenResponses == Spec => ResponseFrozen
BY TypeCorrect, LineInvariant, ResponseFrozenStep, PTL DEF Spec, ResponseFrozen


-----------------------------------------------------------------------------
(***************************************************************************)
(* CleanInv is inductive: on a clean line cmdMu is enough to give every    *)
(* answer to the right call.                                               *)
(***************************************************************************)

(* Its two halves: what the modem owes, and what the call has collected.   *)
OwedInv(c) == /\ pc[c] \in Active => \A i \in 1..Len(owed) : owed[i] = c
              /\ pc[c] = "registered" => owed = <<>>
OwnInv(c) == /\ \A l \in resp[c].Lines : l.of \in {c, NIL}
             /\ resp[c].OK => final[c].of = c

LEMMA CleanInit == Init => CleanInv
BY DEF Init, CleanInv

(* Answering or forgetting a command shortens owed.                        *)
LEMMA OwedShrinks ==
  ASSUME TypeOK, NEW c \in Calls, OwedInv(c), owed' \in {owed, Tail(owed)},
         owed # <<>>, UNCHANGED pc
  PROVE  OwedInv(c)'
<1>1. owed \in Seq(Calls) /\ Tail(owed) \in Seq(Calls)
      /\ Len(Tail(owed)) = Len(owed) - 1
      /\ \A i \in 1..Len(Tail(owed)) : Tail(owed)[i] = owed[i + 1]
  BY HeadTailProperties DEF TypeOK
<1>2. \A i \in 1..Len(Tail(owed)) : i + 1 \in 1..Len(owed)
  BY <1>1
<1>3. pc[c] # "registered"
  BY DEF OwedInv
<1> QED
  BY <1>1, <1>2, <1>3 DEF OwedInv

(* A line that can only be c's own, or unsolicited, keeps OwnInv(c).       *)
LEMMA OwnLine ==
  ASSUME TypeOK, LineInv, NEW c \in Calls, OwnInv(c), NEW l \in Lines, processLine(l),
         c = inFlight => l.of \in {c, NIL} /\ (l.k = "OK" => l.of = c)
  PROVE  OwnInv(c)'
<1>1. CASE c # inFlight
  BY <1>1, ProcessLineEffect DEF OwnInv
<1>2. CASE c = inFlight
  <2>1. inFlight # NIL
    BY <1>2, ConstantsAssumption
  <2>2. /\ resp'[c].Lines \subseteq resp[c].Lines \cup {l}
        /\ resp'[c].OK => l.k = "OK" /\ final'[c] = l
    BY <1>2, <2>1, ProcessLineEffect
  <2> QED
    BY <1>2, <2>2 DEF OwnInv
<1> QED
  BY <1>1, <1>2

LEMMA CleanNext == TypeOK /\ LineInv /\ CleanInv /\ [Next]_vars => CleanInv'
<1> SUFFICES ASSUME TypeOK, LineInv, CleanInv, [Next]_vars,
                    NEW c \in Calls, clean'[c]
             PROVE  OwedInv(c)' /\ OwnInv(c)'
  BY DEF CleanInv, OwedInv, OwnInv
<1>0. clean[c] => OwedInv(c) /\ OwnInv(c)
  BY DEF CleanInv, OwedInv, OwnInv
<1>1. ASSUME NEW d \in Calls, Call(d) PROVE OwedInv(c)' /\ OwnInv(c)'
  BY <1>0, <1>1 DEF Call, OwedInv, OwnInv, TypeOK, Active
<1>2. ASSUME NEW d \in Calls, DeadlineExceeded(d) PROVE OwedInv(c)' /\ OwnInv(c)'
  BY <1>0, <1>2 DEF DeadlineExceeded, OwedInv, OwnInv, TypeOK, Active
<1>3. ASSUME NEW d \in Calls, Register(d) PROVE OwedInv(c)' /\ OwnInv(c)'
  <2>1. CASE c = d
    <3>1. owed = <<>> /\ owed' = <<>> /\ resp'[c] = EmptyResponse
      BY <1>3, <2>1 DEF Register, TypeOK, LineInv
    <3> QED
      BY <3>1 DEF OwedInv, OwnInv, EmptyResponse
  <2>2. CASE c # d
    BY <1>0, <1>3, <2>2 DEF Register, OwedInv, OwnInv, TypeOK
  <2> QED
    BY <2>1, <2>2
<1>4. ASSUME NEW d \in Calls, Write(d) PROVE OwedInv(c)' /\ OwnInv(c)'
  <2>1. OwnInv(c)'
    BY <1>0, <1>4 DEF Write, OwnInv
  <2>2. CASE c = d
    <3>1. owed = <<>> /\ owed' = Append(owed, c) /\ pc'[c] # "registered"
      BY <1>0, <1>4, <2>2 DEF Write, OwedInv, TypeOK
    <3>2. owed' = <<c>>
      BY <3>1
    <3> QED
      BY <2>1, <3>1, <3>2 DEF OwedInv
  <2>3. CASE c # d
    <3>1. pc[d] \in Active
      BY <1>4 DEF Write, Active
    <3>2. pc[c] \notin Active
      BY <2>3, <3>1 DEF LineInv
    <3>3. pc \in [Calls -> PCs]
      BY DEF TypeOK
    <3>4. pc'[c] = pc[c]
      BY <1>4, <2>3, <3>3 DEF Write
    <3> QED
      BY <2>1, <3>2, <3>4 DEF OwedInv, Active
  <2> QED
    BY <2>2, <2>3
<1>5. ASSUME NEW d \in Calls, WriteFails(d) \/ TakeResponse(d) \/ Timeout(d) \/ AbortPDU(d)
      PROVE  OwedInv(c)' /\ OwnInv(c)'
  <2>1. /\ pc' = [pc EXCEPT ![d] = "done"]
        /\ UNCHANGED <<owed, resp, final, clean>>
    BY <1>5 DEF WriteFails, TakeResponse, Timeout, AbortPDU, Escape, Return
  <2> QED
    BY <1>0, <2>1 DEF OwedInv, OwnInv, TypeOK, Active
<1>6. ASSUME NEW d \in Calls, TakePrompt(d) \/ WritePayload(d) PROVE OwedInv(c)' /\ OwnInv(c)'
  <2>1. /\ pc[d] \in Active
        /\ \E x \in {"delay", "final"} : pc' = [pc EXCEPT ![d] = x]
        /\ UNCHANGED <<owed, resp, final, clean>>
    BY <1>6 DEF TakePrompt, WritePayload, Active
  <2>2. pc'[c] \in Active => pc[c] \in Active
    BY <2>1 DEF TypeOK
  <2>3. pc'[c] = "registered" => pc[c] = "registered"
    BY <2>1 DEF TypeOK
  <2>4. OwnInv(c)'
    BY <1>0, <2>1 DEF OwnInv
  <2> QED
    BY <1>0, <2>1, <2>2, <2>3, <2>4 DEF OwedInv
<1>7. CASE ModemAnswers
  <2>1. /\ owed \in Seq(Calls) /\ owed # <<>> /\ owed' \in {owed, Tail(owed)}
        /\ UNCHANGED <<pc, clean>>
    BY <1>7 DEF ModemAnswers, TypeOK
  <2>2. Head(owed) \in Calls /\ Head(owed) = owed[1] /\ 1 \in 1..Len(owed)
    BY <2>1
  <2>3. PICK k \in AnswerKinds(Head(owed)) : processLine([k |-> k, of |-> Head(owed)])
    BY <1>7 DEF ModemAnswers
  <2>4. c = inFlight => Head(owed) = c
    BY <1>0, <2>1, <2>2, ConstantsAssumption DEF OwedInv, LineInv
  <2>5. OwnInv(c)'
    BY <1>0, <2>1, <2>2, <2>3, <2>4, LineTypes, OwnLine
  <2> QED
    BY <1>0, <2>1, <2>5, OwedShrinks
<1>8. CASE ModemForgets
  <2>1. owed # <<>> /\ owed' = Tail(owed) /\ UNCHANGED <<pc, clean, resp, final>>
    BY <1>8 DEF ModemForgets
  <2>2. OwnInv(c)'
    BY <1>0, <2>1 DEF OwnInv
  <2> QED
    BY <1>0, <2>1, <2>2, OwedShrinks
<1>9. CASE ModemPrompts \/ ReaderStops \/ ConsumeURC \/ UNCHANGED vars
  BY <1>0, <1>9 DEF ModemPrompts, ReaderStops, ConsumeURC, vars, OwedInv, OwnInv
<1>10. ASSUME NEW k \in Unsolicited, UnsolicitedLine(k) PROVE OwedInv(c)' /\ OwnInv(c)'
  <2>1. \E l \in Lines : l.of = NIL /\ l.k # "OK" /\ processLine(l)
    <3>1. CASE k = "GT"
      BY <1>10, <3>1, LineTypes DEF UnsolicitedLine
    <3>2. CASE k # "GT"
      <4>1. processLine([k |-> k, of |-> NIL]) /\ k # "OK"
        BY <1>10, <3>2, ConstantsAssumption DEF UnsolicitedLine
      <4> QED
        BY <1>10, <4>1, LineTypes
    <3> QED
      BY <3>1, <3>2
  <2>2. UNCHANGED <<pc, clean, owed>>
    BY <1>10 DEF UnsolicitedLine
  <2> QED
    BY <1>0, <2>1, <2>2, OwnLine DEF OwedInv
<1> QED
  BY <1>1, <1>2, <1>3, <1>4, <1>5, <1>6, <1>7, <1>8, <1>9, <1>10 DEF Next, CallStep

LEMMA CleanInvariant == Spec => []CleanInv
BY TypeInit, TypeNext, LineInit, LineNext, CleanInit, CleanNext, PTL DEF Spec

(* A call made when the modem owes nothing returns only lines of its own   *)
(* exchange, and OK only for its own OK, whatever the other callers do.    *)
THEOREM CleanAnswers == Spec => []CleanAnswer
<1>1. CleanInv => CleanAnswer
  BY DEF CleanInv, CleanAnswer
<1> QED
  BY <1>1, CleanInvariant, PTL


-----------------------------------------------------------------------------
(* PromptInv: on a clean line without stray '>' the prompt is c's own.     *)

LEMMA PromptInit == Init => PromptInv
BY DEF Init, PromptInv

(* Only ModemPrompts and TakePrompt touch the prompt channels when no      *)
(* notification holds a '>'.                                               *)
LEMMA NoStrayPrompt ==
  ASSUME "GT" \notin Unsolicited, NEW k \in Unsolicited, UnsolicitedLine(k)
  PROVE  UNCHANGED <<promptBuf, pc, mst, clean, prompted>>
BY DEF UnsolicitedLine

LEMMA PromptNext == TypeOK /\ LineInv /\ CleanInv /\ PromptInv /\ [Next]_vars => PromptInv'
<1> DEFINE P(c) == /\ pc[c] = "registered" => ~promptBuf[c]
                   /\ pc[c] = "prompt" /\ promptBuf[c] => mst[c] = "prompted"
                   /\ pc[c] = "delay" => mst[c] = "prompted"
                   /\ prompted[c]
<1> SUFFICES ASSUME TypeOK, LineInv, CleanInv, PromptInv, [Next]_vars,
                    "GT" \notin Unsolicited, NEW c \in Calls,
                    clean'[c] \/ pc'[c] \in {"idle", "lock"}
             PROVE  P(c)'
  BY DEF PromptInv
<1>0. clean[c] \/ pc[c] \in {"idle", "lock"} => P(c)
  BY DEF PromptInv
<1>1. ASSUME NEW d \in Calls, Call(d) \/ DeadlineExceeded(d) PROVE P(c)'
  BY <1>0, <1>1 DEF Call, DeadlineExceeded, TypeOK
<1>2. ASSUME NEW d \in Calls, Register(d) PROVE P(c)'
  <2>1. CASE c = d
    <3>1. ~promptBuf'[c] /\ pc'[c] = "registered" /\ prompted'[c] = prompted[c]
      BY <1>2, <2>1 DEF Register, LineInv, TypeOK
    <3>2. prompted[c]
      BY <1>0, <1>2, <2>1 DEF Register
    <3> QED
      BY <3>1, <3>2
  <2>2. CASE c # d
    BY <1>0, <1>2, <2>2 DEF Register, TypeOK
  <2> QED
    BY <2>1, <2>2
<1>3. ASSUME NEW d \in Calls, Write(d) PROVE P(c)'
  <2>1. CASE c = d
    BY <1>0, <1>3, <2>1 DEF Write, TypeOK
  <2>2. CASE c # d
    BY <1>0, <1>3, <2>2 DEF Write, TypeOK
  <2> QED
    BY <2>1, <2>2
<1>4. ASSUME NEW d \in Calls, WriteFails(d) \/ TakeResponse(d) \/ Timeout(d) \/ AbortPDU(d)
      PROVE  P(c)'
  <2>1. /\ pc' = [pc EXCEPT ![d] = "done"]
        /\ c # d => mst'[c] = mst[c]
        /\ UNCHANGED <<promptBuf, clean, prompted>>
    BY <1>4 DEF WriteFails, TakeResponse, Timeout, AbortPDU, Escape, Return, TypeOK
  <2> QED
    BY <1>0, <2>1 DEF TypeOK
<1>5. ASSUME NEW d \in Calls, TakePrompt(d) PROVE P(c)'
  BY <1>0, <1>5 DEF TakePrompt, TypeOK
<1>6. ASSUME NEW d \in Calls, WritePayload(d) PROVE P(c)'
  <2>1. CASE c = d
    BY <1>0, <1>6, <2>1 DEF WritePayload, TypeOK
  <2>2. CASE c # d
    BY <1>0, <1>6, <2>2 DEF WritePayload, TypeOK
  <2> QED
    BY <2>1, <2>2
<1>7. CASE ModemPrompts
  <2>1. /\ owed \in Seq(Calls) /\ owed # <<>> /\ UNCHANGED <<pc, clean, prompted>>
        /\ mst' = [mst EXCEPT ![Head(owed)] = "prompted"] /\ SignalPrompt
    BY <1>7 DEF ModemPrompts, TypeOK
  <2>2. Head(owed) \in Calls /\ Head(owed) = owed[1] /\ 1 \in 1..Len(owed)
    BY <2>1
  <2>3. mst'[c] \in {mst[c], "prompted"}
    BY <2>1, <2>2 DEF TypeOK
  <2>4. CASE c # promptChan
    <3>1. promptBuf'[c] = promptBuf[c]
      BY <2>1, <2>4 DEF SignalPrompt, TypeOK
    <3> QED
      BY <1>0, <2>1, <2>3, <3>1
  <2>5. CASE c = promptChan
    <3>1. pc[c] \in Active
      BY <2>5, ConstantsAssumption DEF LineInv
    <3>2. Head(owed) = c /\ pc[c] # "registered"
      BY <2>1, <2>2, <3>1 DEF CleanInv, Active
    <3>3. mst'[c] = "prompted"
      BY <2>1, <3>2 DEF TypeOK
    <3> QED
      BY <1>0, <2>1, <3>2, <3>3
  <2> QED
    BY <2>4, <2>5
<1>8. CASE ModemAnswers \/ ModemForgets \/ ReaderStops \/ ConsumeURC \/ UNCHANGED vars
  BY <1>0, <1>8 DEF ModemAnswers, ModemForgets, ReaderStops, ConsumeURC, vars
<1>9. ASSUME NEW k \in Unsolicited, UnsolicitedLine(k) PROVE P(c)'
  BY <1>0, <1>9, NoStrayPrompt
<1> QED
  BY <1>1, <1>2, <1>3, <1>4, <1>5, <1>6, <1>7, <1>8, <1>9 DEF Next, CallStep

(* SendPDU on a clean line without stray '>' writes the message body only  *)
(* after the modem's prompt for that very command.                         *)
THEOREM CleanPayloads == Spec => []CleanPayloadAfterPrompt
<1>1. PromptInv => CleanPayloadAfterPrompt
  BY DEF PromptInv, CleanPayloadAfterPrompt
<1> QED
  BY <1>1, TypeInit, TypeNext, LineInit, LineNext, CleanInit, CleanNext, PromptInit,
     PromptNext, PTL DEF Spec

=============================================================================
