------------------------------ MODULE ATEngine ------------------------------
(***************************************************************************)
(* The AT command engine of internal/modem/at (engine.go, urc.go): callers *)
(* serialised by cmdMu, one background reader that attributes every line   *)
(* of the modem either to the command in flight or to the URC channel.     *)
(*                                                                         *)
(* A call is one invocation of Send or SendPDU.  It allocates a Response   *)
(* and a response channel of its own, so pointers and channels are named   *)
(* by the call that made them.  The critical sections of respMu are single *)
(* steps.  A line reaches processLine in the step in which the modem emits *)
(* it: a delay on the wire is the modem being later.                       *)
(***************************************************************************)
EXTENDS Naturals, Sequences, FiniteSets

CONSTANTS
  Calls,     \* the calls of Send / SendPDU that may be made
  UrcCap,    \* capacity of urcChan (100 in NewEngine)
  Unsolicited, \* kinds of line the modem may emit unasked
  NIL        \* a nil channel or pointer, an unlocked mutex

ASSUME ConstantsAssumption ==
  /\ NIL \notin Calls
  /\ UrcCap \in Nat
  /\ Unsolicited \subseteq {"NOCARRIER", "BUSY", "CUSD", "URC", "TEXT", "GT"}

(***************************************************************************)
(* Commands, by how the engine's text tests treat them: "info" (AT+CSQ and *)
(* its like), "dial" (ATD, ATA, ATH), "cusd" (a command whose answer has   *)
(* the prefix of a URC: AT+CUSD, AT+CREG?) and "pdu" (SendPDU).            *)
(***************************************************************************)
Cmds == {"info", "dial", "cusd", "pdu"}

(***************************************************************************)
(* Lines.  k is the class the engine's tests put the line in; `of' is the  *)
(* call whose command it answers, NIL for an unsolicited line.  "TEXT" is  *)
(* a line no test recognises (the PDU that follows +CDS:/+CMT:, the tail   *)
(* of a line with a '>' in it), "GT" is a line with a '>' in it.           *)
(***************************************************************************)
Kinds == {"echo", "info", "OK", "ERROR", "NOCARRIER", "BUSY", "CUSD", "URC",
          "TEXT", "GT"}
Lines == [k : Kinds, of : Calls \cup {NIL}]

VARIABLES
  cmdMu, inFlight, currentResp, activeCmd, promptChan,  \* fields of Engine
  urcChan,     \* buffered lines for the URC consumer
  reader,      \* the goroutine in Start
  pc, cmd,     \* per call: where it is, which command it sends
  resp,        \* per call: its Response object
  respChan,    \* per call: does its response channel (capacity 1) hold it
  promptBuf,   \* per call: does its prompt channel (capacity 1) hold a token
  out,         \* per call: what it returned
  owed, mst,   \* the modem: commands not yet answered, progress of a CMGS
  clean, final, prompted  \* history: see the properties

engineVars == <<cmdMu, inFlight, currentResp, activeCmd, promptChan>>
modemVars  == <<owed, mst>>
history    == <<clean, final, prompted>>
vars == <<engineVars, urcChan, reader, pc, cmd, resp, respChan, promptBuf, out,
          modemVars, history>>

Response == [OK : BOOLEAN, Error : BOOLEAN, Lines : SUBSET Lines]
PCs == {"idle", "lock", "registered", "wait", "prompt", "delay", "final", "done"}
Active == {"registered", "wait", "prompt", "delay", "final"}  \* holding cmdMu

TypeOK ==
  /\ cmdMu \in Calls \cup {NIL} /\ inFlight \in Calls \cup {NIL}
  /\ currentResp \in Calls \cup {NIL} /\ promptChan \in Calls \cup {NIL}
  /\ activeCmd \in Cmds \cup {""}
  /\ urcChan \in Seq(Lines) /\ Len(urcChan) <= UrcCap
  /\ reader \in {"running", "stopped", "blocked", "panicked"}
  /\ pc \in [Calls -> PCs]
  /\ cmd \in [Calls -> Cmds]
  /\ resp \in [Calls -> Response]
  /\ respChan \in [Calls -> BOOLEAN]
  /\ promptBuf \in [Calls -> BOOLEAN]
  /\ out \in [Calls -> {"none", "resp", "err"}]
  /\ owed \in Seq(Calls)
  /\ mst \in [Calls -> {"none", "got", "prompted", "body", "escaped"}]
  /\ clean \in [Calls -> BOOLEAN]
  /\ final \in [Calls -> Lines \cup {NIL}]
  /\ prompted \in [Calls -> BOOLEAN]

EmptyResponse == [OK |-> FALSE, Error |-> FALSE, Lines |-> {}]

Init ==
  /\ cmdMu = NIL /\ inFlight = NIL /\ currentResp = NIL /\ promptChan = NIL
  /\ activeCmd = ""
  /\ urcChan = <<>>
  /\ reader = "running"
  /\ pc = [c \in Calls |-> "idle"]
  /\ cmd \in [Calls -> Cmds]
  /\ resp = [c \in Calls |-> EmptyResponse]
  /\ respChan = [c \in Calls |-> FALSE]
  /\ promptBuf = [c \in Calls |-> FALSE]
  /\ out = [c \in Calls |-> "none"]
  /\ owed = <<>>
  /\ mst = [c \in Calls |-> "none"]
  /\ clean = [c \in Calls |-> FALSE]
  /\ final = [c \in Calls |-> NIL]
  /\ prompted = [c \in Calls |-> TRUE]

-----------------------------------------------------------------------------
(* urc.go: the tests that decide where a line goes.                        *)

isCallTerminationResponse(cm, l) == cm = "dial" /\ l.k \in {"NOCARRIER", "BUSY"}
isCommandResponse(cm, l) == \/ cm \in {"info", "pdu"} /\ l.k = "info"
                            \/ cm = "cusd" /\ l.k = "CUSD"
isURC(l) == l.k \in {"NOCARRIER", "CUSD", "URC"}

(* `line == e.activeCmd': the echo of AT+CMGS=<n> differs from "AT+CMGS".   *)
isEcho(cm, l) == l.k = "echo" /\ l.of # NIL /\ cmd[l.of] = cm /\ cm # "pdu"

(* A full channel drops the notification.                                  *)
dispatchURC(l) ==
  urcChan' = IF Len(urcChan) < UrcCap THEN Append(urcChan, l) ELSE urcChan

(* The assignments to the current Response.                                *)
WithLine(r, l) == [r EXCEPT !.Lines = r.Lines \cup {l}]
WithOK(r)      == [r EXCEPT !.OK = TRUE]
WithError(r)   == [r EXCEPT !.Error = TRUE]

(* Mutant: the channel stays in flight after the final line.               *)
Deliver_KeepsInFlight(l) ==
  /\ resp' = [resp EXCEPT ![currentResp] = WithLine(@, l)]
  /\ respChan' = [respChan EXCEPT ![inFlight] = TRUE]
  /\ final' = [final EXCEPT ![inFlight] = l]
  /\ UNCHANGED <<inFlight, reader, urcChan>>

(* A final line: the Response goes to the channel in flight.  A nil        *)
(* Response panics; a full channel blocks the reader with respMu held.     *)
Deliver(l) ==
  /\ \/ /\ currentResp = NIL
        /\ reader' = "panicked"
        /\ UNCHANGED <<resp, respChan, inFlight, final>>
     \/ /\ currentResp # NIL /\ respChan[inFlight]
        /\ reader' = "blocked"
        /\ UNCHANGED <<resp, respChan, inFlight, final>>
     \/ /\ currentResp # NIL /\ ~respChan[inFlight]
        /\ resp' = [resp EXCEPT ![currentResp] =
                      IF l.k = "OK" THEN WithOK(@) ELSE WithError(WithLine(@, l))]
        /\ respChan' = [respChan EXCEPT ![inFlight] = TRUE]
        /\ final' = [final EXCEPT ![inFlight] = l]
        /\ inFlight' = NIL
        /\ UNCHANGED reader
  /\ UNCHANGED urcChan

(* Any other line of the answer.                                           *)
Collect(l) ==
  /\ IF currentResp = NIL
     THEN reader' = "panicked" /\ UNCHANGED resp
     ELSE /\ resp' = [resp EXCEPT ![currentResp] = WithLine(@, l)]
          /\ UNCHANGED reader
  /\ UNCHANGED <<urcChan, respChan, inFlight, final>>

ToURC(l) == dispatchURC(l) /\ UNCHANGED <<reader, resp, respChan, inFlight, final>>

Final(l) == \/ isCallTerminationResponse(activeCmd, l)
            \/ l.k \in {"OK", "ERROR"}

processLine(l) ==
  \/ inFlight = NIL /\ ToURC(l)
  \/ /\ inFlight # NIL /\ isEcho(activeCmd, l)
     /\ UNCHANGED <<urcChan, reader, resp, respChan, inFlight, final>>
  \/ inFlight # NIL /\ Final(l) /\ Deliver(l)
  \/ /\ inFlight # NIL /\ ~isEcho(activeCmd, l) /\ ~Final(l)
     /\ IF ~isCommandResponse(activeCmd, l) /\ isURC(l) THEN ToURC(l)
                                                        ELSE Collect(l)

(* A '>' byte: wake the waiter of promptChan, if any, without blocking.    *)
SignalPrompt ==
  promptBuf' = IF promptChan = NIL THEN promptBuf
                                   ELSE [promptBuf EXCEPT ![promptChan] = TRUE]

-----------------------------------------------------------------------------
(* Send and SendPDU.                                                       *)

respMuFree == reader \notin {"blocked", "panicked"}

Call(c) ==
  /\ pc[c] = "idle"
  /\ pc' = [pc EXCEPT ![c] = "lock"]
  /\ UNCHANGED <<engineVars, urcChan, reader, cmd, resp, respChan, promptBuf,
                 out, modemVars, history>>

(* SendCommand with a deadline already past: no lock is taken.             *)
DeadlineExceeded(c) ==
  /\ pc[c] = "idle" /\ cmd[c] # "pdu"
  /\ pc' = [pc EXCEPT ![c] = "done"]
  /\ out' = [out EXCEPT ![c] = "err"]
  /\ UNCHANGED <<engineVars, urcChan, reader, cmd, resp, respChan, promptBuf,
                 modemVars, history>>

(* Mutant: the registration without cmdMu.                                 *)
Register_NoLock(c) ==
  /\ pc[c] = "lock" /\ respMuFree
  /\ cmdMu' = c
  /\ inFlight' = c
  /\ currentResp' = c
  /\ activeCmd' = cmd[c]
  /\ promptChan' = IF cmd[c] = "pdu" THEN c ELSE promptChan
  /\ pc' = [pc EXCEPT ![c] = "registered"]
  /\ clean' = [clean EXCEPT ![c] = owed = <<>>]
  /\ UNCHANGED <<urcChan, reader, cmd, resp, respChan, promptBuf, out,
                 modemVars, final, prompted>>

(* cmdMu.Lock and the registration under respMu.                           *)
Register(c) ==
  /\ pc[c] = "lock" /\ cmdMu = NIL /\ respMuFree
  /\ cmdMu' = c
  /\ inFlight' = c
  /\ currentResp' = c
  /\ activeCmd' = cmd[c]
  /\ promptChan' = IF cmd[c] = "pdu" THEN c ELSE promptChan
  /\ pc' = [pc EXCEPT ![c] = "registered"]
  /\ clean' = [clean EXCEPT ![c] = owed = <<>>]
  /\ UNCHANGED <<urcChan, reader, cmd, resp, respChan, promptBuf, out,
                 modemVars, final, prompted>>

(* Mutant: the channel is left in flight.                                  *)
clearInFlight_KeepsInFlight ==
  /\ respMuFree
  /\ currentResp' = NIL
  /\ activeCmd' = ""
  /\ promptChan' = NIL
  /\ UNCHANGED inFlight

clearInFlight ==
  /\ respMuFree
  /\ inFlight' = NIL
  /\ currentResp' = NIL
  /\ activeCmd' = ""
  /\ promptChan' = NIL

(* Return: the deferred clearInFlight (always for SendPDU, only on an error *)
(* for Send) and cmdMu.Unlock.                                             *)
Return(c, o) ==
  /\ IF o = "err" \/ cmd[c] = "pdu" THEN clearInFlight
     ELSE UNCHANGED <<inFlight, currentResp, activeCmd, promptChan>>
  /\ cmdMu' = NIL
  /\ pc' = [pc EXCEPT ![c] = "done"]
  /\ out' = [out EXCEPT ![c] = o]
  /\ UNCHANGED <<urcChan, reader, cmd, resp, promptBuf, history>>

(* The command line is written and the modem will answer it in its turn.   *)
Write(c) ==
  /\ pc[c] = "registered"
  /\ pc' = [pc EXCEPT ![c] = IF cmd[c] = "pdu" THEN "prompt" ELSE "wait"]
  /\ owed' = Append(owed, c)
  /\ mst' = [mst EXCEPT ![c] = "got"]
  /\ UNCHANGED <<engineVars, urcChan, reader, cmd, resp, respChan, promptBuf,
                 out, history>>

WriteFails(c) ==
  /\ pc[c] = "registered"
  /\ Return(c, "err")
  /\ UNCHANGED <<respChan, modemVars>>

TakeResponse(c) ==
  /\ pc[c] \in {"wait", "prompt", "final"} /\ respChan[c]
  /\ respChan' = [respChan EXCEPT ![c] = FALSE]
  /\ Return(c, "resp")
  /\ UNCHANGED modemVars

(* Mutant: Send waits for the response without a timer.                    *)
Timeout_Never(c) == pc[c] = "wait" /\ respChan[c] /\ FALSE /\ UNCHANGED vars

(* time.After in Send; a select may also choose it over a ready response.  *)
Timeout(c) ==
  /\ pc[c] = "wait"
  /\ Return(c, "err")
  /\ UNCHANGED <<respChan, modemVars>>

(* The modem reads an ESC: too late if it has the body of the message.     *)
Escape(c) ==
  /\ mst' = [mst EXCEPT ![c] = IF @ = "body" THEN @ ELSE "escaped"]
  /\ UNCHANGED owed

(* ctx.Done, the timer of a wait of SendPDU, or a failed write of the      *)
(* payload: ESC, then the error.                                           *)
AbortPDU(c) ==
  /\ pc[c] \in {"prompt", "delay", "final"}
  /\ Escape(c)
  /\ Return(c, "err")
  /\ UNCHANGED respChan

(* Mutant: the prompt is not waited for.                                   *)
TakePrompt_NoWait(c) ==
  /\ pc[c] = "prompt"
  /\ pc' = [pc EXCEPT ![c] = "delay"]
  /\ UNCHANGED <<engineVars, urcChan, reader, cmd, resp, respChan, promptBuf,
                 out, modemVars, history>>

TakePrompt(c) ==
  /\ pc[c] = "prompt" /\ promptBuf[c]
  /\ promptBuf' = [promptBuf EXCEPT ![c] = FALSE]
  /\ pc' = [pc EXCEPT ![c] = "delay"]
  /\ UNCHANGED <<engineVars, urcChan, reader, cmd, resp, respChan, out,
                 modemVars, history>>

(* After the 100 ms delay: the PDU and Ctrl-Z.                             *)
WritePayload(c) ==
  /\ pc[c] = "delay"
  /\ pc' = [pc EXCEPT ![c] = "final"]
  /\ mst' = [mst EXCEPT ![c] = IF @ = "prompted" THEN "body" ELSE @]
  /\ prompted' = [prompted EXCEPT ![c] = mst[c] = "prompted"]
  /\ UNCHANGED <<engineVars, urcChan, reader, cmd, resp, respChan, promptBuf,
                 out, owed, clean, final>>

-----------------------------------------------------------------------------
(* The reader, the modem at the other end of the wire, the URC consumer.   *)

(* What the modem may say for the command it is answering.                 *)
AnswerKinds(c) ==
  CASE cmd[c] = "info" -> {"echo", "info", "OK", "ERROR"}
    [] cmd[c] = "dial" -> {"echo", "OK", "ERROR", "NOCARRIER", "BUSY"}
    [] cmd[c] = "cusd" -> {"echo", "CUSD", "OK", "ERROR"}
    [] cmd[c] = "pdu"  -> {"echo", "info", "ERROR"} \cup
                          (IF mst[c] \in {"body", "escaped"} THEN {"OK"} ELSE {})

FinalKinds(c) == {"OK", "ERROR"} \cup
                 (IF cmd[c] = "dial" THEN {"NOCARRIER", "BUSY"} ELSE {})

readerVars == <<cmdMu, currentResp, activeCmd, promptChan, pc, cmd, out, clean,
                prompted>>

ModemAnswers ==
  /\ reader = "running" /\ owed # <<>>
  /\ LET c == Head(owed) IN
     \E k \in AnswerKinds(c) :
       /\ processLine([k |-> k, of |-> c])
       /\ owed' = IF k \in FinalKinds(c) THEN Tail(owed) ELSE owed
  /\ UNCHANGED <<readerVars, mst, promptBuf>>

(* It may drop the cancelled CMGS without a word.                          *)
ModemForgets ==
  /\ owed # <<>> /\ mst[Head(owed)] = "escaped"
  /\ owed' = Tail(owed)
  /\ UNCHANGED <<readerVars, mst, inFlight, urcChan, reader, resp, respChan,
                 promptBuf, final>>

ModemPrompts ==
  /\ reader = "running" /\ owed # <<>>
  /\ cmd[Head(owed)] = "pdu" /\ mst[Head(owed)] = "got"
  /\ mst' = [mst EXCEPT ![Head(owed)] = "prompted"]
  /\ SignalPrompt
  /\ UNCHANGED <<readerVars, owed, inFlight, urcChan, reader, resp, respChan, final>>

(* An unsolicited line.  A '>' in it signals the prompt, discards the line *)
(* so far, and leaves a tail no test recognises.                           *)
UnsolicitedLine(k) ==
  /\ reader = "running"
  /\ IF k = "GT" THEN SignalPrompt /\ processLine([k |-> "TEXT", of |-> NIL])
     ELSE processLine([k |-> k, of |-> NIL]) /\ UNCHANGED promptBuf
  /\ UNCHANGED <<readerVars, modemVars>>

(* Start returns: context cancelled, EOF or a read error.                  *)
ReaderStops ==
  /\ reader = "running"
  /\ reader' = "stopped"
  /\ UNCHANGED <<readerVars, modemVars, inFlight, urcChan, resp, respChan,
                 promptBuf, final>>

ConsumeURC ==
  /\ urcChan # <<>>
  /\ urcChan' = Tail(urcChan)
  /\ UNCHANGED <<readerVars, modemVars, inFlight, reader, resp, respChan,
                 promptBuf, final>>

CallStep(c) == \/ Register(c) \/ Write(c) \/ WriteFails(c) \/ TakeResponse(c)
               \/ Timeout(c) \/ AbortPDU(c) \/ TakePrompt(c) \/ WritePayload(c)

Next ==
  \/ \E c \in Calls : Call(c) \/ DeadlineExceeded(c) \/ CallStep(c)
  \/ ModemAnswers \/ ModemForgets \/ ModemPrompts
  \/ ReaderStops \/ ConsumeURC
  \/ \E k \in Unsolicited : UnsolicitedLine(k)

Spec == Init /\ [][Next]_vars

(* Goroutines run and timers fire; nothing is assumed of the modem, of the *)
(* reader, or of the consumer of URC().                                    *)
FairSpec == Spec /\ \A c \in Calls : WF_vars(CallStep(c))
-----------------------------------------------------------------------------
(***************************************************************************)
(* Properties.  clean[c]: the modem owed no answer when c registered.      *)
(* final[c]: the line that completed c.  prompted[c]: FALSE once c wrote   *)
(* its payload without the modem having prompted for it.                   *)
(***************************************************************************)

(* processLine sends on inFlight while it holds respMu.  The send never    *)
(* blocks and currentResp is never nil there, whatever the timing of       *)
(* timeouts, aborts and late lines: otherwise respMu would never be        *)
(* released and every later Send would hang.                               *)
ReaderNeverBlocks == reader \notin {"blocked", "panicked"}

(* A call made when the modem owes nothing gets no line of another call,   *)
(* and is told OK only for its own OK: cmdMu keeps its exchange apart from *)
(* those of the concurrent callers.                                        *)
CleanAnswer ==
  \A c \in Calls : clean[c] /\ out[c] = "resp" =>
    /\ \A l \in resp[c].Lines : l.of \in {c, NIL}
    /\ resp[c].OK => final[c].of = c

(* The unconditional form: an OK always belongs to the command it is       *)
(* returned for.  A late answer to a command that timed out breaks it.     *)
OwnAnswer ==
  \A c \in Calls : out[c] = "resp" /\ resp[c].OK => final[c].of = c

(* SendPDU waits for the modem's prompt before it writes the payload, on a *)
(* clean line whose notifications hold no '>'.                             *)
CleanPayloadAfterPrompt ==
  "GT" \notin Unsolicited => \A c \in Calls : clean[c] => prompted[c]

(* Once a Response has been put in its channel the reader no longer writes *)
(* to it, although currentResp keeps pointing at it after Send returned.   *)
ResponseFrozen ==
  [][\A c \in Calls : respChan[c] \/ pc[c] = "done" => resp'[c] = resp[c]]_vars

(* A dead line unblocks its callers: with the modem silent, the reader     *)
(* stopped or the URC channel full, every call returns.                    *)
EveryCallReturns == \A c \in Calls : pc[c] = "lock" ~> pc[c] = "done"
-----------------------------------------------------------------------------
(***************************************************************************)
(* The inductive strengthening the proofs use.                             *)
(***************************************************************************)

(* The lock, the channel in flight and the Response it will receive belong *)
(* to the same call, and that call has not been answered yet.              *)
LineInv ==
  /\ \A c \in Calls : pc[c] \in Active <=> cmdMu = c
  /\ inFlight # NIL => /\ inFlight = cmdMu
                       /\ currentResp = inFlight
                       /\ ~respChan[inFlight]
                       /\ ~resp[inFlight].OK
  /\ promptChan # NIL => promptChan = cmdMu /\ cmd[promptChan] = "pdu"
  /\ \A c \in Calls : pc[c] \in {"idle", "lock"} =>
       ~respChan[c] /\ ~promptBuf[c] /\ resp[c] = EmptyResponse
  /\ ReaderNeverBlocks

(* While a clean call is active the modem can only be answering that call, *)
(* and what it collected is its own.                                       *)
CleanInv ==
  \A c \in Calls : clean[c] =>
    /\ pc[c] \in Active => \A i \in 1..Len(owed) : owed[i] = c
    /\ pc[c] = "registered" => owed = <<>>
    /\ \A l \in resp[c].Lines : l.of \in {c, NIL}
    /\ resp[c].OK => final[c].of = c

(* The prompt token of a clean call was put there by its own prompt.       *)
PromptInv ==
  "GT" \notin Unsolicited =>
  \A c \in Calls : clean[c] \/ pc[c] \in {"idle", "lock"} =>
    /\ pc[c] = "registered" => ~promptBuf[c]
    /\ pc[c] = "prompt" /\ promptBuf[c] => mst[c] = "prompted"
    /\ pc[c] = "delay" => mst[c] = "prompted"
    /\ prompted[c]

IInv == TypeOK /\ LineInv /\ CleanInv /\ PromptInv
=============================================================================
