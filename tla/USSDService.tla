---------------------------- MODULE USSDService ----------------------------
(***************************************************************************)
(* USSD queries: internal/services/ussd.go, with the status handling of    *)
(* ussd.ParseResponse.  A query is one call of Send and names the channel  *)
(* it makes.  Queries come from MQTT, HTTP, the pool and the balance check *)
(* and are not serialised; the AT engine serialises only the AT+CUSD       *)
(* command of each.  A +CUSD line that arrives while such a command is in  *)
(* flight is part of its output, any other goes to the URC goroutine.      *)
(***************************************************************************)
EXTENDS Naturals, FiniteSets

CONSTANTS
  Queries,
  NIL

(* +CUSD statuses: a text (0, 1, 3, or 2 with a text), a refusal that      *)
(* ParseResponse turns into an error (4), the network's time-out (5).      *)
Kinds == {"text", "unsupported", "timeout"}
Errors == {"send failed", "unsupported", "timeout"}

(* The URC goroutine after the unlock: the channel and the reply it holds, *)
(* before the send or before onResponse.                                   *)
Handling == [ch : Queries \cup {NIL}, reply : Queries, at : {"send", "report"}]

ASSUME USSDAssumption == /\ NIL \notin Queries \cup Errors /\ NIL \notin Handling
                         /\ Queries \cap Errors = {}

VARIABLES
  pc,         \* per query: progress of Send
  pendingCh,  \* USSDService.pendingCh, named by the query that made it
  chan,       \* per query: the one place of its respCh.  A reply with a text
              \* is named by the query it answers
  wire,       \* the query whose AT+CUSD command is in flight
  inline,     \* the first +CUSD in that command's output
  urc,        \* the URC goroutine after the unlock, or NIL
  net,        \* per query: does the network owe it a reply
  kind,       \* history, per query: the status the network gave while Send waited
  result,     \* history, per query: what Send returned
  reported    \* history: the replies given to onResponse

vars == <<pc, pendingCh, chan, wire, inline, urc, net, kind, result, reported>>

TypeOK ==
  /\ pc \in [Queries -> {"idle", "registered", "sending", "waiting", "clear", "report", "done"}]
  /\ pendingCh \in Queries \cup {NIL}
  /\ chan \in [Queries -> Queries \cup {NIL}]
  /\ wire \in Queries \cup {NIL}
  /\ inline \in [to : Queries, kind : Kinds] \cup {NIL}
  /\ urc \in Handling \cup {NIL}
  /\ net \in [Queries -> {"none", "open", "closed"}]
  /\ kind \in [Queries -> Kinds \cup {NIL}]
  /\ result \in [Queries -> Queries \cup Errors \cup {NIL}]
  /\ reported \subseteq Queries
  /\ \A q \in Queries : pc[q] = "report" => result[q] \in Queries

Init ==
  /\ pc = [q \in Queries |-> "idle"]
  /\ pendingCh = NIL
  /\ chan = [q \in Queries |-> NIL]
  /\ wire = NIL
  /\ inline = NIL
  /\ urc = NIL
  /\ net = [q \in Queries |-> "none"]
  /\ kind = [q \in Queries |-> NIL]
  /\ result = [q \in Queries |-> NIL]
  /\ reported = {}

-----------------------------------------------------------------------------
(* Send, one goroutine per query.  A code ValidateCode refuses returns     *)
(* before anything is touched.                                             *)

Register(q) ==
  /\ pc[q] = "idle"
  /\ pc' = [pc EXCEPT ![q] = "registered"]
  /\ pendingCh' = q
  /\ UNCHANGED <<chan, wire, inline, urc, net, kind, result, reported>>

(* SendUSSD gets the engine and writes the command.                        *)
Submit(q) ==
  /\ pc[q] = "registered" /\ wire = NIL
  /\ pc' = [pc EXCEPT ![q] = "sending"]
  /\ wire' = q
  /\ net' = [net EXCEPT ![q] = "open"]
  /\ UNCHANGED <<pendingCh, chan, inline, urc, kind, result, reported>>

(* SendUSSD returns an error; the network may have taken the query.        *)
SubmitFails(q) ==
  /\ pc[q] = "sending"
  /\ pc' = [pc EXCEPT ![q] = "clear"]
  /\ result' = [result EXCEPT ![q] = "send failed"]
  /\ wire' = NIL /\ inline' = NIL
  /\ UNCHANGED <<pendingCh, chan, urc, net, kind, reported>>

(* The output holds no +CUSD: wait for the URC.                            *)
Submitted(q) ==
  /\ pc[q] = "sending" /\ inline = NIL
  /\ pc' = [pc EXCEPT ![q] = "waiting"]
  /\ wire' = NIL
  /\ UNCHANGED <<pendingCh, chan, inline, urc, net, kind, result, reported>>

(* The output holds one: its text or its error is what Send will return,   *)
(* whatever query it answers.                                              *)
ReceiveInline(q) ==
  /\ pc[q] = "sending" /\ inline # NIL
  /\ pc' = [pc EXCEPT ![q] = "clear"]
  /\ result' = [result EXCEPT ![q] = IF inline.kind = "text" THEN inline.to ELSE inline.kind]
  /\ wire' = NIL /\ inline' = NIL
  /\ UNCHANGED <<pendingCh, chan, urc, net, kind, reported>>

Receive(q) ==
  /\ pc[q] = "waiting" /\ chan[q] # NIL
  /\ pc' = [pc EXCEPT ![q] = "done"]
  /\ result' = [result EXCEPT ![q] = chan[q]]
  /\ chan' = [chan EXCEPT ![q] = NIL]
  /\ UNCHANGED <<pendingCh, wire, inline, urc, net, kind, reported>>

(* Mutant: no time-out, the query waits for a reply.                       *)
Timeout_Never(q) == FALSE /\ UNCHANGED vars

(* ctx.Done or the timer, which select may choose although a reply is in.  *)
Timeout(q) ==
  /\ pc[q] = "waiting"
  /\ pc' = [pc EXCEPT ![q] = "clear"]
  /\ result' = [result EXCEPT ![q] = "timeout"]
  /\ UNCHANGED <<pendingCh, chan, wire, inline, urc, net, kind, reported>>

(* Mutant: an inline text is returned without a report.                    *)
clearPending_NoReport(q) ==
  /\ pc[q] = "clear"
  /\ pc' = [pc EXCEPT ![q] = "done"]
  /\ pendingCh' = NIL
  /\ UNCHANGED <<chan, wire, inline, urc, net, kind, result, reported>>

(* clearPending drops whatever channel is registered now; then Send        *)
(* returns, after onResponse when it has an inline text.                   *)
clearPending(q) ==
  /\ pc[q] = "clear"
  /\ pc' = [pc EXCEPT ![q] = IF result[q] \in Queries THEN "report" ELSE "done"]
  /\ pendingCh' = NIL
  /\ UNCHANGED <<chan, wire, inline, urc, net, kind, result, reported>>

ReportInline(q) ==
  /\ pc[q] = "report"
  /\ pc' = [pc EXCEPT ![q] = "done"]
  /\ reported' = reported \cup {result[q]}
  /\ UNCHANGED <<pendingCh, chan, wire, inline, urc, net, kind, result>>

-----------------------------------------------------------------------------
(* The network (external) replies to q at any time after the query.        *)
NetworkReplies(q, k) ==
  /\ net[q] = "open"
  /\ net' = [net EXCEPT ![q] = "closed"]
  /\ kind' = [kind EXCEPT ![q] = IF pc[q] = "waiting" THEN k ELSE @]

(* ... while an AT+CUSD command is in flight: only the first +CUSD of an   *)
(* output is parsed.                                                       *)
InlineCUSD(q, k) ==
  /\ wire # NIL
  /\ NetworkReplies(q, k)
  /\ inline' = IF inline = NIL THEN [to |-> q, kind |-> k] ELSE inline
  /\ UNCHANGED <<pc, pendingCh, chan, wire, urc, result, reported>>

(* Mutant: the channel stays registered.                                   *)
HandleURC_KeepsChannel(q, k) ==
  /\ wire # q /\ urc = NIL
  /\ NetworkReplies(q, k)
  /\ IF k # "text"
     THEN UNCHANGED <<pendingCh, urc>>
     ELSE urc' = [ch |-> pendingCh, reply |-> q, at |-> "send"] /\ UNCHANGED pendingCh
  /\ UNCHANGED <<pc, chan, wire, inline, result, reported>>

(* ... as a URC, maybe queued since before the command now in flight.  A   *)
(* status ParseResponse makes an error of is logged and forgotten.         *)
HandleURC(q, k) ==
  /\ wire # q /\ urc = NIL
  /\ NetworkReplies(q, k)
  /\ IF k # "text"
     THEN UNCHANGED <<pendingCh, urc>>
     ELSE urc' = [ch |-> pendingCh, reply |-> q, at |-> "send"] /\ pendingCh' = NIL
  /\ UNCHANGED <<pc, chan, wire, inline, result, reported>>

(* The send that never blocks.                                             *)
SendReply ==
  /\ urc # NIL /\ urc.at = "send"
  /\ chan' = [q \in Queries |-> IF q = urc.ch /\ chan[q] = NIL THEN urc.reply ELSE chan[q]]
  /\ urc' = [urc EXCEPT !.at = "report"]
  /\ UNCHANGED <<pc, pendingCh, wire, inline, net, kind, result, reported>>

onResponse ==
  /\ urc # NIL /\ urc.at = "report"
  /\ reported' = reported \cup {urc.reply}
  /\ urc' = NIL
  /\ UNCHANGED <<pc, pendingCh, chan, wire, inline, net, kind, result>>

-----------------------------------------------------------------------------
SendStep(q) ==
  \/ Submit(q) \/ SubmitFails(q) \/ Submitted(q) \/ ReceiveInline(q)
  \/ Receive(q) \/ Timeout(q) \/ clearPending(q) \/ ReportInline(q)

Next ==
  \/ \E q \in Queries : Register(q) \/ SendStep(q)
  \/ \E q \in Queries, k \in Kinds : InlineCUSD(q, k) \/ HandleURC(q, k)
  \/ SendReply \/ onResponse

Spec == Init /\ [][Next]_vars

(* The engine gives a command its turn and times it out; the timer of a    *)
(* wait fires; the network owes nothing.                                   *)
FairSpec == Spec /\ \A q \in Queries : WF_vars(SendStep(q))
-----------------------------------------------------------------------------
(* Properties.                                                             *)

(* The registered channel belongs to a Send that has not returned: no      *)
(* reply is taken for a query nobody waits for.                            *)
ChannelIsAwaited == pendingCh # NIL => pc[pendingCh] \notin {"idle", "done"}

(* A channel is given at most one reply, so the non-blocking send of       *)
(* HandleURC never drops one.                                              *)
NoReplyDropped == urc # NIL /\ urc.at = "send" /\ urc.ch # NIL => chan[urc.ch] = NIL

(* Every text a Send returns is reported to onResponse too, also when the  *)
(* caller returns before the URC goroutine gets there.                     *)
ReturnedIsReported ==
  \A q \in Queries : pc[q] = "done" /\ result[q] \in Queries =>
    result[q] \in reported \/ (urc # NIL /\ urc.reply = result[q])

(* Every Send returns, whatever the modem and the network do.              *)
EverySendReturns == \A q \in Queries : pc[q] # "idle" ~> pc[q] = "done"

(* ussd/errors.go: ErrUSSDNotSupported is returned when the network says   *)
(* that it does not support the request: a Send that is waiting does not   *)
(* sit out its time-out instead.                                           *)
UnsupportedIsReturned ==
  \A q \in Queries : result[q] = "timeout" => kind[q] # "unsupported"
-----------------------------------------------------------------------------
(* The inductive strengthening the proofs use: a channel is registered,    *)
(* held by the URC goroutine or holds its reply, never two of these.       *)
OneHolder ==
  /\ pendingCh # NIL => /\ pc[pendingCh] \notin {"idle", "report", "done"}
                        /\ chan[pendingCh] = NIL
                        /\ urc # NIL => urc.ch # pendingCh
  /\ urc # NIL /\ urc.ch # NIL => pc[urc.ch] # "idle" /\ (urc.at = "send" => chan[urc.ch] = NIL)
  /\ \A q \in Queries : pc[q] = "idle" => chan[q] = NIL

(* ... and every text a channel or a result holds was reported, or is held *)
(* by the URC goroutine.                                                   *)
ReportedOrHeld ==
  /\ ReturnedIsReported
  /\ \A q \in Queries : chan[q] # NIL =>
       chan[q] \in reported \/ (urc # NIL /\ urc.reply = chan[q])
=============================================================================
