------------------------------ MODULE SMSSend ------------------------------
(***************************************************************************)
(* Outgoing messages: a request to the pool (internal/pool, cmd pool.go),  *)
(* which tries the ready modems in the order of its strategy, or a request *)
(* to one modem (gateway_subscriptions.go, gateway.go), which may name     *)
(* several recipients; SMSService.Send with its filter and its sliding     *)
(* window rate limiter (internal/security); the parts of the message, sent *)
(* one by one; the account that is charged.                                *)
(*                                                                         *)
(* The modem answers a part, refuses it, or takes it and its answer is     *)
(* lost.  Status, signal and operator of a modem are what its last poll    *)
(* found, anything at the time a request looks at them.  The windows of a  *)
(* minute, an hour and a day differ in length and limit only.  A history   *)
(* of the limiter is a set of checks that have passed, which are numbered: *)
(* the code keeps their times in order and looks at how many there are.    *)
(***************************************************************************)
EXTENDS Integers, Sequences, FiniteSets, Functions

CONSTANTS
  NModems,       \* registered in the pool, in this order
  PoolRequests, DirectRequests, Dests, Blocked,
  Strategies,    \* the configured strategy is one of these
  Parts,         \* PDUs of a message
  Span, MaxPerSpan,     \* a global window and its limit
  NumSpan, MaxPerNumber,  \* the window and the limit per number
  Cooldown,
  MaxNow         \* bound: time

ASSUME SMSSendAssumption ==
  /\ NModems \in Nat \ {0} /\ Parts \in Nat \ {0} /\ Blocked \subseteq Dests
  /\ Strategies \subseteq {"round-robin", "failover", "best-signal", "operator-match"}
  /\ {Span, MaxPerSpan, NumSpan, MaxPerNumber, Cooldown, MaxNow} \subseteq Nat
  /\ IsFiniteSet(Dests)

Modems == 1..NModems
Requests == PoolRequests \cup DirectRequests
Items == Requests \X Dests

VARIABLES
  strategy, rrIndex,  \* the pool
  now,                \* the clock
  job,                \* per request: the goroutine that works on it
  out,                \* per item: what is reported
  whole,              \* per item: modems through which the network took all parts
  charged,            \* <<item, modem>> for which RecordSMS was called
  hist, numHist,      \* per modem: a global history of its limiter, and the
                      \* history of each number
  until,              \* per modem: cooldownUntil
  passed              \* history: the checks each limiter has let pass

poolVars == <<strategy, rrIndex>>
limitVars == <<hist, numHist, until, passed>>
vars == <<poolVars, now, job, out, whole, charged, limitVars>>

Entries == [no : Nat, at : 0..MaxNow, to : Dests]
Jobs == [pc : {"idle", "target", "check", "send", "lost", "record", "done"},
         to : Seq(Dests), cands : Seq(Modems), part : 1..Parts]

TypeOK ==
  /\ strategy \in Strategies /\ rrIndex \in Nat /\ now \in 0..MaxNow
  /\ job \in [Requests -> Jobs]
  /\ \A r \in Requests : job[r].pc \notin {"idle", "done"} => job[r].to # <<>> /\ job[r].cands # <<>>
  /\ out \in [Items -> {"new", "pending", "accepted", "sent", "failed"}]
  /\ whole \in [Items -> SUBSET Modems]
  /\ charged \subseteq Items \X Modems
  /\ hist \in [Modems -> SUBSET Entries] /\ passed \in [Modems -> SUBSET Entries]
  /\ numHist \in [Modems -> [Dests -> SUBSET Entries]]
  /\ until \in [Modems -> 0..(MaxNow + Cooldown)]

(* Earlier requests have left the index anywhere.                          *)
Init ==
  /\ strategy \in Strategies /\ now = 0
  /\ rrIndex \in IF strategy = "round-robin" THEN Modems ELSE {0}
  /\ job = [r \in Requests |-> [pc |-> "idle", to |-> <<>>, cands |-> <<>>, part |-> 1]]
  /\ out = [i \in Items |-> "new"]
  /\ whole = [i \in Items |-> {}] /\ charged = {}
  /\ hist = [m \in Modems |-> {}] /\ numHist = [m \in Modems |-> [d \in Dests |-> {}]]
  /\ until = [m \in Modems |-> 0] /\ passed = [m \in Modems |-> {}]
-----------------------------------------------------------------------------
(* The pool.                                                               *)

(* The lists of ready modems, in the order of their registration.          *)
Ready == {s \in UNION {[1..k -> Modems] : k \in 0..NModems} : \A i, j \in DOMAIN s : i < j => s[i] < s[j]}

(* The k-th of the list before the others.                                 *)
PrependCandidate(list, k) ==
  [j \in DOMAIN list |-> list[IF j = 1 THEN k ELSE IF j <= k THEN j - 1 ELSE j]]

(* The place of the first of the strongest.                                *)
PickBestSignal(signal) ==
  {k \in DOMAIN signal : /\ \A j \in DOMAIN signal : signal[j] <= signal[k]
                         /\ \A j \in 1..(k - 1) : signal[j] < signal[k]}

(* The place of the first whose operator is the recipient's, or the first. *)
PickOperatorMatch(matches) ==
  IF matches = {} THEN {1} ELSE {k \in matches : \A j \in matches : k <= j}

Rotation(ready, index) ==
  LET start == index % Len(ready)
  IN  [k \in DOMAIN ready |-> ready[IF start + k <= Len(ready) THEN start + k ELSE start + k - Len(ready)]]

(* The orders in which the ready modems may be tried.                      *)
OrderCandidates(ready) ==
  CASE strategy = "failover" -> {ready}
    [] strategy = "best-signal" ->
         UNION {{PrependCandidate(ready, k) : k \in PickBestSignal(s)} : s \in [DOMAIN ready -> 0..1]}
    [] strategy = "operator-match" ->
         UNION {{PrependCandidate(ready, k) : k \in PickOperatorMatch(ms)} : ms \in SUBSET DOMAIN ready}
    [] OTHER -> {Rotation(ready, rrIndex)}

Item(r) == <<r, Head(job[r].to)>>
Modem(r) == Head(job[r].cands)
-----------------------------------------------------------------------------
(* Requests.                                                               *)

Finished == [pc |-> "done", to |-> <<>>, cands |-> <<>>, part |-> 1]

(* p.SendSMS: Candidates, or ErrNoReadyModems.                             *)
PoolRequest(r, d) ==
  /\ r \in PoolRequests /\ job[r].pc = "idle"
  /\ \E ready \in Ready :
       IF ready = <<>>
         THEN /\ job' = [job EXCEPT ![r] = Finished]
              /\ UNCHANGED <<out, rrIndex>>
         ELSE /\ \E cs \in OrderCandidates(ready) :
                   job' = [job EXCEPT ![r] = [pc |-> "check", to |-> <<d>>, cands |-> cs, part |-> 1]]
              /\ out' = [out EXCEPT ![<<r, d>>] = "pending"]
              /\ rrIndex' = IF strategy = "round-robin" THEN rrIndex + 1 ELSE rrIndex
  /\ UNCHANGED <<strategy, now, whole, charged, limitVars>>

(* A request to one modem, for one recipient or for the alert recipients.  *)
DirectRequest(r, m, targets) ==
  /\ r \in DirectRequests /\ job[r].pc = "idle"
  /\ job' = [job EXCEPT ![r] = [pc |-> "target", to |-> targets, cands |-> <<m>>, part |-> 1]]
  /\ UNCHANGED <<poolVars, now, out, whole, charged, limitVars>>

(* The loop over the targets.                                              *)
NextTarget(r) ==
  /\ job[r].pc = "target"
  /\ job' = [job EXCEPT ![r].pc = "check"]
  /\ out' = [out EXCEPT ![Item(r)] = "pending"]
  /\ UNCHANGED <<poolVars, now, whole, charged, limitVars>>

(* The end of this target: the next one has the same only candidate.       *)
Leave(r) ==
  job' = [job EXCEPT ![r] = IF Len(job[r].to) = 1 THEN Finished
                            ELSE [pc |-> "target", to |-> Tail(job[r].to), cands |-> job[r].cands, part |-> 1]]

(* Mutant: the loop stops at the first recipient that fails.               *)
SendFails_GivesUp(r) ==
  IF Len(job[r].cands) > 1
    THEN /\ job' = [job EXCEPT ![r] = [pc |-> "check", to |-> job[r].to, cands |-> Tail(job[r].cands), part |-> 1]]
         /\ UNCHANGED out
    ELSE /\ job' = [job EXCEPT ![r] = Finished]
         /\ out' = [out EXCEPT ![Item(r)] = "failed"]

(* Send has failed: the next candidate; after the last one the end.        *)
SendFails(r) ==
  IF Len(job[r].cands) > 1
    THEN /\ job' = [job EXCEPT ![r] = [pc |-> "check", to |-> job[r].to, cands |-> Tail(job[r].cands), part |-> 1]]
         /\ UNCHANGED out
    ELSE /\ Leave(r)
         /\ out' = [out EXCEPT ![Item(r)] = "failed"]
-----------------------------------------------------------------------------
(* SMSService.Send.                                                        *)

(* Mutant: the window begins one unit too late.                            *)
Recent_Short(h, span) == {e \in h : e.at > now - span}

(* pruneOlderThan keeps what is not before the cutoff.                     *)
Recent(h, span) == {e \in h : e.at >= now - span}

(* A limit of zero means no limit.                                         *)
Reached(h, limit) == limit > 0 /\ Cardinality(h) >= limit

(* checkLimits: the global windows, then that of the number; each history  *)
(* is pruned before it is looked at.                                       *)
Exceeded(m, d) ==
  /\ hist' = [hist EXCEPT ![m] = Recent(@, Span)]
  /\ \/ Reached(hist'[m], MaxPerSpan) /\ UNCHANGED numHist
     \/ /\ ~Reached(hist'[m], MaxPerSpan)
        /\ numHist' = [numHist EXCEPT ![m][d] = Recent(@, NumSpan)]
        /\ Reached(numHist'[m][d], MaxPerNumber)
  /\ until' = [until EXCEPT ![m] = now + Cooldown]
  /\ UNCHANGED passed

(* recordSend, after the histories were pruned.                            *)
Allowed(m, d) ==
  LET e == [no |-> Cardinality(passed[m]) + 1, at |-> now, to |-> d]
  IN  /\ ~Reached(Recent(hist[m], Span), MaxPerSpan)
      /\ ~Reached(Recent(numHist[m][d], NumSpan), MaxPerNumber)
      /\ hist' = [hist EXCEPT ![m] = Recent(@, Span) \cup {e}]
      /\ numHist' = [numHist EXCEPT ![m][d] = Recent(@, NumSpan) \cup {e}]
      /\ passed' = [passed EXCEPT ![m] = @ \cup {e}]
      /\ UNCHANGED until

(* The filter, then the limiter; a limit that is exceeded starts the       *)
(* cooldown, a check that passes is counted whatever comes of it.          *)
Check(r) ==
  /\ job[r].pc = "check"
  /\ LET m == Modem(r)  d == Head(job[r].to)
         barred == d \in Blocked \/ now < until[m]
     IN  \/ barred /\ SendFails(r) /\ UNCHANGED limitVars
         \/ ~barred /\ Exceeded(m, d) /\ SendFails(r)
         \/ ~barred /\ Allowed(m, d) /\ job' = [job EXCEPT ![r].pc = "send"] /\ UNCHANGED out
  /\ UNCHANGED <<poolVars, now, whole, charged>>

(* The network has taken the last part.                                    *)
Taken(r) == whole' = [whole EXCEPT ![Item(r)] = @ \cup {Modem(r)}]

(* Mutant: a part that is refused does not end the sending.                *)
Refused_GoesOn(r) ==
  /\ job[r].pc = "send"
  /\ IF job[r].part < Parts
       THEN job' = [job EXCEPT ![r].part = @ + 1] /\ UNCHANGED <<out, whole>>
       ELSE /\ job' = [job EXCEPT ![r].pc = "record"]
            /\ out' = [out EXCEPT ![Item(r)] = "accepted"]
            /\ UNCHANGED whole
  /\ UNCHANGED <<poolVars, now, charged, limitVars>>

Answered(r) ==
  /\ job[r].pc = "send"
  /\ IF job[r].part < Parts
       THEN job' = [job EXCEPT ![r].part = @ + 1] /\ UNCHANGED <<out, whole>>
       ELSE /\ job' = [job EXCEPT ![r].pc = "record"]
            /\ out' = [out EXCEPT ![Item(r)] = "accepted"]
            /\ Taken(r)
  /\ UNCHANGED <<poolVars, now, charged, limitVars>>

(* An error answer, a part that never reached the modem, or the timeout.   *)
Refused(r) ==
  /\ job[r].pc \in {"send", "lost"}
  /\ SendFails(r)
  /\ UNCHANGED <<poolVars, now, whole, charged, limitVars>>

(* The part is sent, its +CMGS is not seen in time.                        *)
AnswerLost(r) ==
  /\ job[r].pc = "send"
  /\ job' = [job EXCEPT ![r].pc = "lost"]
  /\ IF job[r].part = Parts THEN Taken(r) ELSE UNCHANGED whole
  /\ UNCHANGED <<poolVars, now, out, charged, limitVars>>

(* Mutant: the pool goes on with the next candidate after a success.       *)
Record_TriesNext(r) ==
  /\ job[r].pc = "record"
  /\ charged' = charged \cup {<<Item(r), Modem(r)>>}
  /\ IF Len(job[r].cands) > 1 THEN SendFails(r)
     ELSE Leave(r) /\ out' = [out EXCEPT ![Item(r)] = "sent"]
  /\ UNCHANGED <<poolVars, now, whole, limitVars>>

(* RecordSMS, and the end of this item; a pool request returns.            *)
Record(r) ==
  /\ job[r].pc = "record"
  /\ charged' = charged \cup {<<Item(r), Modem(r)>>}
  /\ out' = [out EXCEPT ![Item(r)] = "sent"]
  /\ Leave(r)
  /\ UNCHANGED <<poolVars, now, whole, limitVars>>

Tick ==
  /\ now < MaxNow /\ now' = now + 1
  /\ UNCHANGED <<poolVars, job, out, whole, charged, limitVars>>

Work(r) == NextTarget(r) \/ Check(r) \/ Answered(r) \/ Refused(r) \/ AnswerLost(r) \/ Record(r)

(* One recipient, or the alert recipients in the order of their list,      *)
(* which names none twice.                                                 *)
Targets == {s \in UNION {[1..k -> Dests] : k \in 1..Cardinality(Dests)} : IsInjective(s)}

Submit(r) ==
  \/ \E d \in Dests : PoolRequest(r, d)
  \/ \E m \in Modems, ts \in Targets : DirectRequest(r, m, ts)

Next == (\E r \in Requests : Submit(r) \/ Work(r)) \/ Tick

Spec == Init /\ [][Next]_vars

(* Every call to the modem returns: SendPDU has a timeout of its own.      *)
FairSpec == Spec /\ \A r \in Requests : WF_vars(Work(r))
-----------------------------------------------------------------------------
Abs == INSTANCE OutgoingSMS WITH
         Items <- Items, MaxCopies <- NModems,
         state <- out, copies <- [i \in Items |-> Cardinality(whole[i])]

(* The detailed path implements its promise for every item, whatever the   *)
(* requests that run beside it: sent means that the network has taken all  *)
(* parts through one modem that answered, no copy follows an answered one, *)
(* and nothing is sent for an item that has been reported.                 *)
KeepsPromise == Abs!AbsSpec

(* Every recipient of a request that is worked on is in the end reported   *)
(* sent or failed, also when the messages to those before it have failed:  *)
(* none is dropped unreported, and every request runs out of them.         *)
EveryTargetEnds ==
  /\ [][\A i \in Items : i[2] \in Range(job[i[1]].to) =>
          i[2] \in Range(job[i[1]].to)' \/ out'[i] \in {"sent", "failed"}]_vars
  /\ <>[](\A r \in Requests : job[r].to = <<>>)

(* A message is charged to one modem, one that really sent all of it, and  *)
(* only once it was answered.                                              *)
ChargedIsSent ==
  \A i \in Items :
    LET ms == {m \in Modems : <<i, m>> \in charged}
    IN  /\ ms \subseteq whole[i]
        /\ Cardinality(ms) = IF out[i] = "sent" THEN 1 ELSE 0

(* The sliding windows slide: no interval of the length of a window, ends  *)
(* included, holds more checks that passed than its limit, for all numbers *)
(* together and for each one.                                              *)
WindowsSlide ==
  \A m \in Modems, t \in 0..MaxNow :
    LET in(len) == {e \in passed[m] : e.at >= t /\ e.at <= t + len}
    IN  /\ MaxPerSpan > 0 => Cardinality(in(Span)) <= MaxPerSpan
        /\ MaxPerNumber > 0 => \A d \in Dests : Cardinality({e \in in(NumSpan) : e.to = d}) <= MaxPerNumber
-----------------------------------------------------------------------------
(* The inductive strengthening the proofs use.                             *)

(* What a request r in state j has still to do is new, and the modems it   *)
(* has still to try have not sent the item it works on.                    *)
Fits(r, j, o, w) ==
  LET i == <<r, Head(j.to)>>
  IN  /\ IsInjective(j.to) /\ IsInjective(j.cands)
      /\ j.pc = "idle" => \A d \in Dests : o[<<r, d>>] = "new"
      /\ \A k \in DOMAIN j.to : k > 1 \/ j.pc = "target" => o[<<r, j.to[k]>>] = "new"
      /\ j.pc \in {"check", "send", "lost"} => o[i] = "pending"
      /\ j.pc = "record" => o[i] = "accepted" /\ Head(j.cands) \in w[i]
      /\ j.pc \in {"check", "send", "lost"} =>
           \A k \in DOMAIN j.cands : k > 1 \/ j.pc # "lost" => j.cands[k] \notin w[i]

JobsFit == \A r \in Requests : Fits(r, job[r], out, whole)

NewIsUnsent == \A i \in Items : out[i] = "new" => whole[i] = {}

(* The histories have forgotten no check that is still in their window.    *)
Remembered(m) ==
  /\ IsFiniteSet(passed[m]) /\ hist[m] \subseteq passed[m]
  /\ \A d \in Dests : numHist[m][d] \subseteq {e \in passed[m] : e.to = d}
  /\ \A e \in passed[m] :
       /\ e.no <= Cardinality(passed[m]) /\ e.at <= now
       /\ e.at >= now - Span => e \in hist[m]
       /\ e.at >= now - NumSpan => e \in numHist[m][e.to]

HistoryKept == \A m \in Modems : Remembered(m)
=============================================================================
