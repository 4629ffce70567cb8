---------------------------- MODULE ModemRunner ----------------------------
(***************************************************************************)
(* One ModemRunner: the connect / run / back-off loop of                   *)
(* internal/services/gateway.go, the status service it starts for every    *)
(* session (status.go), the state both publish, and the MQTT command       *)
(* handlers every session subscribes (gateway_subscriptions.go).           *)
(*                                                                         *)
(* A session is one successful opening of the port; it names its context,  *)
(* its engine and services and its status goroutine.  Updating lastHealth  *)
(* and publishing the retained health are two steps, as in the code.  The  *)
(* statuses a poll may find (ready, degraded, not_ready) are one, "seen":  *)
(* a poll that gets no answer at all repeats the values it remembers.  The *)
(* MQTT client is connected (its losses are in MQTTClient), appends the    *)
(* handlers of a topic (client_tcp.go) or replaces them (paho).            *)
(***************************************************************************)
EXTENDS Integers, FiniteSets

CONSTANTS
  MaxSessions,             \* bound: sessions opened
  MinBackoff, MaxBackoff,  \* 3 s and 60 s in the code
  FailLimit,               \* failed polls that end a session: 3
  Appends                  \* does the MQTT client keep the handlers of earlier Subscribes?

Sessions == 1..MaxSessions

ASSUME RunnerAssumption ==
  /\ MaxSessions \in Nat \ {0} /\ FailLimit \in Nat \ {0}
  /\ MinBackoff \in Nat \ {0} /\ MaxBackoff \in Nat /\ MinBackoff <= MaxBackoff
  /\ Appends \in BOOLEAN

VARIABLES
  run, after,        \* where Run is; where it goes after publishDisconnectedState
  n,                 \* the latest session
  backoff,
  ctx, cancelled,    \* shutdown requested; sessions whose child context is cancelled
  present,           \* the modem is plugged in and answers
  health, retained,  \* lastHealth.Status; the retained health message
  poll,              \* per session: its status goroutine
  fails,             \* per session: failCount
  handlers, command  \* sessions whose handlers are subscribed; per session: a command

runVars == <<run, after, n, backoff>>
pollVars == <<poll, fails>>
vars == <<runVars, ctx, cancelled, present, health, retained, pollVars, handlers, command>>

Status == {"seen", "disconnected"}

TypeOK ==
  /\ run \in {"loop", "open", "init", "up", "ended", "mark", "tell", "backoff", "stopped"}
  /\ after \in {"loop", "backoff", "stopped"}
  /\ n \in 0..MaxSessions
  /\ backoff \in MinBackoff..MaxBackoff
  /\ ctx \in BOOLEAN /\ present \in BOOLEAN /\ cancelled \subseteq Sessions
  /\ health \in Status /\ retained \in Status
  /\ poll \in [Sessions -> {"none", "select", "read", "onHealth", "publish"}]
  /\ fails \in [Sessions -> 0..FailLimit]
  /\ handlers \subseteq Sessions
  /\ command \in [Sessions -> {"none", "run", "sent", "failed"}]

(* Run starts with publishDisconnectedState.  An empty lastHealth is shown *)
(* as "ready" (ModemRunner.Status); the retained message may be an old one. *)
Init ==
  /\ run = "mark" /\ after = "loop" /\ n = 0 /\ backoff = MinBackoff
  /\ ctx = FALSE /\ cancelled = {} /\ present \in BOOLEAN
  /\ health = "seen" /\ retained \in Status
  /\ poll = [s \in Sessions |-> "none"] /\ fails = [s \in Sessions |-> 0]
  /\ handlers = {} /\ command = [s \in Sessions |-> "none"]

(* Mutant: runOnce does not close the port when it returns.                *)
EngineOpen_NotClosed(s) == s \in 1..n

(* The deferred closer: the port is open while runOnce runs.               *)
EngineOpen(s) == s = n /\ run \in {"init", "up"}

Done(s) == ctx \/ s \in cancelled
-----------------------------------------------------------------------------
(* Run and runOnce.                                                        *)

Loop ==
  /\ run = "loop"
  /\ IF ctx THEN run' = "mark" /\ after' = "stopped"
            ELSE run' = "open" /\ UNCHANGED after
  /\ UNCHANGED <<n, backoff, ctx, cancelled, present, health, retained, pollVars,
                 handlers, command>>

Open ==
  /\ run = "open"
  /\ \/ /\ present /\ n < MaxSessions
        /\ n' = n + 1 /\ run' = "init"
     \/ run' = "ended" /\ UNCHANGED n
  /\ UNCHANGED <<after, backoff, ctx, cancelled, present, health, retained, pollVars,
                 handlers, command>>

(* createDriver, driver.Init, wireServices, subscribeMQTT; the status      *)
(* goroutine begins with a poll.                                           *)
InitDriver ==
  /\ run = "init"
  /\ \/ /\ present
        /\ run' = "up"
        /\ poll' = [poll EXCEPT ![n] = "read"]
        /\ handlers' = IF Appends THEN handlers \cup {n} ELSE {n}
        /\ UNCHANGED cancelled
     \/ /\ run' = "ended"
        /\ cancelled' = cancelled \cup {n}
        /\ UNCHANGED <<poll, handlers>>
  /\ UNCHANGED <<after, n, backoff, ctx, present, health, retained, fails,
                 command>>

(* Mutant: a cancelled context does not end the session.                   *)
SessionEnds_EngineOnly ==
  /\ run = "up" /\ ~present
  /\ run' = "ended"
  /\ cancelled' = cancelled \cup {n}
  /\ UNCHANGED <<after, n, backoff, ctx, present, health, retained, pollVars, handlers,
                 command>>

(* The final select: a context, or the engine's error; a modem that has    *)
(* gone need not be noticed by the engine (EngineError).                   *)
SessionEnds ==
  /\ run = "up" /\ Done(n)
  /\ run' = "ended"
  /\ cancelled' = cancelled \cup {n}
  /\ UNCHANGED <<after, n, backoff, ctx, present, health, retained, pollVars, handlers,
                 command>>

EngineError ==
  /\ run = "up" /\ ~present
  /\ run' = "ended"
  /\ cancelled' = cancelled \cup {n}
  /\ UNCHANGED <<after, n, backoff, ctx, present, health, retained, pollVars, handlers,
                 command>>

(* After runOnce; a session of more than five minutes resets the delay.    *)
Ended ==
  /\ run = "ended"
  /\ run' = "mark"
  /\ IF ctx THEN after' = "stopped" /\ UNCHANGED backoff
            ELSE after' = "backoff" /\ backoff' \in {backoff, MinBackoff}
  /\ UNCHANGED <<n, ctx, cancelled, present, health, retained, pollVars, handlers, command>>

Min2(a, b) == IF a < b THEN a ELSE b
Max2(a, b) == IF a > b THEN a ELSE b

(* Doubled, at most MaxBackoff, less up to a fifth, at least MinBackoff.   *)
NextBackoffs(b) ==
  LET d == Min2(2 * b, MaxBackoff) IN {Max2(d - j, MinBackoff) : j \in 0..(d \div 5)}

Backoff ==
  /\ run = "backoff"
  /\ \/ /\ ctx
        /\ run' = "mark" /\ after' = "stopped"
        /\ UNCHANGED backoff
     \/ /\ run' = "loop"
        /\ backoff' \in NextBackoffs(backoff)
        /\ UNCHANGED after
  /\ UNCHANGED <<n, ctx, cancelled, present, health, retained, pollVars, handlers, command>>

(* publishDisconnectedState: updateHealth, then the retained message.      *)
Mark ==
  /\ run = "mark" /\ run' = "tell"
  /\ health' = "disconnected"
  /\ UNCHANGED <<after, n, backoff, ctx, cancelled, present, retained, pollVars, handlers,
                 command>>

Tell ==
  /\ run = "tell" /\ run' = after /\ after' = "loop"
  /\ retained' = "disconnected"
  /\ UNCHANGED <<n, backoff, ctx, cancelled, present, health, pollVars, handlers,
                 command>>

RunStep == Loop \/ Open \/ InitDriver \/ SessionEnds \/ Ended \/ Backoff \/ Mark \/ Tell

-----------------------------------------------------------------------------
(* StatusService of session s.                                             *)

(* Mutant: the count starts again whenever the limit is not reached.       *)
updateFailCount_Resets(s, answered) == IF answered THEN 0 ELSE 1

(* Counted up to the limit, beyond which only the repetition goes on.      *)
updateFailCount(s, answered) == IF answered THEN 0 ELSE Min2(fails[s] + 1, FailLimit)

(* The four queries.  answered: SignalQuality or SIMStatus got an answer.  *)
Poll(s) ==
  /\ poll[s] = "read"
  /\ \E answered \in BOOLEAN :
       /\ answered => EngineOpen(s) /\ present
       /\ fails' = [fails EXCEPT ![s] = updateFailCount(s, answered)]
       /\ cancelled' = IF fails'[s] = FailLimit THEN cancelled \cup {s} ELSE cancelled
  /\ poll' = [poll EXCEPT ![s] = "onHealth"]
  /\ UNCHANGED <<runVars, ctx, present, health, retained, handlers, command>>

(* onHealth: updateHealth, then the retained message.                      *)
OnHealth(s) ==
  /\ poll[s] = "onHealth"
  /\ poll' = [poll EXCEPT ![s] = "publish"]
  /\ health' = "seen"
  /\ UNCHANGED <<runVars, ctx, cancelled, present, retained, fails, handlers,
                 command>>

PublishHealth(s) ==
  /\ poll[s] = "publish"
  /\ poll' = [poll EXCEPT ![s] = "select"]
  /\ retained' = "seen"
  /\ UNCHANGED <<runVars, ctx, cancelled, present, health, fails, handlers,
                 command>>

(* The ticker and a cancelled context may both be ready: either is taken.  *)
Tick(s) ==
  /\ poll[s] = "select"
  /\ poll' = [poll EXCEPT ![s] = "read"]
  /\ UNCHANGED <<runVars, ctx, cancelled, present, health, retained, fails,
                 handlers, command>>

PollEnds(s) ==
  /\ poll[s] = "select" /\ Done(s)
  /\ poll' = [poll EXCEPT ![s] = "none"]
  /\ fails' = [fails EXCEPT ![s] = 0]
  /\ UNCHANGED <<runVars, ctx, cancelled, present, health, retained, handlers, command>>

PollStep(s) == Poll(s) \/ OnHealth(s) \/ PublishHealth(s) \/ Tick(s)

-----------------------------------------------------------------------------
(* One command, given to every handler its topic has.                      *)
Deliver ==
  /\ handlers # {} /\ \A s \in Sessions : command[s] = "none"
  /\ command' = [s \in Sessions |-> IF s \in handlers THEN "run" ELSE "none"]
  /\ UNCHANGED <<runVars, ctx, cancelled, present, health, retained, pollVars, handlers>>

(* The handler uses the services of its own session.                       *)
Execute(s) ==
  /\ command[s] = "run"
  /\ \/ /\ EngineOpen(s) /\ present
        /\ command' = [command EXCEPT ![s] = "sent"]
     \/ command' = [command EXCEPT ![s] = "failed"]
  /\ UNCHANGED <<runVars, ctx, cancelled, present, health, retained, pollVars, handlers>>

Plug ==
  /\ present' = ~present
  /\ UNCHANGED <<runVars, ctx, cancelled, health, retained, pollVars, handlers, command>>

Shutdown ==
  /\ ~ctx /\ ctx' = TRUE
  /\ UNCHANGED <<runVars, cancelled, present, health, retained, pollVars, handlers, command>>

Next ==
  \/ RunStep \/ EngineError \/ Deliver \/ Plug \/ Shutdown
  \/ \E s \in Sessions : PollStep(s) \/ PollEnds(s) \/ Execute(s)

Spec == Init /\ [][Next]_vars

(* Run and the status goroutines go on, and a select with a cancelled      *)
(* context takes it in the end.  That the engine reports an error is not   *)
(* assumed: a silent modem must be found by the polls.                     *)
Fairness ==
  /\ WF_vars(RunStep)
  /\ \A s \in Sessions : WF_vars(PollStep(s)) /\ SF_vars(PollEnds(s))

FairSpec == Spec /\ Fairness
-----------------------------------------------------------------------------
(* Properties.                                                             *)

(* However often the modem comes and goes, a command is sent to the modem  *)
(* by at most one of the handlers that sessions have left subscribed.      *)
SentOnce == Cardinality({s \in Sessions : command[s] = "sent"}) <= 1

(* A modem that stays away is shown as disconnected in the end, whether    *)
(* the engine notices or only the polls, and although polls of an earlier  *)
(* session may still publish what they remember.                           *)
AbsentIsShown ==
  <>[](~present /\ ~ctx) => <>[](health = "disconnected" /\ retained = "disconnected")

(* A shutdown ends Run, wherever it is: main waits for it.                 *)
ShutdownEndsRun == ctx ~> run = "stopped"

(* CHANGELOG.md: "publish disconnected state and update Home Assistant     *)
(* when modem is offline".  Between sessions the modem is shown as         *)
(* disconnected.                                                           *)
OfflineIsShown == run = "backoff" => health = "disconnected" /\ retained = "disconnected"
=============================================================================
