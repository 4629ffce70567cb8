---------------------------- MODULE RunnerProofs ----------------------------
(***************************************************************************)
(* Proofs about what a ModemRunner keeps over its sessions.  ModemRunner,  *)
(* for any number of sessions, any bounds of the retry delay and both      *)
(* kinds of MQTT client: the types, and that a command is sent once.       *)
(* Tariff, for any number of managers and restarts, any kinds of counters  *)
(* and any quota: the manager of a session tells of every quota it sees    *)
(* used up and of every low balance, once, and the file keeps what an only *)
(* manager has saved.                                                      *)
(***************************************************************************)
EXTENDS ModemRunner, Tariff, FiniteSetTheorems, TLAPS

USE DEF Sessions, runVars, pollVars

(* The retry delay: doubled, shortened by jitter and bounded on both sides. *)
LEMMA BackoffBounds ==
  ASSUME NEW b \in MinBackoff..MaxBackoff, NEW d \in NextBackoffs(b)
  PROVE  d \in MinBackoff..MaxBackoff
<1> USE RunnerAssumption DEF Min2, Max2
<1> DEFINE top == Min2(2 * b, MaxBackoff)
<1>1. top \in Nat /\ top <= MaxBackoff
  OBVIOUS
<1>2. \A j \in 0..(top \div 5) : j \in Nat /\ Max2(top - j, MinBackoff) \in MinBackoff..MaxBackoff
  BY <1>1
<1> QED BY <1>2 DEF NextBackoffs

(* The count of failed polls stays at its limit.                           *)
LEMMA FailCountBound ==
  ASSUME NEW s, fails[s] \in 0..FailLimit, NEW answered \in BOOLEAN
  PROVE  updateFailCount(s, answered) \in 0..FailLimit
BY RunnerAssumption DEF updateFailCount, Min2

(* The types hold at the start.                                            *)
LEMMA RunnerTypeInit == Init => TypeOK
<1> SUFFICES ASSUME Init PROVE TypeOK
  OBVIOUS
<1>1. n \in 0..MaxSessions /\ backoff \in MinBackoff..MaxBackoff /\ 0 \in 0..FailLimit
  BY RunnerAssumption DEF Init
<1> QED BY <1>1 DEF Init, TypeOK, Status

(* A session whose driver is being initialised or that is up has been      *)
(* opened.                                                                 *)
Opened == run \in {"init", "up"} => n \in Sessions

(* The handlers that run a command belong to sessions opened so far, and a *)
(* command is only sent by the latest of those that were given it.         *)
LatestSends ==
  /\ handlers \subseteq 1..n
  /\ \A t \in Sessions : command[t] # "none" => t <= n
  /\ \A s, t \in Sessions : command[s] = "sent" /\ command[t] # "none" => t <= s

RunInv == TypeOK /\ Opened /\ LatestSends

(* So does the whole invariant: no session, no handler, no command.        *)
LEMMA RunInit == Init => RunInv
<1> SUFFICES ASSUME Init PROVE RunInv
  OBVIOUS
<1>1. Opened /\ LatestSends
  BY DEF Init, Opened, LatestSends
<1> QED BY <1>1, RunnerTypeInit DEF RunInv

(* The steps of Run: a new session is above all that have a command.       *)
LEMMA RunStepRun ==
  ASSUME RunInv, RunStep \/ EngineError PROVE RunInv'
<1> USE RunnerAssumption DEF RunInv
<1>1. CASE Loop
  BY <1>1 DEF Loop, TypeOK, Opened, LatestSends
<1>2. CASE Open
  <2>1. n' \in 0..MaxSessions /\ n <= n' /\ (run' = "init" => n' \in Sessions) /\ run' \in {"init", "ended"}
    BY <1>2 DEF Open, TypeOK
  <2>2. TypeOK' /\ Opened'
    BY <1>2, <2>1 DEF Open, TypeOK, Opened
  <2>3. LatestSends'
    BY <1>2, <2>1 DEF Open, TypeOK, LatestSends
  <2> QED BY <2>2, <2>3
<1>3. CASE InitDriver
  <2>1. n \in Sessions
    BY <1>3 DEF InitDriver, Opened
  <2>2. /\ run' \in {"up", "ended"}
        /\ poll' \in [Sessions -> {"none", "select", "read", "onHealth", "publish"}]
        /\ handlers' \subseteq Sessions /\ cancelled' \subseteq Sessions
    BY <1>3, <2>1 DEF InitDriver, TypeOK
  <2>3. TypeOK' /\ Opened'
    BY <1>3, <2>1, <2>2 DEF InitDriver, TypeOK, Opened
  <2>4. LatestSends'
    <3>1. n \in 1..n
      BY <2>1
    <3>2. n' = n /\ command' = command /\ handlers' \in {handlers, handlers \cup {n}, {n}}
      BY <1>3 DEF InitDriver
    <3>3. handlers' \subseteq 1..n
      BY <3>1, <3>2, Zenon DEF LatestSends
    <3> QED BY <3>2, <3>3 DEF LatestSends
  <2> QED BY <2>3, <2>4
<1>4. CASE SessionEnds \/ EngineError
  BY <1>4 DEF SessionEnds, EngineError, TypeOK, Opened, LatestSends
<1>5. CASE Ended
  BY <1>5 DEF Ended, TypeOK, Opened, LatestSends
<1>6. CASE Backoff
  <2>1. backoff' \in MinBackoff..MaxBackoff
    BY <1>6, BackoffBounds DEF Backoff, TypeOK
  <2> QED BY <1>6, <2>1 DEF Backoff, TypeOK, Opened, LatestSends
<1>7. CASE Mark
  BY <1>7 DEF Mark, TypeOK, Status, Opened, LatestSends
<1>8. CASE Tell
  BY <1>8 DEF Tell, TypeOK, Status, Opened, LatestSends
<1> QED BY <1>1, <1>2, <1>3, <1>4, <1>5, <1>6, <1>7, <1>8 DEF RunStep

(* The status goroutines.                                                  *)
LEMMA PollRun ==
  ASSUME RunInv, NEW s \in Sessions, PollStep(s) \/ PollEnds(s) PROVE RunInv'
<1> USE RunnerAssumption DEF RunInv
<1>1. UNCHANGED <<runVars, ctx, present, handlers, command>>
  BY DEF PollStep, PollEnds, Poll, OnHealth, PublishHealth, Tick
<1>2. Opened' /\ LatestSends'
  BY <1>1 DEF Opened, LatestSends
<1>3. TypeOK'
  <2>1. CASE Poll(s)
    <3>1. PICK answered \in BOOLEAN :
            /\ fails' = [fails EXCEPT ![s] = updateFailCount(s, answered)]
            /\ cancelled' = IF fails'[s] = FailLimit THEN cancelled \cup {s} ELSE cancelled
      BY <2>1 DEF Poll
    <3>2. updateFailCount(s, answered) \in 0..FailLimit
      BY FailCountBound DEF TypeOK
    <3> QED BY <2>1, <3>1, <3>2 DEF Poll, TypeOK
  <2>2. CASE OnHealth(s) BY <2>2 DEF OnHealth, TypeOK, Status
  <2>3. CASE PublishHealth(s) BY <2>3 DEF PublishHealth, TypeOK, Status
  <2>4. CASE Tick(s) BY <2>4 DEF Tick, TypeOK
  <2>5. CASE PollEnds(s) BY <2>5 DEF PollEnds, TypeOK
  <2> QED BY <2>1, <2>2, <2>3, <2>4, <2>5 DEF PollStep
<1> QED BY <1>2, <1>3

(* A handler sends only while its own port is open: then its session is    *)
(* the latest.                                                             *)
LEMMA ExecuteRun ==
  ASSUME RunInv, NEW s \in Sessions, Execute(s) PROVE RunInv'
<1> USE RunnerAssumption DEF RunInv
<1>1. /\ command[s] = "run"
      /\ \/ s = n /\ command' = [command EXCEPT ![s] = "sent"]
         \/ command' = [command EXCEPT ![s] = "failed"]
      /\ UNCHANGED <<runVars, ctx, cancelled, present, health, retained, pollVars, handlers>>
  BY DEF Execute, EngineOpen
<1>2. TypeOK' /\ Opened'
  BY <1>1 DEF TypeOK, Opened
<1>3. LatestSends'
  BY <1>1 DEF TypeOK, LatestSends
<1> QED BY <1>2, <1>3

(* A command goes to the handlers that are registered.                     *)
LEMMA DeliverRun ==
  ASSUME RunInv, Deliver PROVE RunInv'
<1> USE RunnerAssumption DEF RunInv
<1>1. TypeOK' /\ Opened'
  BY DEF Deliver, TypeOK, Opened
<1>2. LatestSends'
  BY DEF Deliver, TypeOK, LatestSends
<1> QED BY <1>1, <1>2

(* Every step keeps the invariant.                                         *)
LEMMA NextRun == RunInv /\ [Next]_vars => RunInv'
<1> SUFFICES ASSUME RunInv, [Next]_vars PROVE RunInv'
  OBVIOUS
<1>1. CASE UNCHANGED vars
  BY <1>1 DEF RunInv, TypeOK, Opened, LatestSends, vars
<1>2. CASE Plug \/ Shutdown
  BY <1>2 DEF Plug, Shutdown, RunInv, TypeOK, Opened, LatestSends
<1> QED BY <1>1, <1>2, RunStepRun, PollRun, ExecuteRun, DeliverRun DEF Next

(* Spec keeps RunInv: the base of the theorems below.                      *)
LEMMA RunInvariant == Spec => []RunInv
BY RunInit, NextRun, PTL DEF Spec

(* Every variable of Run and of the status goroutines keeps its type; the  *)
(* retry delay never leaves its bounds, whatever the jitter.               *)
THEOREM RunnerTypeCorrect == Spec => []TypeOK
<1>1. RunInv => TypeOK BY DEF RunInv
<1> QED BY <1>1, RunInvariant, PTL

(* At most one of the sessions whose handlers are still registered sends a *)
(* command, for any number of reconnects.                                  *)
THEOREM CommandsSentOnce == Spec => []SentOnce
<1>1. RunInv => SentOnce
  <2> SUFFICES ASSUME RunInv PROVE SentOnce
    OBVIOUS
  <2> DEFINE S == {s \in Sessions : command[s] = "sent"}
  <2>1. \A s, t \in S : s = t
    BY RunnerAssumption DEF RunInv, LatestSends
  <2>2. CASE S = {}
    BY <2>2, FS_EmptySet DEF SentOnce
  <2>3. CASE S # {}
    <3>1. PICK s \in S : S = {s}
      BY <2>1, <2>3
    <3>2. Cardinality(S) = 1
      BY <3>1, FS_Singleton
    <3> QED BY <3>2 DEF SentOnce
  <2> QED BY <2>2, <2>3
<1> QED BY <1>1, RunInvariant, PTL
-----------------------------------------------------------------------------
(* The accounting.                                                         *)

HIDE DEF Sessions, runVars, pollVars
USE DEF runnerVars, alertVars

(* What the assumption says of the constants.                              *)
LEMMA TariffConstants ==
  /\ MaxMgr \in Nat /\ MaxLives \in Nat /\ MaxOps \in Nat /\ 1 \in Mgrs /\ 1 \in 1..MaxLives
  /\ Mgrs \subseteq Nat /\ Days \in Nat /\ 1 \in Dates /\ Dates \subseteq Nat
  /\ MaxCount \in Nat /\ Limit \in Nat /\ MinBalance \in Nat
  /\ Amounts \subseteq Nat /\ Overrides \subseteq 0..MaxCount
  /\ Balances \subseteq Nat /\ 0 \in Balances
  /\ NIL # TORN /\ NIL \notin State /\ TORN \notin State /\ NIL \notin Commands
  /\ LowBalance \notin Quotas /\ Quotas \subseteq Alarms
  /\ \A x \in Quotas : x[1] \in Kinds \ {"day"} /\ x[1] # "balance"
<1>1. /\ MaxMgr \in Nat /\ MaxLives \in Nat /\ MaxOps \in Nat /\ 1 \in Mgrs /\ 1 \in 1..MaxLives
      /\ Mgrs \subseteq Nat /\ Days \in Nat /\ 1 \in Dates /\ Dates \subseteq Nat
      /\ MaxCount \in Nat /\ Limit \in Nat /\ MinBalance \in Nat
      /\ Amounts \subseteq Nat /\ Overrides \subseteq 0..MaxCount
      /\ Balances \subseteq Nat /\ 0 \in Balances
      /\ NIL # TORN /\ NIL \notin State /\ TORN \notin State /\ NIL \notin Commands
  BY TariffAssumption DEF Mgrs, Dates
<1>2. "balance" \notin Kinds
  BY TariffAssumption
<1>3. \A x \in Quotas : x[1] \in Kinds \ {"day"}
  BY DEF Quotas
<1>4. LowBalance[1] = "balance"
  BY DEF LowBalance
<1> QED
  BY <1>1, <1>2, <1>3, <1>4 DEF Alarms

(* The calendar: a month does not go back.                                 *)
LEMMA Calendar ==
  \A d \in Dates : /\ d \in Nat /\ d >= 1 /\ d <= Days /\ Days \in Nat
                   /\ Month(d) \in {1, 2} /\ Month(d) \in Months
                   /\ \A e \in Dates : d <= e => Month(d) <= Month(e)
<1>1. Days \in Nat
  BY TariffConstants
<1> QED
  BY <1>1 DEF Dates, Month, Months

(* A manager is a record of these fields, which are changed one by one.    *)
LEMMA ManagerFields ==
  ASSUME NEW m \in Manager
  PROVE  /\ m.count \in [Kinds -> 0..MaxCount] /\ m.limit \in {0, Limit}
         /\ m.warned \in SUBSET Alarms /\ m.balance \in Balances
         /\ m.since \in {0, 1, 2} /\ m.date \in Dates \cup {0} /\ m.since \in Nat /\ m.date \in Nat
<1>1. /\ m.count \in [Kinds -> 0..MaxCount] /\ m.limit \in {0, Limit}
      /\ m.warned \in SUBSET Alarms /\ m.balance \in Balances
      /\ m.since \in {0, 1, 2} /\ m.date \in Dates \cup {0}
  BY DEF Manager, Months
<1>2. m.since \in Nat
  BY <1>1
<1>3. m.date \in Nat
  BY <1>1, TariffConstants
<1> QED
  BY <1>1, <1>2, <1>3

(* Assignments to single fields of a manager.                              *)
LEMMA FieldChanges ==
  ASSUME NEW m \in Manager
  PROVE  /\ \A c \in [Kinds -> 0..MaxCount] : LET f == [m EXCEPT !.count = c] IN
              /\ f \in Manager /\ f.count = c /\ f.limit = m.limit /\ f.warned = m.warned
              /\ f.balance = m.balance /\ f.since = m.since /\ f.date = m.date
         /\ \A w \in SUBSET Alarms : LET f == [m EXCEPT !.warned = w] IN
              /\ f \in Manager /\ f.count = m.count /\ f.limit = m.limit /\ f.warned = w
              /\ f.balance = m.balance /\ f.since = m.since /\ f.date = m.date
         /\ \A b \in Balances : LET f == [m EXCEPT !.balance = b] IN
              /\ f \in Manager /\ f.count = m.count /\ f.limit = m.limit /\ f.warned = m.warned
              /\ f.balance = b /\ f.since = m.since /\ f.date = m.date
         /\ \A l \in {0, Limit} : LET f == [m EXCEPT !.limit = l] IN
              /\ f \in Manager /\ f.count = m.count /\ f.limit = l /\ f.warned = m.warned
              /\ f.balance = m.balance /\ f.since = m.since /\ f.date = m.date
BY DEF Manager

(* NewManager without a file.                                              *)
LEMMA FreshManager ==
  /\ Fresh \in Manager /\ Fresh.since = 0 /\ Fresh.date = 0 /\ Fresh.balance = 0
  /\ Fresh.warned = {} /\ Fresh.count = [k \in Kinds |-> 0]
<1>1. 0 \in 0..MaxCount /\ 0 \in Balances
  BY TariffConstants
<1> QED
  BY <1>1 DEF Fresh, Manager

(* restoreFromStore: no flags, no date ahead of the calendar; what is of   *)
(* this day and month is taken over as it is.                              *)
LEMMA RestoredManager ==
  ASSUME today \in Dates, NEW file \in State \cup {NIL, TORN}
  PROVE  /\ Restore(file) \in Manager /\ Restore(file).warned = {}
         /\ Restore(file).since <= Month(today) /\ Restore(file).date <= today
         /\ file \in {NIL, TORN} => Restore(file) = Fresh
         /\ file \in State =>
              /\ Restore(file).since # 0 /\ Restore(file).date # 0
              /\ Restore(file).balance = file.balance
              /\ \A k \in Kinds : Restore(file).count[k] =
                   IF (k = "sms" /\ file.since # Month(today)) \/ (k = "day" /\ file.date # today)
                     THEN 0 ELSE file.count[k]
<1>1. 0 \in 0..MaxCount /\ NIL \notin State /\ TORN \notin State
  BY TariffConstants
<1>2. today \in Nat /\ today >= 1 /\ Month(today) \in {1, 2} /\ Month(today) \in Months
  BY Calendar
<1>3. CASE file \in {NIL, TORN}
  <2>1. Restore(file) = Fresh
    BY <1>3 DEF Restore
  <2> QED
    BY <1>1, <1>2, <1>3, <2>1, FreshManager
<1>4. CASE file \in State
  <2> DEFINE c == [k \in Kinds |->
                    IF (k = "sms" /\ file.since # Month(today)) \/ (k = "day" /\ file.date # today)
                      THEN 0 ELSE file.count[k]]
  <2>1. Restore(file) = [Fresh EXCEPT !.balance = file.balance, !.since = Month(today),
                                      !.date = today, !.count = c]
    BY <1>1, <1>4 DEF Restore
  <2>2. file.count \in [Kinds -> 0..MaxCount] /\ file.balance \in Balances
    BY <1>4 DEF State
  <2>3. c \in [Kinds -> 0..MaxCount]
    BY <1>1, <2>2
  <2>4. \A k \in Kinds : c[k] =
          IF (k = "sms" /\ file.since # Month(today)) \/ (k = "day" /\ file.date # today)
            THEN 0 ELSE file.count[k]
    OBVIOUS
  <2> HIDE DEF c
  <2>5. /\ Restore(file) \in Manager /\ Restore(file).warned = Fresh.warned
        /\ Restore(file).since = Month(today) /\ Restore(file).date = today
        /\ Restore(file).balance = file.balance /\ Restore(file).count = c
    BY <1>2, <2>1, <2>2, <2>3, FreshManager DEF Manager
  <2>6. Month(today) # 0 /\ today # 0 /\ Month(today) <= Month(today) /\ today <= today
    BY <1>2
  <2> QED
    BY <1>1, <1>4, <2>4, <2>5, <2>6, FreshManager
<1> QED
  BY <1>3, <1>4

(* persistLocked gives a manager its dates and changes nothing else.       *)
LEMMA DatedManager ==
  ASSUME today \in Dates, NEW m \in Manager
  PROVE  /\ Dated(m) \in Manager /\ Dated(m).since # 0 /\ Dated(m).date # 0
         /\ Dated(m).since \in {m.since, Month(today)} /\ Dated(m).date \in {m.date, today}
         /\ Dated(m).warned = m.warned /\ Dated(m).count = m.count
         /\ Dated(m).limit = m.limit /\ Dated(m).balance = m.balance
<1>1. Month(today) \in Months /\ Month(today) # 0 /\ today # 0
  BY Calendar DEF Months
<1> DEFINE a == IF m.since = 0 THEN Month(today) ELSE m.since
           b == IF m.date = 0 THEN today ELSE m.date
<1>2. /\ a \in Months \cup {0} /\ b \in Dates \cup {0} /\ a # 0 /\ b # 0
      /\ a \in {m.since, Month(today)} /\ b \in {m.date, today}
  BY <1>1 DEF Manager
<1>3. Dated(m) = [m EXCEPT !.since = a, !.date = b]
  BY DEF Dated, Manager
<1> HIDE DEF a, b
<1>4. /\ [m EXCEPT !.since = a, !.date = b] \in Manager
      /\ [m EXCEPT !.since = a, !.date = b].since = a /\ [m EXCEPT !.since = a, !.date = b].date = b
      /\ [m EXCEPT !.since = a, !.date = b].warned = m.warned
      /\ [m EXCEPT !.since = a, !.date = b].count = m.count
      /\ [m EXCEPT !.since = a, !.date = b].limit = m.limit
      /\ [m EXCEPT !.since = a, !.date = b].balance = m.balance
  BY <1>2 DEF Manager
<1> QED
  BY <1>2, <1>3, <1>4

(* The manager has raised the flag of every condition on k that holds.     *)
Evaluated(m, k) == \A x \in Alarms : x[1] = k /\ Reached(m, x) => x \in m.warned

(* The conditions depend on counters, limit and balance alone.             *)
LEMMA SameReached ==
  ASSUME NEW m, NEW f, f.count = m.count, f.limit = m.limit, f.balance = m.balance, NEW x
  PROVE  Reached(f, x) <=> Reached(m, x)
BY DEF Reached

(* What an evaluation returns is new, and with it nothing is forgotten.    *)
LEMMA EvaluateFacts ==
  ASSUME NEW m \in Manager, NEW ks
  PROVE  /\ Evaluate(m, ks) \in SUBSET Alarms /\ Evaluate(m, ks) \cap m.warned = {}
         /\ \A x \in Evaluate(m, ks) : x[1] \in ks
         /\ \A x \in Alarms : x[1] \in ks /\ Reached(m, x) => x \in m.warned \cup Evaluate(m, ks)
BY DEF Evaluate

(* The inductive invariant.                                                *)
SaveInv == SaveFits /\ RestartLosesNothing
AlertInv == MadeOnly /\ FlagsTold
TariffInv == TariffTypeOK /\ AlertInv /\ SaveInv

(* What is to be shown of every step.                                      *)
Kept == TariffInv' /\ \A s \in Mgrs : Timely(s)

(* A manager whose flags were told of is timely when it has evaluated what *)
(* it has changed, or has zeroed it.                                       *)
LEMMA TimelyChange ==
  ASSUME NEW s \in Mgrs, mgr'[s] \in Manager, mgr'[s].warned = told'[s] \cup dropped'[s],
         LowBalance \notin dropped'[s],
         \A k \in Kinds \ {"day"} : \/ mgr'[s].count[k] = mgr[s].count[k] \/ mgr'[s].count[k] = 0
                                    \/ Evaluated(mgr'[s], k),
         mgr'[s].balance = mgr[s].balance \/ Evaluated(mgr'[s], "balance")
  PROVE  Timely(s)
<1> DEFINE f == mgr'[s]
<1>1. f \in Manager /\ f.count \in [Kinds -> 0..MaxCount] /\ f.limit \in Nat /\ MaxCount \in Nat
  BY ManagerFields, TariffConstants
<1>2. ASSUME f.limit > 0, NEW k \in Kinds \ {"day"}, f.count[k] # mgr[s].count[k],
             10 * f.count[k] >= 9 * f.limit
      PROVE  <<k, IF f.count[k] >= f.limit THEN "full" ELSE "90">> \in f.warned
  <2>1. f.count[k] \in Nat
    BY <1>1
  <2>2. f.count[k] # 0
    BY <1>1, <1>2, <2>1
  <2>3. Evaluated(f, k)
    BY <1>2, <2>2
  <2>4. CASE f.count[k] >= f.limit
    <3>1. <<k, "full">> \in Alarms /\ <<k, "full">>[1] = k
      BY DEF Alarms, Quotas
    <3>2. Reached(f, <<k, "full">>)
      BY <1>2, <2>4 DEF Reached
    <3> QED
      BY <2>3, <2>4, <3>1, <3>2 DEF Evaluated
  <2>5. CASE ~(f.count[k] >= f.limit)
    <3>1. <<k, "90">> \in Alarms /\ <<k, "90">>[1] = k
      BY DEF Alarms, Quotas
    <3>2. f.count[k] < f.limit
      BY <1>1, <2>1, <2>5
    <3>3. Reached(f, <<k, "90">>)
      BY <1>2, <3>2 DEF Reached
    <3> QED
      BY <2>3, <2>5, <3>1, <3>3 DEF Evaluated
  <2> QED
    BY <2>4, <2>5
<1>3. ASSUME f.limit > 0, f.balance # mgr[s].balance, f.balance < MinBalance
      PROVE  LowBalance \in told'[s]
  <2>1. Evaluated(f, "balance")
    BY <1>3
  <2>2. LowBalance \in Alarms /\ LowBalance[1] = "balance" /\ Reached(f, LowBalance)
    BY <1>3 DEF Alarms, LowBalance, Reached
  <2>3. LowBalance \in f.warned
    BY <2>1, <2>2 DEF Evaluated
  <2> QED
    BY <2>3
<1> QED
  BY <1>2, <1>3 DEF Timely

(* A step that leaves a manager as it is.                                  *)
LEMMA TimelySame ==
  ASSUME NEW s \in Mgrs, mgr'[s] = mgr[s]
  PROVE  Timely(s)
BY DEF Timely

(* A step that changes a manager that was made, under its lock.            *)
LEMMA ChangeTypes ==
  ASSUME TariffTypeOK, NEW s \in Mgrs, NEW m \in Manager, Change(s, m)
  PROVE  /\ mgr' \in [Mgrs -> Manager] /\ temp' = TORN
         /\ save' \in [Mgrs -> {"idle", "failed", "open", "moved", "written"}]
         /\ mgr'[s] = Dated(m) /\ mgr'[s] \in Manager /\ save'[s] = "open"
         /\ \A t \in Mgrs \ {s} : mgr'[t] = mgr[t] /\ save'[t] = save[t]
<1>1. Dated(m) \in Manager
  BY DatedManager DEF TariffTypeOK
<1>2. /\ mgr \in [Mgrs -> Manager] /\ mgr' = [mgr EXCEPT ![s] = Dated(m)] /\ temp' = TORN
      /\ save' = [save EXCEPT ![s] = "open"]
      /\ save \in [Mgrs -> {"idle", "failed", "open", "moved", "written"}]
  BY DEF Change, TariffTypeOK
<1> QED
  BY <1>1, <1>2

(* ... opens a save that fits, and promises nothing before it is done.     *)
LEMMA ChangeSaves ==
  ASSUME TariffTypeOK, SaveInv, NEW s \in Mgrs, s <= made, NEW m \in Manager,
         made = 1 => m.since <= Month(today) /\ m.date <= today,
         Change(s, m), UNCHANGED <<made, disk, today, shared>>
  PROVE  SaveInv'
<1>1. CASE made # 1
  BY <1>1 DEF SaveInv, SaveFits, RestartLosesNothing
<1>2. CASE made = 1
  <2>1. s = 1
    <3>1. s \in Int /\ s >= 1
      BY TariffConstants DEF Mgrs
    <3> QED
      BY <1>2, <3>1
  <2>2. mgr'[1] = Dated(m) /\ save'[1] = "open" /\ temp' = TORN
    BY <2>1, ChangeTypes
  <2>3. /\ Dated(m).since # 0 /\ Dated(m).since <= Month(today)
        /\ Dated(m).date # 0 /\ Dated(m).date <= today
    <3>1. /\ Dated(m).since # 0 /\ Dated(m).since \in {m.since, Month(today)} /\ Month(today) \in {1, 2}
          /\ Dated(m).date # 0 /\ Dated(m).date \in {m.date, today} /\ today \in Nat
      BY DatedManager, Calendar DEF TariffTypeOK
    <3> QED
      BY <1>2, <3>1
  <2>4. Month(today)' = Month(today)
    BY DEF Month
  <2>5. SaveFits'
    BY <2>2, <2>3, <2>4 DEF SaveFits
  <2>6. RestartLosesNothing'
    BY <2>2 DEF SaveInv, RestartLosesNothing
  <2> QED
    BY <2>5, <2>6 DEF SaveInv
<1> QED
  BY <1>1, <1>2

(* What MadeOnly and the types say of a manager that may be changed.       *)
LEMMA MadeManager ==
  ASSUME TariffInv, NEW s \in Mgrs, s <= current
  PROVE  /\ s <= made /\ mgr[s] \in Manager /\ today \in Dates
         /\ made = 1 => mgr[s].since <= Month(today) /\ mgr[s].date <= today
         /\ mgr[s].warned = told[s] \cup dropped[s] /\ ~again
<1>1. /\ TariffTypeOK /\ MadeOnly /\ FlagsTold /\ SaveFits
  BY DEF TariffInv, AlertInv, SaveInv
<1>2. s \in Nat /\ s >= 1 /\ made \in Nat /\ current \in Nat /\ current <= made
  BY <1>1, TariffConstants DEF TariffTypeOK, MadeOnly, Mgrs
<1>3. s <= made /\ (made = 1 => s = 1)
  BY <1>2
<1> QED
  BY <1>1, <1>3 DEF TariffTypeOK, FlagsTold, SaveFits

(* Locks are taken by managers that were made.                             *)
LEMMA ChangeMade ==
  ASSUME TariffTypeOK, MadeOnly, NEW s \in Mgrs, s <= made, NEW m \in Manager, Change(s, m)
  PROVE  \A t \in Mgrs : /\ t > made => save'[t] = "idle"
                         /\ save'[t] # "idle" => mgr'[t].since # 0 /\ mgr'[t].date # 0
<1>1. mgr'[s] = Dated(m) /\ \A t \in Mgrs \ {s} : save'[t] = save[t] /\ mgr'[t] = mgr[t]
  BY ChangeTypes
<1>2. made \in Int /\ \A t \in Mgrs : t \in Int
  BY TariffConstants DEF TariffTypeOK
<1>3. \A t \in Mgrs : t > made => t # s /\ save[t] = "idle"
  BY <1>2 DEF MadeOnly
<1>4. Dated(m).since # 0 /\ Dated(m).date # 0
  BY DatedManager DEF TariffTypeOK
<1> QED
  BY <1>1, <1>3, <1>4 DEF MadeOnly

(* The account of the alerts xs of manager s, none of whose flags was up.  *)
LEMMA Announced ==
  ASSUME TariffTypeOK, FlagsTold, NEW s \in Mgrs, NEW xs \in SUBSET Alarms, NEW over,
         xs \cap mgr[s].warned = {}, Announce(s, xs, over)
  PROVE  /\ told' \in [Mgrs -> SUBSET Alarms] /\ dropped' \in [Mgrs -> SUBSET Quotas]
         /\ \A t \in Mgrs \ {s} : told'[t] = told[t] /\ dropped'[t] = dropped[t]
         /\ again' = FALSE
         /\ told'[s] \cup dropped'[s] = (mgr[s].warned \ over) \cup xs
<1>1. /\ told \in [Mgrs -> SUBSET Alarms] /\ dropped \in [Mgrs -> SUBSET Quotas] /\ again = FALSE
      /\ mgr[s].warned = told[s] \cup dropped[s]
  BY DEF TariffTypeOK, FlagsTold
<1>2. /\ told' = [told EXCEPT ![s] = (told[s] \ over) \cup xs]
      /\ dropped' = [dropped EXCEPT ![s] = dropped[s] \ over]
      /\ again' = (again \/ xs \cap told[s] # {})
  BY DEF Announce
<1>3. xs \cap told[s] = {}
  BY <1>1
<1>4. again' = FALSE
  BY <1>1, <1>2, <1>3
<1>5. told'[s] = (told[s] \ over) \cup xs /\ dropped'[s] = dropped[s] \ over
  BY <1>1, <1>2
<1>6. /\ told' \in [Mgrs -> SUBSET Alarms] /\ dropped' \in [Mgrs -> SUBSET Quotas]
      /\ \A t \in Mgrs \ {s} : told'[t] = told[t] /\ dropped'[t] = dropped[t]
  BY <1>1, <1>2
<1> QED
  BY <1>1, <1>4, <1>5, <1>6

(* What a change of manager s, and of no other, has to come with.          *)
LEMMA ManagerChanges ==
  ASSUME TariffInv, NEW s \in Mgrs, s <= current, NEW m \in Manager, Change(s, m),
         made = 1 => m.since <= Month(today) /\ m.date <= today,
         told' \in [Mgrs -> SUBSET Alarms], dropped' \in [Mgrs -> SUBSET Quotas], again' = FALSE,
         \A t \in Mgrs \ {s} : told'[t] = told[t] /\ dropped'[t] = dropped[t],
         m.warned = told'[s] \cup dropped'[s],
         \A k \in Kinds \ {"day"} : m.count[k] = mgr[s].count[k] \/ m.count[k] = 0 \/ Evaluated(m, k),
         m.balance = mgr[s].balance \/ Evaluated(m, "balance"),
         UNCHANGED <<lives, made, current, shared, disk, today, lastBalance>>, ops' \in 0..MaxOps,
         cmd' \in Commands \cup {NIL}, todo' \cup late' \subseteq todo \cup late,
         todo' \cup late' # {} => cmd' # NIL, late' # {} => cmd'[1] = "usage", parsed' \subseteq parsed
  PROVE  Kept
<1>1. TariffTypeOK /\ MadeOnly /\ FlagsTold /\ SaveInv
  BY DEF TariffInv, AlertInv
<1>2. s <= made /\ made \in Nat /\ today \in Dates
  BY <1>1, MadeManager DEF TariffTypeOK
<1>3. /\ mgr' \in [Mgrs -> Manager] /\ temp' = TORN
      /\ save' \in [Mgrs -> {"idle", "failed", "open", "moved", "written"}]
      /\ mgr'[s] = Dated(m) /\ mgr'[s] \in Manager
      /\ \A t \in Mgrs \ {s} : mgr'[t] = mgr[t] /\ save'[t] = save[t]
  BY <1>1, ChangeTypes
<1>4. /\ Dated(m).warned = m.warned /\ Dated(m).count = m.count
      /\ Dated(m).limit = m.limit /\ Dated(m).balance = m.balance
  BY <1>2, DatedManager
<1>5. SaveInv'
  BY <1>1, <1>2, ChangeSaves
<1>6. TariffTypeOK'
  <2>1. todo' \subseteq Mgrs /\ late' \subseteq Mgrs /\ parsed' \subseteq Mgrs \X Balances /\ again' \in BOOLEAN
    BY <1>1 DEF TariffTypeOK
  <2> QED
    BY <1>1, <1>3, <2>1 DEF TariffTypeOK
<1>7. MadeOnly'
  <2>1. \A t \in Mgrs : /\ t > made => save'[t] = "idle"
                        /\ save'[t] # "idle" => mgr'[t].since # 0 /\ mgr'[t].date # 0
    BY <1>1, <1>2, ChangeMade
  <2>2. \A t \in Mgrs : t > made => t # s
    BY <1>2, TariffConstants
  <2>3. \A t \in Mgrs : t > made => told'[t] = {} /\ dropped'[t] = {}
    BY <1>1, <2>2 DEF MadeOnly
  <2>4. /\ current' <= made' /\ todo' \cup late' \subseteq 1..current' /\ parsed' \subseteq (1..current') \X Balances
        /\ (made' > 1 => shared')
    BY <1>1 DEF MadeOnly
  <2> QED
    BY <2>1, <2>3, <2>4 DEF MadeOnly
<1>8. FlagsTold'
  BY <1>1, <1>3, <1>4 DEF FlagsTold
<1>9. Timely(s)
  <2>1. \A k : Evaluated(m, k) => Evaluated(mgr'[s], k)
    BY <1>3, <1>4, SameReached DEF Evaluated
  <2>2. mgr'[s].warned = told'[s] \cup dropped'[s] /\ LowBalance \notin dropped'[s]
    BY <1>3, <1>4, TariffConstants
  <2>3. \A k \in Kinds \ {"day"} : \/ mgr'[s].count[k] = mgr[s].count[k] \/ mgr'[s].count[k] = 0
                                   \/ Evaluated(mgr'[s], k)
    BY <1>3, <1>4, <2>1
  <2>4. mgr'[s].balance = mgr[s].balance \/ Evaluated(mgr'[s], "balance")
    BY <1>3, <1>4, <2>1
  <2> QED
    BY <1>3, <2>2, <2>3, <2>4, TimelyChange
<1>10. \A t \in Mgrs : Timely(t)
  BY <1>3, <1>9, TimelySame
<1> QED
  BY <1>5, <1>6, <1>7, <1>8, <1>10 DEF Kept, TariffInv, AlertInv

(* RecordSMS and RecordCallMinutes evaluate the counter they have moved.   *)
LEMMA RecordInv ==
  ASSUME TariffInv, NEW s \in Mgrs, NEW k \in Kinds \ {"day"}, NEW a \in Amounts, Record(s, k, a)
  PROVE  Kept
<1> DEFINE c == [j \in Kinds |-> mgr[s].count[j] + (IF j \in Counted(k) THEN a ELSE 0)]
           m == [mgr[s] EXCEPT !.count = c]
           xs == Evaluate(m, {k})
           f == [m EXCEPT !.warned = m.warned \cup xs]
<1>1. TariffTypeOK /\ MadeOnly /\ FlagsTold
  BY DEF TariffInv, AlertInv
<1>2. /\ s <= current /\ ops < MaxOps /\ ops' = ops + 1
      /\ UNCHANGED <<lives, made, current, shared, disk, today, lastBalance, parsed, cmd, todo, late>>
  <2>1. MaxLater \in Nat /\ MaxLater <= MaxOps /\ MaxOps \in Nat /\ ops \in Nat
    BY <1>1, TariffAssumption DEF TariffTypeOK
  <2> QED
    BY <2>1 DEF Record, NextOp
<1>3. mgr[s] \in Manager /\ (made = 1 => mgr[s].since <= Month(today) /\ mgr[s].date <= today)
  BY <1>2, MadeManager
<1>4. mgr[s].count \in [Kinds -> 0..MaxCount] /\ a \in Nat /\ MaxCount \in Nat
  BY <1>3, ManagerFields, TariffConstants
<1>5. /\ \A j \in Kinds : m.count[j] <= MaxCount
      /\ Change(s, f) /\ Announce(s, xs, {})
  BY DEF Record
<1>6. c \in [Kinds -> 0..MaxCount]
  <2>1. \A j \in Kinds : c[j] \in Nat
    BY <1>4
  <2>2. m.count = c
    BY <1>3 DEF Manager
  <2>3. \A j \in Kinds : c[j] \in 0..MaxCount
    BY <1>4, <1>5, <2>1, <2>2
  <2> QED
    BY <2>3
<1>7. \A j \in Kinds \ {"day", k} : c[j] = mgr[s].count[j]
  <2>1. \A j \in Kinds \ {"day", k} : j \notin Counted(k)
    BY DEF Counted
  <2>2. \A j \in Kinds : mgr[s].count[j] \in Nat
    BY <1>4
  <2> QED
    BY <2>1, <2>2
<1> HIDE DEF c
<1>8. /\ m \in Manager /\ m.count = c /\ m.limit = mgr[s].limit /\ m.warned = mgr[s].warned
      /\ m.balance = mgr[s].balance /\ m.since = mgr[s].since /\ m.date = mgr[s].date
  BY <1>3, <1>6, FieldChanges
<1> HIDE DEF m
<1>9. /\ xs \in SUBSET Alarms /\ xs \cap mgr[s].warned = {}
      /\ \A x \in Alarms : x[1] = k /\ Reached(m, x) => x \in m.warned \cup xs
  BY <1>8, EvaluateFacts
<1> HIDE DEF xs
<1>10. m.warned \cup xs \in SUBSET Alarms
  BY <1>8, <1>9, ManagerFields
<1>11. /\ f \in Manager /\ f.count = c /\ f.limit = m.limit /\ f.warned = m.warned \cup xs
       /\ f.balance = m.balance /\ f.since = m.since /\ f.date = m.date
  BY <1>8, <1>10, FieldChanges
<1> HIDE DEF f
<1>12. /\ told' \in [Mgrs -> SUBSET Alarms] /\ dropped' \in [Mgrs -> SUBSET Quotas]
       /\ \A t \in Mgrs \ {s} : told'[t] = told[t] /\ dropped'[t] = dropped[t]
       /\ again' = FALSE
       /\ told'[s] \cup dropped'[s] = (mgr[s].warned \ {}) \cup xs
  BY <1>1, <1>5, <1>9, Announced
<1>13. Evaluated(f, k)
  BY <1>8, <1>9, <1>11, SameReached DEF Evaluated
<1>14. \A j \in Kinds \ {"day"} : f.count[j] = mgr[s].count[j] \/ f.count[j] = 0 \/ Evaluated(f, j)
  BY <1>7, <1>11, <1>13
<1>15. f.warned = told'[s] \cup dropped'[s]
  BY <1>8, <1>11, <1>12
<1>16. ops' \in 0..MaxOps
  BY <1>1, <1>2, TariffConstants DEF TariffTypeOK
<1>17. /\ cmd' \in Commands \cup {NIL} /\ todo' \cup late' \subseteq todo \cup late
       /\ (todo' \cup late' # {} => cmd' # NIL) /\ (late' # {} => cmd'[1] = "usage") /\ parsed' \subseteq parsed
  BY <1>1, <1>2 DEF TariffTypeOK, MadeOnly
<1>18. f.balance = mgr[s].balance /\ (made = 1 => f.since <= Month(today) /\ f.date <= today)
  BY <1>3, <1>8, <1>11
<1> QED
  BY <1>2, <1>5, <1>11, <1>12, <1>14, <1>15, <1>16, <1>17, <1>18, ManagerChanges

(* UpdateBalance evaluates the balance it has set, and takes the flag of a *)
(* low one down when it is not.                                            *)
LEMMA BalanceSet ==
  ASSUME TariffTypeOK, FlagsTold, NEW s \in Mgrs, NEW m \in Manager, m.warned = mgr[s].warned,
         NEW b \in Balances, SetBalance(s, m, b)
  PROVE  /\ told' \in [Mgrs -> SUBSET Alarms] /\ dropped' \in [Mgrs -> SUBSET Quotas]
         /\ \A t \in Mgrs \ {s} : told'[t] = told[t] /\ dropped'[t] = dropped[t]
         /\ again' = FALSE
         /\ \E f \in Manager :
              /\ Change(s, f) /\ f.warned = told'[s] \cup dropped'[s]
              /\ f.count = m.count /\ f.limit = m.limit /\ f.balance = b
              /\ f.since = m.since /\ f.date = m.date /\ Evaluated(f, "balance")
<1> DEFINE g == [m EXCEPT !.balance = b]
           xs == Evaluate(g, {"balance"})
           over == IF g.limit > 0 /\ b >= MinBalance THEN {LowBalance} ELSE {}
           f == [g EXCEPT !.warned = (g.warned \ over) \cup xs]
<1>1. Change(s, f) /\ Announce(s, xs, over)
  BY DEF SetBalance
<1>2. /\ g \in Manager /\ g.count = m.count /\ g.limit = m.limit /\ g.warned = mgr[s].warned
      /\ g.balance = b /\ g.since = m.since /\ g.date = m.date
  BY FieldChanges
<1>3. \A x \in over : ~Reached(g, x)
  <2>1. b \in Nat /\ MinBalance \in Nat
    BY TariffConstants
  <2>2. over # {} => ~(g.balance < MinBalance)
    BY <1>2, <2>1
  <2>3. ~(g.balance < MinBalance) => ~Reached(g, LowBalance)
    BY DEF Reached, LowBalance
  <2> QED
    BY <2>2, <2>3
<1> HIDE DEF g, over
<1>4. /\ xs \in SUBSET Alarms /\ xs \cap mgr[s].warned = {}
      /\ \A x \in Alarms : x[1] = "balance" /\ Reached(g, x) => x \in g.warned \cup xs
  BY <1>2, EvaluateFacts
<1> HIDE DEF xs
<1>5. (g.warned \ over) \cup xs \in SUBSET Alarms
  BY <1>2, <1>4, ManagerFields
<1>6. /\ f \in Manager /\ f.count = g.count /\ f.limit = g.limit /\ f.warned = (g.warned \ over) \cup xs
      /\ f.balance = g.balance /\ f.since = g.since /\ f.date = g.date
  BY <1>2, <1>5, FieldChanges
<1> HIDE DEF f
<1>7. /\ told' \in [Mgrs -> SUBSET Alarms] /\ dropped' \in [Mgrs -> SUBSET Quotas]
      /\ \A t \in Mgrs \ {s} : told'[t] = told[t] /\ dropped'[t] = dropped[t]
      /\ again' = FALSE
      /\ told'[s] \cup dropped'[s] = (mgr[s].warned \ over) \cup xs
  BY <1>1, <1>4, Announced
<1>8. Evaluated(f, "balance")
  <2>1. \A x : Reached(f, x) <=> Reached(g, x)
    BY <1>6, SameReached
  <2> QED
    BY <1>3, <1>4, <1>6, <2>1 DEF Evaluated
<1> QED
  BY <1>1, <1>2, <1>6, <1>7, <1>8

(* A parsed balance reaches the manager it was bound to.                   *)
LEMMA BalanceInv ==
  ASSUME TariffInv, NEW s \in Mgrs, NEW b \in Balances, UpdateBalance(s, b)
  PROVE  Kept
<1>1. TariffTypeOK /\ MadeOnly /\ FlagsTold
  BY DEF TariffInv, AlertInv
<1>2. /\ <<s, b>> \in parsed /\ parsed' = parsed \ {<<s, b>>} /\ SetBalance(s, mgr[s], b)
      /\ UNCHANGED <<ops, lives, made, current, shared, lastBalance, disk, today, cmd, todo, late>>
  BY DEF UpdateBalance
<1>3. s <= current
  <2>1. s \in 1..current /\ current \in Nat
    BY <1>1, <1>2 DEF MadeOnly, TariffTypeOK
  <2> QED
    BY <2>1
<1>4. mgr[s] \in Manager /\ (made = 1 => mgr[s].since <= Month(today) /\ mgr[s].date <= today)
  BY <1>3, MadeManager
<1>5. PICK m \in Manager : m = mgr[s]
  BY <1>4
<1>6. /\ told' \in [Mgrs -> SUBSET Alarms] /\ dropped' \in [Mgrs -> SUBSET Quotas]
      /\ \A t \in Mgrs \ {s} : told'[t] = told[t] /\ dropped'[t] = dropped[t]
      /\ again' = FALSE
      /\ \E f \in Manager :
           /\ Change(s, f) /\ f.warned = told'[s] \cup dropped'[s]
           /\ f.count = m.count /\ f.limit = m.limit /\ f.balance = b
           /\ f.since = m.since /\ f.date = m.date /\ Evaluated(f, "balance")
  BY <1>1, <1>2, <1>5, BalanceSet
<1>7. PICK f \in Manager :
           /\ Change(s, f) /\ f.warned = told'[s] \cup dropped'[s]
           /\ f.count = m.count /\ f.limit = m.limit /\ f.balance = b
           /\ f.since = m.since /\ f.date = m.date /\ Evaluated(f, "balance")
  BY <1>6
<1>8. /\ \A j \in Kinds \ {"day"} : f.count[j] = mgr[s].count[j]
      /\ made = 1 => f.since <= Month(today) /\ f.date <= today
  BY <1>4, <1>5, <1>7
<1>9. /\ cmd' \in Commands \cup {NIL} /\ todo' \cup late' \subseteq todo \cup late
      /\ (todo' \cup late' # {} => cmd' # NIL) /\ (late' # {} => cmd'[1] = "usage") /\ parsed' \subseteq parsed
      /\ ops' \in 0..MaxOps
  BY <1>1, <1>2 DEF TariffTypeOK, MadeOnly
<1> QED
  BY <1>2, <1>3, <1>6, <1>7, <1>8, <1>9, ManagerChanges

(* What a handler of a command leaves to be done.                          *)
LEMMA HandlerState ==
  ASSUME TariffInv, NEW s \in Mgrs, s \in todo \cup late,
         todo' \cup late' \subseteq todo \cup late, Handled, late' # {} => cmd[1] = "usage",
         UNCHANGED <<ops, parsed>>
  PROVE  /\ s <= current /\ cmd \in Commands
         /\ cmd' \in Commands \cup {NIL} /\ (todo' \cup late' # {} => cmd' # NIL)
         /\ (late' # {} => cmd'[1] = "usage") /\ parsed' \subseteq parsed /\ ops' \in 0..MaxOps
<1>1. TariffTypeOK /\ MadeOnly
  BY DEF TariffInv, AlertInv
<1>2. cmd # NIL /\ cmd \in Commands /\ s \in 1..current /\ current \in Nat
  BY <1>1 DEF MadeOnly, TariffTypeOK
<1>3. s <= current
  BY <1>2
<1>4. cmd' = IF todo' \cup late' = {} THEN NIL ELSE cmd
  BY DEF Handled
<1> QED
  BY <1>1, <1>2, <1>3, <1>4 DEF TariffTypeOK

(* A step of a handler that leaves counters, balance and flags alone, or   *)
(* zeroes counters and takes down the flags of the quotas.                 *)
LEMMA ConfigInv ==
  ASSUME TariffInv, NEW s \in Mgrs, s <= current, NEW l \in {0, Limit}, UpdateConfig(s, l),
         UNCHANGED <<ops, lives, made, current, shared, disk, today, lastBalance>>,
         ops' \in 0..MaxOps,
         cmd' \in Commands \cup {NIL}, todo' \cup late' \subseteq todo \cup late,
         todo' \cup late' # {} => cmd' # NIL, late' # {} => cmd'[1] = "usage", parsed' \subseteq parsed
  PROVE  Kept
<1> DEFINE f == [mgr[s] EXCEPT !.limit = l]
<1>1. TariffTypeOK
  BY DEF TariffInv
<1>2. /\ mgr[s] \in Manager /\ (made = 1 => mgr[s].since <= Month(today) /\ mgr[s].date <= today)
      /\ mgr[s].warned = told[s] \cup dropped[s] /\ ~again
  BY MadeManager
<1>3. Change(s, f) /\ UNCHANGED <<told, dropped, again>>
  BY DEF UpdateConfig
<1>4. /\ f \in Manager /\ f.count = mgr[s].count /\ f.limit = l /\ f.warned = mgr[s].warned
      /\ f.balance = mgr[s].balance /\ f.since = mgr[s].since /\ f.date = mgr[s].date
  BY <1>2 DEF Manager
<1> HIDE DEF f
<1>5. /\ told' \in [Mgrs -> SUBSET Alarms] /\ dropped' \in [Mgrs -> SUBSET Quotas]
      /\ \A t \in Mgrs \ {s} : told'[t] = told[t] /\ dropped'[t] = dropped[t]
      /\ f.warned = told'[s] \cup dropped'[s]
  BY <1>1, <1>2, <1>3, <1>4 DEF TariffTypeOK
<1>6. again' = FALSE
  BY <1>1, <1>2, <1>3 DEF TariffTypeOK
<1>7. /\ \A j \in Kinds \ {"day"} : f.count[j] = mgr[s].count[j]
      /\ made = 1 => f.since <= Month(today) /\ f.date <= today
  BY <1>2, <1>4
<1> QED
  BY <1>3, <1>4, <1>5, <1>6, <1>7, ManagerChanges

(* A reset zeroes the counters that have quotas, and their flags.          *)
LEMMA ResetInv ==
  ASSUME TariffInv, NEW s \in Mgrs, s <= current, ResetMonthly(s),
         UNCHANGED <<ops, lives, made, current, shared, disk, today, lastBalance>>,
         ops' \in 0..MaxOps,
         cmd' \in Commands \cup {NIL}, todo' \cup late' \subseteq todo \cup late,
         todo' \cup late' # {} => cmd' # NIL, late' # {} => cmd'[1] = "usage", parsed' \subseteq parsed
  PROVE  Kept
<1> DEFINE c == MonthlyCount(mgr[s])
           w == mgr[s].warned \ Quotas
           f == [mgr[s] EXCEPT !.count = c, !.warned = w, !.since = Month(today)]
<1>1. TariffTypeOK /\ FlagsTold /\ today \in Dates
  BY DEF TariffInv, AlertInv, TariffTypeOK
<1>2. mgr[s] \in Manager /\ (made = 1 => mgr[s].date <= today)
  BY MadeManager
<1>3. Change(s, f) /\ Announce(s, {}, Quotas)
  BY DEF ResetMonthly
<1>4. c \in [Kinds -> 0..MaxCount] /\ \A j \in Kinds \ {"day"} : c[j] = 0
  BY <1>2, ManagerFields, TariffConstants DEF MonthlyCount
<1>5. w \in SUBSET Alarms
  BY <1>2, ManagerFields
<1>6. Month(today) \in Months /\ Month(today) \in {1, 2}
  BY <1>1, Calendar
<1> HIDE DEF c, w
<1>7. /\ f \in Manager /\ f.count = c /\ f.warned = w /\ f.since = Month(today)
      /\ f.balance = mgr[s].balance /\ f.date = mgr[s].date
  BY <1>2, <1>4, <1>5, <1>6 DEF Manager
<1> HIDE DEF f
<1>8. /\ told' \in [Mgrs -> SUBSET Alarms] /\ dropped' \in [Mgrs -> SUBSET Quotas]
      /\ \A t \in Mgrs \ {s} : told'[t] = told[t] /\ dropped'[t] = dropped[t]
      /\ again' = FALSE
      /\ told'[s] \cup dropped'[s] = (mgr[s].warned \ Quotas) \cup {}
  <2>1. PICK xs \in SUBSET Alarms : xs = {}
    OBVIOUS
  <2>2. Announce(s, xs, Quotas) /\ xs \cap mgr[s].warned = {}
    BY <1>3, <2>1
  <2>3. /\ told' \in [Mgrs -> SUBSET Alarms] /\ dropped' \in [Mgrs -> SUBSET Quotas]
        /\ \A t \in Mgrs \ {s} : told'[t] = told[t] /\ dropped'[t] = dropped[t]
        /\ again' = FALSE
        /\ told'[s] \cup dropped'[s] = (mgr[s].warned \ Quotas) \cup xs
    BY <1>1, <2>2, Announced
  <2> QED
    BY <2>1, <2>3
<1>9. f.warned = told'[s] \cup dropped'[s]
  BY <1>7, <1>8 DEF w
<1>10. /\ \A j \in Kinds \ {"day"} : f.count[j] = 0
       /\ made = 1 => f.since <= Month(today) /\ f.date <= today
  BY <1>2, <1>4, <1>6, <1>7
<1> QED
  BY <1>3, <1>7, <1>8, <1>9, <1>10, ManagerChanges

(* An override evaluates all counters and accounts for what it drops.      *)
LEMMA UsageInv ==
  ASSUME TariffInv, NEW s \in Mgrs, HandleUsage(s)
  PROVE  Kept
<1> DEFINE c == [k \in Kinds |-> cmd[2]]
           m == [mgr[s] EXCEPT !.count = c]
           xs == Evaluate(m, Kinds)
           f == [m EXCEPT !.warned = m.warned \cup xs]
<1>1. TariffTypeOK /\ MadeOnly /\ FlagsTold
  BY DEF TariffInv, AlertInv
<1>2. /\ s \in late /\ late' = late \ {s} /\ todo' = todo /\ Handled /\ SetUsage(s, cmd[2])
      /\ UNCHANGED <<ops, lives, made, current, shared, lastBalance, disk, today, parsed>>
  BY DEF HandleUsage
<1>3. cmd[1] = "usage"
  BY <1>1, <1>2 DEF MadeOnly
<1>4. /\ s <= current /\ cmd \in Commands
      /\ cmd' \in Commands \cup {NIL} /\ (todo' \cup late' # {} => cmd' # NIL)
      /\ (late' # {} => cmd'[1] = "usage") /\ parsed' \subseteq parsed /\ ops' \in 0..MaxOps
  BY <1>2, <1>3, HandlerState
<1>5. cmd[2] \in 0..MaxCount
  BY <1>3, <1>4, TariffConstants DEF Commands
<1>6. /\ mgr[s] \in Manager /\ (made = 1 => mgr[s].since <= Month(today) /\ mgr[s].date <= today)
      /\ mgr[s].warned = told[s] \cup dropped[s] /\ ~again
  BY <1>4, MadeManager
<1>7. /\ Change(s, f) /\ dropped' = [dropped EXCEPT ![s] = dropped[s] \cup xs]
      /\ UNCHANGED <<told, again>>
  BY <1>2 DEF SetUsage
<1>8. c \in [Kinds -> 0..MaxCount]
  BY <1>5
<1> HIDE DEF c
<1>9. /\ m \in Manager /\ m.count = c /\ m.limit = mgr[s].limit /\ m.warned = mgr[s].warned
      /\ m.balance = mgr[s].balance /\ m.since = mgr[s].since /\ m.date = mgr[s].date
  BY <1>6, <1>8, FieldChanges
<1> HIDE DEF m
<1>10. /\ xs \in SUBSET Alarms /\ \A x \in xs : x[1] \in Kinds
       /\ \A x \in Alarms : x[1] \in Kinds /\ Reached(m, x) => x \in m.warned \cup xs
  BY <1>9, EvaluateFacts
<1> HIDE DEF xs
<1>11. xs \in SUBSET Quotas
  <2>1. LowBalance[1] \notin Kinds
    BY TariffAssumption DEF LowBalance
  <2> QED
    BY <1>10, <2>1 DEF Alarms
<1>12. m.warned \cup xs \in SUBSET Alarms
  BY <1>9, <1>10, ManagerFields
<1>13. /\ f \in Manager /\ f.count = m.count /\ f.limit = m.limit /\ f.warned = m.warned \cup xs
       /\ f.balance = m.balance /\ f.since = m.since /\ f.date = m.date
  BY <1>9, <1>12, FieldChanges
<1> HIDE DEF f
<1>14. /\ told' \in [Mgrs -> SUBSET Alarms] /\ dropped' \in [Mgrs -> SUBSET Quotas]
       /\ \A t \in Mgrs \ {s} : told'[t] = told[t] /\ dropped'[t] = dropped[t]
       /\ dropped'[s] = dropped[s] \cup xs /\ told'[s] = told[s]
  BY <1>1, <1>7, <1>11 DEF TariffTypeOK
<1>15. again' = FALSE
  BY <1>1, <1>6, <1>7 DEF TariffTypeOK
<1>16. f.warned = told'[s] \cup dropped'[s]
  BY <1>6, <1>9, <1>13, <1>14
<1>17. \A j \in Kinds \ {"day"} : Evaluated(f, j)
  <2>1. \A x : Reached(f, x) <=> Reached(m, x)
    BY <1>13, SameReached
  <2> QED
    BY <1>10, <1>13, <2>1 DEF Evaluated
<1>18. f.balance = mgr[s].balance /\ (made = 1 => f.since <= Month(today) /\ f.date <= today)
  BY <1>6, <1>9, <1>13
<1>19. todo' \cup late' \subseteq todo \cup late
  BY <1>2
<1> QED
  BY <1>2, <1>4, <1>7, <1>13, <1>14, <1>15, <1>16, <1>17, <1>18, <1>19, ManagerChanges

(* A command: limits leave the flags alone, a reset takes them down.       *)
LEMMA HandleInv ==
  ASSUME TariffInv, NEW s \in Mgrs, Handle(s)
  PROVE  Kept
<1>1. TariffTypeOK /\ MadeOnly
  BY DEF TariffInv, AlertInv
<1>2. /\ s \in todo /\ todo' = todo \ {s} /\ late' = (IF cmd[1] = "usage" THEN late \cup {s} ELSE late)
      /\ Handled /\ UNCHANGED <<ops, lives, made, current, shared, lastBalance, disk, today, parsed>>
  BY DEF Handle
<1>3. todo' \cup late' \subseteq todo \cup late /\ (late' # {} => cmd[1] = "usage")
  BY <1>1, <1>2 DEF MadeOnly
<1>4. /\ s <= current /\ cmd \in Commands
      /\ cmd' \in Commands \cup {NIL} /\ (todo' \cup late' # {} => cmd' # NIL)
      /\ (late' # {} => cmd'[1] = "usage") /\ parsed' \subseteq parsed /\ ops' \in 0..MaxOps
  BY <1>2, <1>3, HandlerState
<1>5. mgr[s] \in Manager /\ mgr[s].limit \in {0, Limit}
  BY <1>4, MadeManager, ManagerFields
<1>6. ASSUME NEW l \in {0, Limit}, UpdateConfig(s, l) PROVE Kept
  BY <1>2, <1>3, <1>4, <1>6, ConfigInv
<1>7. ASSUME ResetMonthly(s) PROVE Kept
  BY <1>2, <1>3, <1>4, <1>7, ResetInv
<1>8. (\E l \in {0, Limit} : UpdateConfig(s, l)) \/ ResetMonthly(s)
  <2>1. CASE \E l \in {0, Limit} : cmd = <<"set", l>>
    BY <2>1 DEF Handle
  <2>2. CASE \E v \in Overrides : cmd = <<"usage", v>>
    BY <1>5, <2>2 DEF Handle
  <2>3. CASE cmd = <<"reset", 0>>
    BY <2>3 DEF Handle
  <2> QED
    BY <1>4, <2>1, <2>2, <2>3 DEF Commands
<1> QED
  BY <1>6, <1>7, <1>8

(* What a save that is under way needs.                                    *)
LEMMA Saving ==
  ASSUME TariffInv, NEW s \in Mgrs, save[s] # "idle"
  PROVE  /\ Snapshot(mgr[s]) \in State /\ Snapshot(mgr[s]) # TORN /\ Snapshot(mgr[s]) # NIL
         /\ s <= made /\ (made = 1 => s = 1) /\ (made # 1 => shared)
         /\ Snapshot(mgr[s]).count = mgr[s].count /\ Snapshot(mgr[s]).balance = mgr[s].balance
         /\ Snapshot(mgr[s]).since = mgr[s].since /\ mgr[s].since # 0
         /\ Snapshot(mgr[s]).date = mgr[s].date /\ mgr[s].date # 0
<1>1. TariffTypeOK /\ MadeOnly
  BY DEF TariffInv, AlertInv
<1>2. mgr[s] \in Manager /\ mgr[s].since # 0 /\ mgr[s].date # 0
  BY <1>1 DEF TariffTypeOK, MadeOnly
<1>3. /\ Snapshot(mgr[s]) \in State
      /\ Snapshot(mgr[s]).count = mgr[s].count /\ Snapshot(mgr[s]).balance = mgr[s].balance
      /\ Snapshot(mgr[s]).since = mgr[s].since /\ Snapshot(mgr[s]).date = mgr[s].date
  BY <1>2 DEF Snapshot, State, Manager
<1>4. made \in Nat /\ s \in Nat /\ s >= 1
  BY <1>1, TariffConstants DEF TariffTypeOK, Mgrs
<1>5. s <= made
  BY <1>1, <1>4 DEF MadeOnly
<1>6. (made = 1 => s = 1) /\ (made # 1 => made > 1)
  BY <1>4, <1>5
<1> QED
  BY <1>1, <1>2, <1>3, <1>5, <1>6, TariffConstants DEF MadeOnly

(* The other managers of an only one are not saving.                       *)
LEMMA OthersIdle ==
  ASSUME TariffInv, made = 1
  PROVE  \A t \in Mgrs \ {1} : save[t] = "idle"
<1>1. MadeOnly
  BY DEF TariffInv, AlertInv
<1>2. \A t \in Mgrs \ {1} : t > made
  BY DEF Mgrs
<1> QED
  BY <1>1, <1>2 DEF MadeOnly

(* A step of a save touches no manager: only the files and the save.       *)
LEMMA SaveKeeps ==
  ASSUME TariffInv, NEW s \in Mgrs, save[s] # "idle",
         save' \in [Mgrs -> {"idle", "failed", "open", "moved", "written"}],
         \A t \in Mgrs \ {s} : save[t] = "idle" => save'[t] = "idle",
         disk' \in State \cup {NIL, TORN}, temp' \in State \cup {NIL, TORN},
         UNCHANGED <<ops, lives, made, current, shared, lastBalance, mgr, today, parsed, cmd, todo,
                     late, told, dropped, again>>
  PROVE  TariffTypeOK' /\ AlertInv' /\ \A t \in Mgrs : Timely(t)
<1>1. TariffTypeOK /\ MadeOnly /\ FlagsTold
  BY DEF TariffInv, AlertInv
<1>2. TariffTypeOK'
  BY <1>1 DEF TariffTypeOK
<1>3. MadeOnly'
  <2>1. s <= made /\ mgr[s].since # 0 /\ mgr[s].date # 0
    BY Saving
  <2>2. made \in Int /\ s \in Int
    BY <1>1, TariffConstants DEF TariffTypeOK
  <2>3. \A t \in Mgrs : t > made => t # s
    BY <2>1, <2>2
  <2>4. \A t \in Mgrs : t > made => told'[t] = {} /\ dropped'[t] = {} /\ save'[t] = "idle"
    BY <1>1, <2>3 DEF MadeOnly
  <2>5. \A t \in Mgrs : save'[t] # "idle" => mgr'[t].since # 0 /\ mgr'[t].date # 0
    BY <1>1, <2>1 DEF MadeOnly
  <2> QED
    BY <1>1, <2>4, <2>5 DEF MadeOnly
<1>4. FlagsTold'
  BY <1>1 DEF FlagsTold
<1>5. \A t \in Mgrs : Timely(t)
  BY TimelySame
<1> QED
  BY <1>2, <1>3, <1>4, <1>5 DEF AlertInv

(* An only manager finds the temporary file as it left it.                 *)
LEMMA WriteInv ==
  ASSUME TariffInv, NEW s \in Mgrs, Write(s)
  PROVE  Kept
<1>1. TariffTypeOK /\ SaveFits /\ RestartLosesNothing
  BY DEF TariffInv, SaveInv
<1>2. /\ save[s] \in {"open", "moved"} /\ save' = [save EXCEPT ![s] = "written"]
      /\ UNCHANGED <<ops, lives, made, current, shared, lastBalance, mgr, today, parsed, cmd, todo,
                     late, told, dropped, again>>
      /\ \/ disk' = disk /\ temp' \in {Snapshot(mgr[s]), TORN} /\ save[s] = "open"
         \/ disk' = Snapshot(mgr[s]) /\ temp' = temp /\ save[s] = "moved"
  BY DEF Write
<1>3. /\ Snapshot(mgr[s]) \in State /\ Snapshot(mgr[s]) # TORN /\ s <= made /\ (made = 1 => s = 1)
      /\ mgr[s].since # 0 /\ mgr[s].date # 0
  BY <1>2, Saving
<1>4. /\ save' \in [Mgrs -> {"idle", "failed", "open", "moved", "written"}] /\ save'[s] = "written"
      /\ \A t \in Mgrs \ {s} : save'[t] = save[t]
      /\ disk' \in State \cup {NIL, TORN} /\ temp' \in State \cup {NIL, TORN}
  BY <1>1, <1>2, <1>3 DEF TariffTypeOK
<1>5. TariffTypeOK' /\ AlertInv' /\ \A t \in Mgrs : Timely(t)
  BY <1>2, <1>4, SaveKeeps
<1>6. Month(today)' = Month(today)
  BY <1>2 DEF Month
<1>7. SaveFits'
  <2>1. SUFFICES ASSUME made = 1 PROVE SaveFits'
    BY <1>2 DEF SaveFits
  <2>2. s = 1 /\ save[1] = "open" /\ temp = TORN /\ mgr[1].since <= Month(today) /\ mgr[1].date <= today
    BY <1>1, <1>2, <1>3, <2>1 DEF SaveFits
  <2>3. temp' = Snapshot(mgr[1])
    BY <2>1, <2>2, OthersIdle DEF Write
  <2> QED
    BY <1>2, <1>3, <1>4, <1>6, <2>2, <2>3 DEF SaveFits, Snapshot
<1>8. RestartLosesNothing'
  BY <1>1, <1>2, <1>3, <1>4 DEF RestartLosesNothing
<1> QED
  BY <1>5, <1>7, <1>8 DEF Kept, TariffInv, SaveInv

(* A failed write leaves the file of the last save.                        *)
LEMMA WriteFailsInv ==
  ASSUME TariffInv, NEW s \in Mgrs, WriteFails(s)
  PROVE  Kept
<1>1. TariffTypeOK /\ SaveFits /\ RestartLosesNothing
  BY DEF TariffInv, SaveInv
<1>2. /\ save[s] \in {"open", "moved"} /\ save' = [save EXCEPT ![s] = "failed"]
      /\ UNCHANGED <<ops, lives, made, current, shared, lastBalance, mgr, today, parsed, cmd, todo,
                     late, told, dropped, again>>
      /\ UNCHANGED <<disk, temp>>
  BY DEF WriteFails
<1>3. s <= made /\ (made = 1 => s = 1) /\ mgr[s].since # 0 /\ mgr[s].date # 0
  BY <1>2, Saving
<1>4. /\ save' \in [Mgrs -> {"idle", "failed", "open", "moved", "written"}] /\ save'[s] = "failed"
      /\ \A t \in Mgrs \ {s} : save'[t] = save[t]
      /\ disk' \in State \cup {NIL, TORN} /\ temp' \in State \cup {NIL, TORN}
  BY <1>1, <1>2 DEF TariffTypeOK
<1>5. TariffTypeOK' /\ AlertInv' /\ \A t \in Mgrs : Timely(t)
  BY <1>2, <1>4, SaveKeeps
<1>6. Month(today)' = Month(today)
  BY <1>2 DEF Month
<1>7. SaveFits'
  BY <1>1, <1>2, <1>3, <1>4, <1>6 DEF SaveFits
<1>8. RestartLosesNothing'
  BY <1>1, <1>2, <1>3, <1>4 DEF RestartLosesNothing
<1> QED
  BY <1>5, <1>7, <1>8 DEF Kept, TariffInv, SaveInv

(* The rename puts the manager's own snapshot in place of the file.        *)
LEMMA RenameInv ==
  ASSUME TariffInv, NEW s \in Mgrs, Rename(s)
  PROVE  Kept
<1>1. TariffTypeOK /\ SaveFits /\ RestartLosesNothing /\ today \in Dates
  BY DEF TariffInv, SaveInv, TariffTypeOK
<1>2. /\ save[s] = "written"
      /\ UNCHANGED <<ops, lives, made, current, shared, lastBalance, mgr, today, parsed, cmd, todo,
                     late, told, dropped, again>>
      /\ \/ temp = NIL /\ save' = [save EXCEPT ![s] = "failed"] /\ disk' = disk /\ temp' = temp
         \/ /\ temp # NIL /\ disk' = temp /\ temp' = NIL
            /\ save' = [t \in Mgrs |-> IF t = s THEN "idle"
                                       ELSE IF save[t] = "open" THEN "moved" ELSE save[t]]
  BY DEF Rename
<1>3. /\ Snapshot(mgr[s]) \in State /\ Snapshot(mgr[s]) # TORN /\ Snapshot(mgr[s]) # NIL
      /\ s <= made /\ (made = 1 => s = 1) /\ (made # 1 => shared) /\ mgr[s].since # 0 /\ mgr[s].date # 0
      /\ Snapshot(mgr[s]).count = mgr[s].count /\ Snapshot(mgr[s]).balance = mgr[s].balance
      /\ Snapshot(mgr[s]).since = mgr[s].since /\ Snapshot(mgr[s]).date = mgr[s].date
  BY <1>2, Saving
<1>4. /\ save' \in [Mgrs -> {"idle", "failed", "open", "moved", "written"}]
      /\ \A t \in Mgrs \ {s} : save[t] = "idle" => save'[t] = "idle"
      /\ save'[s] \in {"idle", "failed"} /\ (temp # NIL => save'[s] = "idle")
      /\ disk' \in State \cup {NIL, TORN} /\ temp' \in State \cup {NIL, TORN}
  BY <1>1, <1>2 DEF TariffTypeOK
<1>5. TariffTypeOK' /\ AlertInv' /\ \A t \in Mgrs : Timely(t)
  BY <1>2, <1>4, SaveKeeps
<1>6. made = 1 => s = 1 /\ temp = Snapshot(mgr[1]) /\ temp # NIL /\ disk' = Snapshot(mgr[1])
  BY <1>1, <1>2, <1>3 DEF SaveFits
<1>7. Month(today)' = Month(today)
  BY <1>2 DEF Month
<1>8. SaveFits'
  BY <1>1, <1>2, <1>3, <1>4, <1>6, <1>7 DEF SaveFits
<1>9. RestartLosesNothing'
  <2>1. disk' = TORN => shared'
    BY <1>1, <1>2, <1>3, <1>6 DEF RestartLosesNothing
  <2>2. ASSUME made = 1
        PROVE  /\ Restore(disk)'.balance = mgr[1].balance
               /\ \A k \in Kinds : UpToDate(mgr[1], k) => Restore(disk)'.count[k] = mgr[1].count[k]
    <3>1. PICK file \in State \cup {NIL, TORN} : file = Snapshot(mgr[1]) /\ file \in State
      BY <1>3, <1>6, <2>2
    <3>2. /\ Restore(file).balance = file.balance
          /\ \A k \in Kinds : Restore(file).count[k] =
               IF (k = "sms" /\ file.since # Month(today)) \/ (k = "day" /\ file.date # today)
                 THEN 0 ELSE file.count[k]
      BY <1>1, <3>1, RestoredManager
    <3>3. /\ file.balance = mgr[1].balance /\ file.count = mgr[1].count
          /\ file.since = mgr[1].since /\ file.date = mgr[1].date /\ file.since # 0 /\ file.date # 0
      BY <1>3, <1>6, <2>2, <3>1
    <3>4. Restore(disk)' = Restore(file)
      BY <1>2, <1>6, <1>7, <2>2, <3>1 DEF Restore
    <3> QED
      BY <3>2, <3>3, <3>4 DEF UpToDate
  <2>3. \A k : UpToDate(mgr[1], k)' <=> UpToDate(mgr[1], k)
    BY <1>2, <1>7 DEF UpToDate
  <2> QED
    BY <1>2, <2>1, <2>2, <2>3 DEF RestartLosesNothing
<1> QED
  BY <1>5, <1>8, <1>9 DEF Kept, TariffInv, SaveInv

(* A first manager restores the file; a second one ends the promise.       *)
LEMMA NewManagerInv ==
  ASSUME TariffInv, NewManager
  PROVE  Kept
<1>1. TariffTypeOK /\ MadeOnly /\ FlagsTold /\ SaveFits /\ RestartLosesNothing
  BY DEF TariffInv, AlertInv, SaveInv
<1>2. /\ made < MaxMgr /\ made' = made + 1 /\ shared' = (shared \/ made = 1) /\ current = made
      /\ UNCHANGED <<ops, lives, current, disk, today, parsed, cmd, todo, late>>
  BY DEF NewManager
<1>3. /\ made \in Nat /\ MaxMgr \in Nat /\ made + 1 \in Mgrs /\ made' \in 0..MaxMgr /\ made + 1 > made
      /\ current' <= made' /\ \A t \in Mgrs : t \in Nat
  BY <1>1, <1>2, TariffConstants DEF TariffTypeOK, Mgrs
<1>4. /\ today \in Dates /\ disk \in State \cup {NIL, TORN} /\ lastBalance \in Balances
      /\ shared \in BOOLEAN /\ mgr \in [Mgrs -> Manager]
      /\ save \in [Mgrs -> {"idle", "failed", "open", "moved", "written"}]
  BY <1>1 DEF TariffTypeOK
<1>5. PICK file \in State \cup {NIL, TORN} : file = disk
  BY <1>4
<1>6. PICK s \in Mgrs, r \in Manager : s = made + 1 /\ r = Restore(disk)
  <2>1. Restore(file) \in Manager
    BY <1>4, RestoredManager
  <2> QED
    BY <1>3, <1>5, <2>1
<1>7. /\ r.warned = {} /\ r.since <= Month(today) /\ r.date <= today
      /\ (r.since = 0 \/ r.date = 0) => r = Fresh /\ disk \in {NIL, TORN}
  BY <1>4, <1>5, <1>6, RestoredManager
<1>8. told[s] = {} /\ dropped[s] = {} /\ save[s] = "idle"
  BY <1>1, <1>3, <1>6 DEF MadeOnly
<1>9. mgr[s].warned = {}
  BY <1>1, <1>8 DEF FlagsTold
<1>10. PICK m \in Manager :
         /\ m.warned = told'[s] \cup dropped'[s] /\ mgr' = [mgr EXCEPT ![s] = m] /\ lastBalance' \in Balances
         /\ told' \in [Mgrs -> SUBSET Alarms] /\ dropped' \in [Mgrs -> SUBSET Quotas]
         /\ \A t \in Mgrs \ {s} : told'[t] = told[t] /\ dropped'[t] = dropped[t]
         /\ again' = FALSE
         /\ temp' \in {temp, TORN}
         /\ \/ m = r /\ save' = save
            \/ /\ save' = [save EXCEPT ![s] = "open"] /\ temp' = TORN
               /\ m.since # 0 /\ m.since <= Month(today) /\ m.date # 0 /\ m.date <= today
  <2>1. CASE lastBalance # 0
    <3>1. PICK b \in Balances : b = lastBalance /\ SetBalance(s, r, b) /\ lastBalance' = lastBalance
      BY <1>4, <1>6, <2>1 DEF NewManager
    <3>2. r \in Manager /\ r.warned = mgr[s].warned
      BY <1>6, <1>7, <1>9
    <3>3. /\ told' \in [Mgrs -> SUBSET Alarms] /\ dropped' \in [Mgrs -> SUBSET Quotas]
          /\ \A t \in Mgrs \ {s} : told'[t] = told[t] /\ dropped'[t] = dropped[t]
          /\ again' = FALSE
          /\ \E f \in Manager :
               /\ Change(s, f) /\ f.warned = told'[s] \cup dropped'[s]
               /\ f.count = r.count /\ f.limit = r.limit /\ f.balance = b
               /\ f.since = r.since /\ f.date = r.date /\ Evaluated(f, "balance")
      BY <1>1, <1>6, <3>1, <3>2, BalanceSet
    <3>4. PICK f \in Manager : /\ Change(s, f) /\ f.warned = told'[s] \cup dropped'[s]
                               /\ f.since = r.since /\ f.date = r.date
      BY <3>3
    <3>5. /\ mgr' = [mgr EXCEPT ![s] = Dated(f)] /\ save' = [save EXCEPT ![s] = "open"] /\ temp' = TORN
      BY <3>4 DEF Change
    <3>6. /\ Dated(f) \in Manager /\ Dated(f).since # 0 /\ Dated(f).since \in {f.since, Month(today)}
          /\ Dated(f).date # 0 /\ Dated(f).date \in {f.date, today} /\ Dated(f).warned = f.warned
      BY <1>4, DatedManager
    <3>7. Month(today) \in Nat /\ today \in Nat
      BY <1>4, Calendar
    <3>8. Dated(f).since <= Month(today) /\ Dated(f).date <= today
      BY <1>7, <3>4, <3>6, <3>7
    <3> QED
      BY <1>4, <3>1, <3>3, <3>4, <3>5, <3>6, <3>8
  <2>2. CASE lastBalance = 0
    <3>1. mgr' = [mgr EXCEPT ![s] = r] /\ lastBalance' = r.balance
          /\ UNCHANGED <<save, temp, told, dropped, again>>
      BY <1>6, <2>2 DEF NewManager
    <3>2. r.balance \in Balances
      BY ManagerFields
    <3>3. /\ told' \in [Mgrs -> SUBSET Alarms] /\ dropped' \in [Mgrs -> SUBSET Quotas]
          /\ r.warned = told'[s] \cup dropped'[s]
      BY <1>1, <1>7, <1>8, <3>1 DEF TariffTypeOK
    <3>4. again' = FALSE
      BY <1>1, <3>1 DEF TariffTypeOK, FlagsTold
    <3> QED
      BY <3>1, <3>2, <3>3, <3>4
  <2> QED
    BY <2>1, <2>2
<1>11. /\ mgr' \in [Mgrs -> Manager] /\ mgr'[s] = m
       /\ save' \in [Mgrs -> {"idle", "failed", "open", "moved", "written"}]
       /\ \A t \in Mgrs \ {s} : mgr'[t] = mgr[t] /\ save'[t] = save[t]
       /\ \/ m = r /\ save'[s] = "idle" /\ temp' \in {temp, TORN}
          \/ /\ save'[s] = "open" /\ temp' = TORN
             /\ m.since # 0 /\ m.since <= Month(today) /\ m.date # 0 /\ m.date <= today
  BY <1>4, <1>8, <1>10
<1>12. TariffTypeOK'
  <2>1. shared' \in BOOLEAN /\ again' \in BOOLEAN
    BY <1>2, <1>10
  <2> QED
    BY <1>1, <1>2, <1>3, <1>10, <1>11, <2>1 DEF TariffTypeOK
<1>13. MadeOnly'
  <2>1. /\ todo' \cup late' \subseteq 1..current' /\ parsed' \subseteq (1..current') \X Balances
        /\ (todo' \cup late' # {} => cmd' # NIL) /\ (late' # {} => cmd'[1] = "usage")
    BY <1>1, <1>2 DEF MadeOnly
  <2>2. made' > 1 => shared'
    <3>1. made' > 1 => made = 1 \/ made > 1
      BY <1>2, <1>3
    <3>2. made > 1 => shared
      BY <1>1 DEF MadeOnly
    <3> QED
      BY <1>2, <3>1, <3>2
  <2>3. \A t \in Mgrs : t > made' => t > made /\ t # s
    BY <1>2, <1>3, <1>6
  <2>4. \A t \in Mgrs : t > made' => told'[t] = {} /\ dropped'[t] = {} /\ save'[t] = "idle"
    BY <1>1, <1>10, <1>11, <2>3 DEF MadeOnly
  <2>5. \A t \in Mgrs : save'[t] # "idle" => mgr'[t].since # 0 /\ mgr'[t].date # 0
    BY <1>1, <1>11 DEF MadeOnly
  <2> QED
    BY <1>3, <2>1, <2>2, <2>4, <2>5 DEF MadeOnly
<1>14. FlagsTold'
  BY <1>1, <1>10, <1>11 DEF FlagsTold
<1>15. \A t \in Mgrs : Timely(t)
  <2>1. ~(s <= made)
    BY <1>3, <1>6
  <2>2. Timely(s)
    BY <2>1 DEF Timely
  <2> QED
    BY <1>11, <2>2, TimelySame
<1>16. disk' = TORN => shared'
  BY <1>1, <1>2 DEF RestartLosesNothing
<1>17. CASE made # 0
  <2>1. made' # 1
    BY <1>2, <1>3, <1>17
  <2> QED
    BY <1>12, <1>13, <1>14, <1>15, <1>16, <2>1 DEF Kept, TariffInv, AlertInv, SaveInv, SaveFits, RestartLosesNothing
<1>18. CASE made = 0
  <2>1. s = 1
    BY <1>6, <1>18
  <2>2. Month(today)' = Month(today)
    BY <1>2 DEF Month
  <2>3. SaveFits'
    BY <1>2, <1>7, <1>11, <2>1, <2>2 DEF SaveFits, Fresh
  <2>4. Restore(disk)' = r
    BY <1>2, <1>6, <2>2 DEF Restore, Fresh
  <2>5. RestartLosesNothing'
    BY <1>11, <1>16, <2>1, <2>4 DEF RestartLosesNothing
  <2> QED
    BY <1>12, <1>13, <1>14, <1>15, <2>3, <2>5 DEF Kept, TariffInv, AlertInv, SaveInv
<1> QED
  BY <1>17, <1>18

(* The steps that leave the managers and their saves alone.                *)
LEMMA InputInv ==
  ASSUME TariffInv,
         \/ \E b \in Balances : ParseBalance(b)
         \/ \E c \in Commands : Command(c)
         \/ Wire
  PROVE  Kept
<1>1. TariffTypeOK /\ MadeOnly /\ FlagsTold /\ SaveFits /\ RestartLosesNothing
  BY DEF TariffInv, AlertInv, SaveInv
<1>2. UNCHANGED <<lives, made, shared, mgr, save, disk, temp, today, told, dropped, again>>
  BY DEF ParseBalance, Command, Wire
<1>3. /\ made \in Nat /\ current \in Nat /\ made <= MaxMgr /\ current <= made /\ ops \in Nat
      /\ MaxOps \in Nat /\ MaxLater \in Nat /\ MaxLater <= MaxOps /\ ops \in 0..MaxOps
  BY <1>1, TariffConstants, TariffAssumption DEF TariffTypeOK, MadeOnly
<1>4. current' \in 0..MaxMgr /\ current' <= made /\ 1..current \subseteq 1..current'
  BY <1>3, TariffConstants DEF ParseBalance, Command, Wire
<1>5. ops' \in 0..MaxOps
  BY <1>3 DEF ParseBalance, Command, Wire, NextOp
<1>6. /\ lastBalance' \in Balances /\ parsed' \subseteq (1..current') \X Balances
      /\ cmd' \in Commands \cup {NIL} /\ todo' \cup late' \subseteq 1..current'
      /\ (todo' \cup late' # {} => cmd' # NIL) /\ (late' # {} => cmd'[1] = "usage")
  <2>1. CASE \E b \in Balances : ParseBalance(b)
    <3>1. PICK b \in Balances : ParseBalance(b)
      BY <2>1
    <3>2. /\ lastBalance' = b /\ parsed' = parsed \cup {<<current, b>>} /\ current > 0
          /\ UNCHANGED <<current, cmd, todo, late>>
      BY <3>1 DEF ParseBalance
    <3>3. current \in 1..current
      BY <1>3, <3>2
    <3> QED
      BY <1>1, <3>2, <3>3 DEF TariffTypeOK, MadeOnly
  <2>2. CASE \E c \in Commands : Command(c)
    <3>1. PICK c \in Commands : Command(c)
      BY <2>2
    <3>2. /\ cmd' = c /\ todo' = 1..current /\ todo \cup late = {}
          /\ UNCHANGED <<current, lastBalance, parsed, late>>
      BY <3>1 DEF Command
    <3> QED
      BY <1>1, <3>2, TariffConstants DEF TariffTypeOK, MadeOnly
  <2>3. CASE Wire
    <3>1. UNCHANGED <<lastBalance, parsed, cmd, todo, late>>
      BY <2>3 DEF Wire
    <3> QED
      BY <1>1, <1>4, <3>1 DEF TariffTypeOK, MadeOnly
  <2> QED
    BY <2>1, <2>2, <2>3
<1>7. 1..current' \subseteq Mgrs
  BY <1>4, TariffConstants DEF Mgrs
<1>8. TariffTypeOK'
  <2>1. todo' \subseteq Mgrs /\ late' \subseteq Mgrs /\ parsed' \subseteq Mgrs \X Balances
    BY <1>6, <1>7
  <2> QED
    BY <1>1, <1>2, <1>4, <1>5, <1>6, <2>1 DEF TariffTypeOK
<1>9. MadeOnly'
  BY <1>1, <1>2, <1>4, <1>6 DEF MadeOnly
<1>10. FlagsTold'
  BY <1>1, <1>2 DEF FlagsTold
<1>11. Month(today)' = Month(today)
  BY <1>2 DEF Month
<1>12. SaveFits'
  BY <1>1, <1>2, <1>11 DEF SaveFits, Snapshot, Fresh
<1>13. RestartLosesNothing'
  <2>1. Restore(disk)' = Restore(disk)
    BY <1>2, <1>11 DEF Restore, Fresh
  <2>2. \A k : UpToDate(mgr[1], k)' <=> UpToDate(mgr[1], k)
    BY <1>2, <1>11 DEF UpToDate
  <2> QED
    BY <1>1, <1>2, <2>1, <2>2 DEF RestartLosesNothing
<1>14. \A t \in Mgrs : Timely(t)
  BY <1>2, TimelySame
<1> QED
  BY <1>8, <1>9, <1>10, <1>12, <1>13, <1>14 DEF Kept, TariffInv, AlertInv, SaveInv

(* The first start finds no file.                                          *)
LEMMA InitInv ==
  ASSUME TariffInit
  PROVE  TariffInv
<1>1. TariffTypeOK
  <2>1. /\ made \in 0..MaxMgr /\ current \in 0..MaxMgr /\ ops \in 0..MaxOps /\ lives \in 1..MaxLives
        /\ today \in Dates /\ lastBalance \in Balances
    BY TariffConstants DEF TariffInit
  <2> QED
    BY <2>1, FreshManager DEF TariffInit, TariffTypeOK
<1>2. MadeOnly
  BY DEF TariffInit, MadeOnly
<1>3. FlagsTold
  BY FreshManager DEF TariffInit, FlagsTold
<1>4. SaveInv
  BY TariffConstants DEF TariffInit, SaveInv, SaveFits, RestartLosesNothing
<1> QED
  BY <1>1, <1>2, <1>3, <1>4 DEF TariffInv, AlertInv

(* A restart keeps the files and nothing else.                             *)
LEMMA RestartInv ==
  ASSUME TariffInv, Restart
  PROVE  Kept
<1>1. TariffTypeOK /\ RestartLosesNothing /\ FlagsTold
  BY DEF TariffInv, SaveInv, AlertInv
<1>2. /\ lives < MaxLives /\ lives' = lives + 1 /\ made' = 0 /\ current' = 0
      /\ mgr' = [s \in Mgrs |-> Fresh] /\ save' = [s \in Mgrs |-> "idle"]
      /\ lastBalance' = 0 /\ parsed' = {} /\ cmd' = NIL /\ todo' = {} /\ late' = {}
      /\ told' = [s \in Mgrs |-> {}] /\ dropped' = [s \in Mgrs |-> {}]
      /\ UNCHANGED <<ops, shared, disk, temp, today, again>>
  BY DEF Restart
<1>3. lives' \in 1..MaxLives
  BY <1>1, <1>2, TariffConstants DEF TariffTypeOK
<1>4. TariffTypeOK'
  <2>1. made' \in 0..MaxMgr /\ current' \in 0..MaxMgr /\ lastBalance' \in Balances
    BY <1>2, TariffConstants
  <2> QED
    BY <1>1, <1>2, <1>3, <2>1, FreshManager DEF TariffTypeOK
<1>5. MadeOnly'
  BY <1>2 DEF MadeOnly
<1>6. FlagsTold'
  BY <1>1, <1>2, FreshManager DEF FlagsTold
<1>7. SaveInv'
  BY <1>1, <1>2 DEF SaveInv, SaveFits, RestartLosesNothing
<1>8. \A t \in Mgrs : Timely(t)
  <2>1. \A t \in Mgrs : ~(t <= made')
    BY <1>2 DEF Mgrs
  <2> QED
    BY <2>1 DEF Timely
<1> QED
  BY <1>4, <1>5, <1>6, <1>7, <1>8 DEF Kept, TariffInv, AlertInv

(* No manager is dated ahead: one that is of the new day has no file yet,  *)
(* and one that is of its month was of the month before.                   *)
LEMMA NextDayInv ==
  ASSUME TariffInv, NextDay
  PROVE  Kept
<1>1. TariffTypeOK /\ MadeOnly /\ FlagsTold /\ SaveFits /\ RestartLosesNothing
  BY DEF TariffInv, AlertInv, SaveInv
<1>2. /\ today < Days /\ today' = today + 1
      /\ UNCHANGED <<ops, lives, made, current, shared, lastBalance, mgr, save, disk, temp, parsed,
                     cmd, todo, late, told, dropped, again>>
  BY DEF NextDay
<1>3. /\ mgr[1] \in Manager /\ mgr[1].since \in Nat /\ mgr[1].date \in Nat
  BY <1>1, TariffConstants, ManagerFields DEF TariffTypeOK
<1>4. /\ today \in Dates /\ today' \in Dates /\ today \in Nat /\ Days \in Nat
      /\ Month(today) \in Nat /\ Month(today)' \in Nat /\ Month(today) <= Month(today)'
  <2>1. today \in Dates /\ today \in Nat /\ Days \in Nat
    BY <1>1, Calendar DEF TariffTypeOK
  <2>2. today' \in Dates
    BY <1>2, <2>1 DEF Dates
  <2> QED
    BY <1>2, <2>1, <2>2 DEF Month
<1>5. TariffTypeOK'
  BY <1>1, <1>2, <1>4 DEF TariffTypeOK
<1>6. MadeOnly' /\ FlagsTold'
  BY <1>1, <1>2 DEF MadeOnly, FlagsTold
<1>7. SaveFits'
  <2>1. SUFFICES ASSUME made = 1 PROVE SaveFits'
    BY <1>2 DEF SaveFits
  <2>2. mgr[1].since <= Month(today)' /\ mgr[1].date <= today'
    BY <1>1, <1>2, <1>3, <1>4, <2>1 DEF SaveFits
  <2> QED
    BY <1>1, <1>2, <2>1, <2>2 DEF SaveFits, Snapshot, Fresh
<1>8. RestartLosesNothing'
  <2>1. SUFFICES ASSUME made = 1, save[1] = "idle"
                 PROVE  /\ Restore(disk)'.balance = mgr[1].balance
                        /\ \A k \in Kinds : UpToDate(mgr[1], k)' => Restore(disk)'.count[k] = mgr[1].count[k]
    BY <1>1, <1>2 DEF RestartLosesNothing
  <2>2. /\ Restore(disk).balance = mgr[1].balance
        /\ \A k \in Kinds : UpToDate(mgr[1], k) => Restore(disk).count[k] = mgr[1].count[k]
        /\ mgr[1].since <= Month(today) /\ mgr[1].date <= today
    BY <1>1, <2>1 DEF RestartLosesNothing, SaveFits
  <2>3. CASE mgr[1].since = 0 \/ mgr[1].date = 0
    <3>1. mgr[1] = Fresh /\ disk \in {NIL, TORN}
      BY <1>1, <2>1, <2>3 DEF SaveFits
    <3>2. Restore(disk)' = Fresh
      BY <1>2, <3>1 DEF Restore, Fresh
    <3> QED
      BY <3>1, <3>2
  <2>4. CASE mgr[1].since # 0 /\ mgr[1].date # 0
    <3>1. CASE disk \in {NIL, TORN}
      <4>1. Restore(disk)' = Restore(disk) /\ Restore(disk) = Fresh
        BY <1>2, <3>1 DEF Restore, Fresh
      <4>2. \A k \in Kinds : Fresh.count[k] = 0
        BY FreshManager
      <4>3. \A k \in Kinds : UpToDate(mgr[1], k)' => UpToDate(mgr[1], k)
        BY <1>2, <1>3, <1>4, <2>2, <2>4 DEF UpToDate
      <4> QED
        BY <2>2, <4>1, <4>2, <4>3
    <3>2. CASE disk \in State /\ disk \notin {NIL, TORN}
      <4> DEFINE c(d, mo) == [k \in Kinds |->
                   IF (k = "sms" /\ disk.since # mo) \/ (k = "day" /\ disk.date # d) THEN 0 ELSE disk.count[k]]
      <4>1. /\ Restore(disk) = [Fresh EXCEPT !.balance = disk.balance, !.since = Month(today), !.date = today,
                                             !.count = c(today, Month(today))]
            /\ Restore(disk)' = [Fresh EXCEPT !.balance = disk.balance, !.since = Month(today)', !.date = today',
                                              !.count = c(today', Month(today)')]
        BY <1>2, <3>2 DEF Restore, Fresh
      <4>2. /\ Restore(disk)'.balance = disk.balance /\ Restore(disk).balance = disk.balance
            /\ Restore(disk)'.count = c(today', Month(today)') /\ Restore(disk).count = c(today, Month(today))
        BY <4>1 DEF Fresh
      <4>3. ASSUME NEW k \in Kinds, UpToDate(mgr[1], k)'
            PROVE  Restore(disk)'.count[k] = mgr[1].count[k]
        <5>1. k # "day"
          BY <1>2, <1>3, <1>4, <2>2, <2>4, <4>3 DEF UpToDate
        <5>2. k = "sms" => mgr[1].since = Month(today)' /\ Month(today)' = Month(today)
          BY <1>2, <1>3, <1>4, <2>2, <2>4, <4>3 DEF UpToDate
        <5>3. UpToDate(mgr[1], k)
          BY <5>1, <5>2 DEF UpToDate
        <5>4. Restore(disk).count[k] = mgr[1].count[k]
          BY <2>2, <5>3
        <5>5. c(today', Month(today)')[k] = c(today, Month(today))[k]
          BY <5>1, <5>2
        <5> QED
          BY <4>2, <5>4, <5>5
      <4> QED
        BY <2>2, <4>2, <4>3
    <3> QED
      BY <1>1, <3>1, <3>2 DEF TariffTypeOK
  <2> QED
    BY <2>3, <2>4
<1>9. \A t \in Mgrs : Timely(t)
  BY <1>2, TimelySame
<1> QED
  BY <1>5, <1>6, <1>7, <1>8, <1>9 DEF Kept, TariffInv, AlertInv, SaveInv

(* TariffInv holds at the start; every step keeps it and is timely.        *)
LEMMA TariffInductive ==
  /\ TariffInit => TariffInv
  /\ TariffInv /\ [TariffNext]_tariffVars => TariffInv'
  /\ TariffInv /\ TariffNext => \A s \in Mgrs : Timely(s)
<1>1. ASSUME TariffInit PROVE TariffInv
  BY <1>1, InitInv
<1>2. ASSUME TariffInv, TariffNext PROVE Kept
  <2>1. CASE \E s \in Mgrs, k \in Kinds \ {"day"}, a \in Amounts : Record(s, k, a)
    BY <1>2, <2>1, RecordInv
  <2>2. CASE \E s \in Mgrs : SaveStep(s)
    BY <1>2, <2>2, WriteInv, WriteFailsInv, RenameInv DEF SaveStep
  <2>3. CASE \E s \in Mgrs : Handle(s) \/ HandleUsage(s)
    BY <1>2, <2>3, HandleInv, UsageInv
  <2>4. CASE \E s \in Mgrs, b \in Balances : UpdateBalance(s, b)
    BY <1>2, <2>4, BalanceInv
  <2>5. CASE (\E b \in Balances : ParseBalance(b)) \/ (\E c \in Commands : Command(c)) \/ Wire
    BY <1>2, <2>5, InputInv
  <2>6. CASE NewManager
    BY <1>2, <2>6, NewManagerInv
  <2>7. CASE Restart
    BY <1>2, <2>7, RestartInv
  <2>8. CASE NextDay
    BY <1>2, <2>8, NextDayInv
  <2> QED
    BY <1>2, <2>1, <2>2, <2>3, <2>4, <2>5, <2>6, <2>7, <2>8 DEF TariffNext
<1>3. ASSUME TariffInv, UNCHANGED tariffVars PROVE TariffInv'
  <2>1. TariffTypeOK' /\ MadeOnly' /\ FlagsTold'
    BY <1>3 DEF TariffInv, AlertInv, TariffTypeOK, MadeOnly, FlagsTold, tariffVars
  <2>2. SaveFits' /\ RestartLosesNothing'
    BY <1>3 DEF TariffInv, SaveInv, SaveFits, RestartLosesNothing, UpToDate, Restore, Fresh, Snapshot, Month, tariffVars
  <2> QED
    BY <2>1, <2>2 DEF TariffInv, AlertInv, SaveInv
<1> QED
  BY <1>1, <1>2, <1>3 DEF Kept

(* Every field of the managers, the files and the runner keeps its type.   *)
THEOREM TariffTypeCorrect == TariffSpec => []TariffTypeOK
<1>1. TariffInv => TariffTypeOK
  BY DEF TariffInv
<1> QED
  BY <1>1, TariffInductive, PTL DEF TariffSpec

(* A counter that moves to 90% of its quota or past it, and a balance that *)
(* falls below its threshold, has been told of by the manager of its       *)
(* session, once since the last monthly reset or the last balance that was *)
(* high enough, unless SetUsage had found the quota used up.               *)
THEOREM Alerts == TariffSpec => AlertsTold
<1>1. TariffInv' => ~again'
  BY DEF TariffInv, AlertInv, FlagsTold
<1>2. TariffInv /\ [TariffNext]_tariffVars => [~again' /\ \A s \in Mgrs : Timely(s)]_tariffVars
  BY <1>1, TariffInductive
<1> QED
  BY <1>2, TariffInductive, PTL DEF TariffSpec, AlertsTold

(* Whatever crashes and failed writes, a finished save of an only manager  *)
(* is what the next start restores, and the file is never left unfinished. *)
THEOREM RestartSafe == TariffSpec => []RestartLosesNothing
<1>1. TariffInv => RestartLosesNothing
  BY DEF TariffInv, SaveInv
<1> QED
  BY <1>1, TariffInductive, PTL DEF TariffSpec
=============================================================================
