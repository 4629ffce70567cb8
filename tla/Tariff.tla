------------------------------- MODULE Tariff -------------------------------
(***************************************************************************)
(* Quota and balance accounting of one modem: internal/tariff and the      *)
(* parts of internal/services that use it (gateway_handlers.go,            *)
(* gateway_tariff.go, gateway_ops.go).                                     *)
(*                                                                         *)
(* Every session of the runner makes a Manager and restores it from the    *)
(* file of the modem.  The MQTT handlers of earlier sessions stay          *)
(* registered (client_tcp.go) and work on the managers of their sessions,  *)
(* each with a mutex of its own; all of them save to the same file through *)
(* the same temporary file.  A save is three steps, open and truncate,     *)
(* write, rename, during which the manager is locked; the process may      *)
(* crash between them.                                                     *)
(*                                                                         *)
(* "sms" and "day" count the messages of a month and of a day, "call" the  *)
(* minutes and "data" the bytes.  They differ in the restore, and "day"    *)
(* has no quota.  ResetDaily and RecordData have no caller.                *)
(***************************************************************************)
EXTENDS Integers, FiniteSets

CONSTANTS
  MaxMgr,      \* bound: managers (sessions) in one life of the process
  MaxLives,    \* bound: starts of the process
  MaxOps,      \* bound: records, balances and commands
  MaxLater,    \* bound: of them, with a reconnect or a restart before the last
  MaxCount,    \* bound: a counter
  Days,        \* bound: days; the last one begins another month
  Kinds,       \* of {"sms", "day", "call", "data"}
  Amounts,     \* messages, minutes or bytes of one record
  Overrides,   \* values a command gives the counters
  Limit,       \* the configured quotas
  Balances,    \* 0 stands for an unknown one, too
  MinBalance,  \* min_balance_alert
  NIL, TORN    \* no file; an empty or unfinished file, which json.Unmarshal refuses

Mgrs == 1..MaxMgr
Dates == 1..Days
Months == {1, 2}
Month(d) == IF d < Days THEN 1 ELSE 2

LowBalance == <<"balance", "low">>
Quotas == (Kinds \ {"day"}) \X {"90", "full"}
Alarms == Quotas \cup {LowBalance}

VARIABLES
  ops,            \* records, balances and commands so far
  lives, made,    \* starts of the process; managers made in this one
  current,        \* r.tariffMgr
  shared,         \* history: some life of the process has had two managers
  mgr,            \* per manager: counters, limits, balance, flags
  save,           \* per manager: its save, under its lock
  disk, temp,     \* tariff_<id>.json and its .tmp
  today,          \* the calendar
  lastBalance,    \* r.lastBalance
  parsed,         \* managers and balances in applyParsedBalance, behind r.mu
  cmd,            \* a tariff command
  todo, late,     \* managers whose handler has to run it; and still to override
  told,           \* history: alerts of a manager, until it may repeat them
  dropped,        \* history: flags SetUsage has raised, whose alerts it drops
  again           \* history: a manager has repeated an alert

runnerVars == <<lives, made, current, shared, lastBalance>>
alertVars == <<told, dropped, again>>
tariffVars == <<ops, runnerVars, mgr, save, disk, temp, today, parsed, cmd, todo, late, alertVars>>

(* One limit stands for the three quotas and the low balance: a command    *)
(* sets or clears them all, and an override sets every counter.            *)
Manager == [count : [Kinds -> 0..MaxCount], limit : {0, Limit}, warned : SUBSET Alarms,
            balance : Balances, since : Months \cup {0}, date : Dates \cup {0}]
State == [count : [Kinds -> 0..MaxCount], balance : Balances, since : Months, date : Dates]
Commands == {<<"set", l>> : l \in {0, Limit}} \cup {<<"usage", v>> : v \in Overrides} \cup {<<"reset", 0>>}

ASSUME TariffAssumption ==
  /\ MaxMgr \in Nat \ {0} /\ MaxLives \in Nat \ {0} /\ Days \in Nat \ {0} /\ MaxOps \in Nat /\ MaxLater \in 0..MaxOps
  /\ MaxCount \in Nat /\ Limit \in Nat /\ MinBalance \in Nat
  /\ Kinds \subseteq {"sms", "day", "call", "data"}
  /\ Amounts \subseteq Nat \ {0} /\ Overrides \subseteq 0..MaxCount
  /\ Balances \subseteq Nat /\ 0 \in Balances
  /\ NIL # TORN /\ {NIL, TORN} \cap State = {} /\ NIL \notin Commands

TariffTypeOK ==
  /\ ops \in 0..MaxOps /\ lives \in 1..MaxLives /\ made \in 0..MaxMgr /\ current \in 0..MaxMgr
  /\ shared \in BOOLEAN /\ mgr \in [Mgrs -> Manager]
  /\ save \in [Mgrs -> {"idle", "failed", "open", "moved", "written"}]
  /\ disk \in State \cup {NIL, TORN} /\ temp \in State \cup {NIL, TORN}
  /\ today \in Dates /\ lastBalance \in Balances
  /\ parsed \subseteq Mgrs \X Balances
  /\ cmd \in Commands \cup {NIL} /\ todo \subseteq Mgrs /\ late \subseteq Mgrs
  /\ told \in [Mgrs -> SUBSET Alarms] /\ dropped \in [Mgrs -> SUBSET Quotas] /\ again \in BOOLEAN

Fresh == [count |-> [k \in Kinds |-> 0], limit |-> Limit, warned |-> {}, balance |-> 0,
          since |-> 0, date |-> 0]

TariffInit ==
  /\ ops = 0 /\ lives = 1 /\ made = 0 /\ current = 0 /\ shared = FALSE
  /\ today = 1
  /\ mgr = [s \in Mgrs |-> Fresh]
  /\ save = [s \in Mgrs |-> "idle"]
  /\ disk = NIL /\ temp = NIL
  /\ lastBalance = 0 /\ parsed = {}
  /\ cmd = NIL /\ todo = {} /\ late = {}
  /\ told = [s \in Mgrs |-> {}] /\ dropped = [s \in Mgrs |-> {}] /\ again = FALSE
-----------------------------------------------------------------------------
(* The manager.                                                            *)

(* The conditions of evaluateSMSLimits, evaluateCallLimits,                *)
(* evaluateDataLimits and evaluateBalanceLimits.                           *)
Reached(m, x) ==
  /\ m.limit > 0
  /\ CASE x[2] = "90"   -> 10 * m.count[x[1]] >= 9 * m.limit /\ m.count[x[1]] < m.limit
       [] x[2] = "full" -> m.count[x[1]] >= m.limit
       [] x[2] = "low"  -> m.balance < MinBalance

(* The alerts they return for the counters or the balance in ks.           *)
Evaluate(m, ks) == {x \in Alarms \ m.warned : x[1] \in ks /\ Reached(m, x)}

(* persistLocked: a manager that has no day or month yet takes this one.   *)
Dated(m) == [m EXCEPT !.since = IF @ = 0 THEN Month(today) ELSE @,
                      !.date = IF @ = 0 THEN today ELSE @]
Snapshot(m) == [count |-> m.count, balance |-> m.balance, since |-> m.since, date |-> m.date]

(* restoreFromStore: minutes and bytes are kept from month to month, and   *)
(* no flag is restored.                                                    *)
Restore(file) ==
  IF file \in {NIL, TORN} THEN Fresh
  ELSE [Fresh EXCEPT !.balance = file.balance, !.since = Month(today), !.date = today,
                     !.count = [k \in Kinds |->
                       IF (k = "sms" /\ file.since # Month(today)) \/ (k = "day" /\ file.date # today)
                         THEN 0 ELSE file.count[k]]]

Unlocked(s) == save[s] \in {"idle", "failed"}

(* The mutation of manager s under its lock, up to the opening of the      *)
(* temporary file, which truncates it.                                     *)
Change(s, m) ==
  /\ mgr' = [mgr EXCEPT ![s] = Dated(m)]
  /\ save' = [save EXCEPT ![s] = "open"]
  /\ temp' = TORN

(* History: manager s sends the alerts xs once it has unlocked, and may    *)
(* send those in over again.                                               *)
Announce(s, xs, over) ==
  /\ told' = [told EXCEPT ![s] = (@ \ over) \cup xs]
  /\ dropped' = [dropped EXCEPT ![s] = @ \ over]
  /\ again' = (again \/ xs \cap told[s] # {})

(* Bound.                                                                  *)
NextOp == ops < (IF shared \/ lives > 1 THEN MaxLater ELSE MaxOps) /\ ops' = ops + 1

(* RecordSMS counts for the day and the month, RecordCallMinutes for the   *)
(* month.                                                                  *)
Counted(k) == IF k = "sms" THEN Kinds \cap {"sms", "day"} ELSE {k}

Record(s, k, a) ==
  /\ NextOp
  /\ s <= current /\ Unlocked(s)
  /\ LET m == [mgr[s] EXCEPT !.count = [j \in Kinds |-> @[j] + (IF j \in Counted(k) THEN a ELSE 0)]]
         xs == Evaluate(m, {k})
     IN  /\ \A j \in Kinds : m.count[j] <= MaxCount
         /\ Change(s, [m EXCEPT !.warned = @ \cup xs])
         /\ Announce(s, xs, {})
  /\ UNCHANGED <<runnerVars, disk, today, parsed, cmd, todo, late>>

(* UpdateBalance, on the manager m of session s.                           *)
SetBalance(s, m, b) ==
  LET n == [m EXCEPT !.balance = b]
      xs == Evaluate(n, {"balance"})
      over == IF n.limit > 0 /\ b >= MinBalance THEN {LowBalance} ELSE {}
  IN  /\ Change(s, [n EXCEPT !.warned = (@ \ over) \cup xs])
      /\ Announce(s, xs, over)

UpdateConfig(s, l) ==
  /\ Change(s, [mgr[s] EXCEPT !.limit = l])
  /\ UNCHANGED alertVars

(* The alerts evaluated here are not sent.                                 *)
SetUsage(s, v) ==
  LET m == [mgr[s] EXCEPT !.count = [k \in Kinds |-> v]]
      xs == Evaluate(m, Kinds)
  IN  /\ Change(s, [m EXCEPT !.warned = @ \cup xs])
      /\ dropped' = [dropped EXCEPT ![s] = @ \cup xs]
      /\ UNCHANGED <<told, again>>

MonthlyCount(m) == [k \in Kinds |-> IF k = "day" THEN m.count[k] ELSE 0]

(* Mutant: the counters are zeroed and the flags stay up.                  *)
ResetMonthly_KeepsFlags(s) ==
  /\ Change(s, [mgr[s] EXCEPT !.count = MonthlyCount(mgr[s]), !.since = Month(today)])
  /\ Announce(s, {}, Quotas)

ResetMonthly(s) ==
  /\ Change(s, [mgr[s] EXCEPT !.count = MonthlyCount(mgr[s]), !.warned = @ \ Quotas,
                              !.since = Month(today)])
  /\ Announce(s, {}, Quotas)
-----------------------------------------------------------------------------
(* FileStore.Save.                                                         *)

(* Two open handles of one temporary file write over each other.           *)
Write(s) ==
  /\ \/ /\ save[s] = "open"
        /\ temp' \in IF \E t \in Mgrs \ {s} : save[t] = "open" \/ temp # TORN
                       THEN {Snapshot(mgr[s]), TORN} ELSE {Snapshot(mgr[s])}
        /\ UNCHANGED disk
     \/ /\ save[s] = "moved"
        /\ disk' = Snapshot(mgr[s])
        /\ UNCHANGED temp
  /\ save' = [save EXCEPT ![s] = "written"]
  /\ UNCHANGED <<ops, runnerVars, mgr, today, parsed, cmd, todo, late, alertVars>>

(* The write fails; Save returns and its error is dropped.                 *)
WriteFails(s) ==
  /\ save[s] \in {"open", "moved"}
  /\ save' = [save EXCEPT ![s] = "failed"]
  /\ UNCHANGED <<ops, runnerVars, mgr, disk, temp, today, parsed, cmd, todo, late, alertVars>>

(* A handle still open on the temporary file follows it to its new name;   *)
(* a temporary file another save has renamed cannot be renamed again.      *)
Rename(s) ==
  /\ save[s] = "written"
  /\ IF temp = NIL
       THEN /\ save' = [save EXCEPT ![s] = "failed"]
            /\ UNCHANGED <<disk, temp>>
       ELSE /\ disk' = temp /\ temp' = NIL
            /\ save' = [t \in Mgrs |-> IF t = s THEN "idle"
                                       ELSE IF save[t] = "open" THEN "moved" ELSE save[t]]
  /\ UNCHANGED <<ops, runnerVars, mgr, today, parsed, cmd, todo, late, alertVars>>

(* Mutant: the state is written to the file itself.                        *)
SaveStep_InPlace(s) ==
  \/ /\ save[s] = "open" /\ disk # TORN
     /\ disk' = TORN
     /\ UNCHANGED <<ops, runnerVars, mgr, save, temp, today, parsed, cmd, todo, late, alertVars>>
  \/ Write(s) \/ WriteFails(s) \/ Rename(s)

SaveStep(s) == Write(s) \/ WriteFails(s) \/ Rename(s)
-----------------------------------------------------------------------------
(* The runner.                                                             *)

(* wireServices: NewManager with its store; under r.mu a balance the       *)
(* runner knows is given to the new manager, one the file knows to the     *)
(* runner.                                                                 *)
NewManager ==
  /\ made < MaxMgr /\ current = made /\ (made > 0 => ops <= MaxLater)
  /\ made' = made + 1 /\ shared' = (shared \/ made = 1)
  /\ LET m == Restore(disk)
     IN  IF lastBalance # 0
           THEN SetBalance(made + 1, m, lastBalance) /\ UNCHANGED lastBalance
           ELSE /\ mgr' = [mgr EXCEPT ![made + 1] = m]
                /\ lastBalance' = m.balance
                /\ UNCHANGED <<save, temp, alertVars>>
  /\ UNCHANGED <<ops, lives, current, disk, today, parsed, cmd, todo, late>>

(* session: the new manager takes its place, and its handlers subscribe.   *)
Wire ==
  /\ current < made /\ Unlocked(made)
  /\ current' = made
  /\ UNCHANGED <<ops, lives, made, shared, mgr, save, disk, temp, today, lastBalance, parsed, cmd, todo, late, alertVars>>

(* applyParsedBalance, from a USSD answer or an incoming message: the      *)
(* runner's balance under r.mu, then that of the manager found there.      *)
ParseBalance(b) ==
  /\ NextOp
  /\ current > 0 /\ (current < made => Unlocked(made))
  /\ lastBalance' = b
  /\ parsed' = parsed \cup {<<current, b>>}
  /\ UNCHANGED <<lives, made, current, shared, mgr, save, disk, temp, today, cmd, todo, late, alertVars>>

UpdateBalance(s, b) ==
  /\ <<s, b>> \in parsed /\ Unlocked(s)
  /\ parsed' = parsed \ {<<s, b>>}
  /\ SetBalance(s, mgr[s], b)
  /\ UNCHANGED <<ops, runnerVars, disk, today, cmd, todo, late>>

(* A message on tariff/set or tariff/reset: a goroutine per registered     *)
(* handler.  Bound: one message at a time.                                 *)
Command(c) ==
  /\ NextOp
  /\ current > 0 /\ todo \cup late = {}
  /\ cmd' = c /\ todo' = 1..current
  /\ UNCHANGED <<runnerVars, mgr, save, disk, temp, today, parsed, late, alertVars>>

Handled == cmd' = IF todo' \cup late' = {} THEN NIL ELSE cmd

(* setHandler and resetHandler.  An override has an UpdateConfig before    *)
(* it, with the configuration as it is, and the lock is free in between;   *)
(* no other message changes the configuration after GetConfig.             *)
Handle(s) ==
  /\ s \in todo /\ Unlocked(s)
  /\ todo' = todo \ {s}
  /\ late' = IF cmd[1] = "usage" THEN late \cup {s} ELSE late
  /\ Handled
  /\ CASE cmd[1] = "set"   -> UpdateConfig(s, cmd[2])
       [] cmd[1] = "usage" -> UpdateConfig(s, mgr[s].limit)
       [] cmd[1] = "reset" -> ResetMonthly(s)
  /\ UNCHANGED <<ops, runnerVars, disk, today, parsed>>

HandleUsage(s) ==
  /\ s \in late /\ Unlocked(s)
  /\ late' = late \ {s} /\ UNCHANGED todo
  /\ Handled
  /\ SetUsage(s, cmd[2])
  /\ UNCHANGED <<ops, runnerVars, disk, today, parsed>>
-----------------------------------------------------------------------------
(* The environment.                                                        *)

(* A crash or a stop, and the next start; the files stay.                  *)
Restart ==
  /\ lives < MaxLives
  /\ lives' = lives + 1 /\ made' = 0 /\ current' = 0
  /\ mgr' = [s \in Mgrs |-> Fresh]
  /\ save' = [s \in Mgrs |-> "idle"]
  /\ lastBalance' = 0 /\ parsed' = {} /\ cmd' = NIL /\ todo' = {} /\ late' = {}
  /\ told' = [s \in Mgrs |-> {}] /\ dropped' = [s \in Mgrs |-> {}]
  /\ UNCHANGED <<ops, shared, disk, temp, today, again>>

NextDay ==
  /\ today < Days /\ today' = today + 1
  /\ UNCHANGED <<ops, runnerVars, mgr, save, disk, temp, parsed, cmd, todo, late, alertVars>>

TariffNext ==
  \/ \E s \in Mgrs : \/ \E k \in Kinds \ {"day"}, a \in Amounts : Record(s, k, a)
                    \/ \E b \in Balances : UpdateBalance(s, b)
                    \/ SaveStep(s) \/ Handle(s) \/ HandleUsage(s)
  \/ \E b \in Balances : ParseBalance(b)
  \/ \E c \in Commands : Command(c)
  \/ NewManager \/ Wire \/ Restart \/ NextDay

TariffSpec == TariffInit /\ [][TariffNext]_tariffVars
-----------------------------------------------------------------------------
UpToDate(m, k) ==
  /\ k = "sms" => m.since \in {0, Month(today)}
  /\ k = "day" => m.date \in {0, today}

(* As long as the modem has not reconnected, a finished save means that a  *)
(* restart restores the balance the manager holds and every counter that   *)
(* is not of an earlier day or month; and, since Save writes "to disk      *)
(* atomically", neither a crash nor a failed write leaves the file         *)
(* unfinished while one manager is at work, to be restored as zeroes.      *)
RestartLosesNothing ==
  /\ (made = 1 /\ save[1] = "idle") =>
       /\ Restore(disk).balance = mgr[1].balance
       /\ \A k \in Kinds : UpToDate(mgr[1], k) => Restore(disk).count[k] = mgr[1].count[k]
  /\ disk = TORN => shared

(* A step of manager s: what it has to have told of, now or before.        *)
Timely(s) ==
  (s <= made /\ s <= made' /\ mgr'[s].limit > 0) =>
    /\ \A k \in Kinds \ {"day"} : LET c == mgr'[s].count[k]  l == mgr'[s].limit IN
         (c # mgr[s].count[k] /\ 10 * c >= 9 * l) =>
           <<k, IF c >= l THEN "full" ELSE "90">> \in told'[s] \cup dropped'[s]
    /\ (mgr'[s].balance # mgr[s].balance /\ mgr'[s].balance < MinBalance) =>
         LowBalance \in told'[s]

(* When a counter moves to 90% of its quota or past all of it, or the      *)
(* balance below its threshold, the manager has told so: now, or earlier   *)
(* and not yet taken back by a monthly reset (a quota) or by a balance     *)
(* that was high enough again; and it never repeats an alert before that.  *)
(* The one exception is a quota that SetUsage found used up, dropping the  *)
(* alert (manager.go:138).  All this is said of the manager of one         *)
(* session: the flags are not in the file (manager_store.go:53), and the   *)
(* manager of the next session or start tells again.                       *)
AlertsTold == [][~again' /\ \A s \in Mgrs : Timely(s)]_tariffVars
-----------------------------------------------------------------------------
(* The inductive strengthening the proofs use.                             *)

(* Handlers and balances belong to managers that were made; the others are *)
(* untouched.  A manager that has begun to save has its day and month.     *)
MadeOnly ==
  /\ current <= made /\ todo \cup late \subseteq 1..current /\ parsed \subseteq (1..current) \X Balances
  /\ (todo \cup late # {} => cmd # NIL) /\ (late # {} => cmd[1] = "usage")
  /\ made > 1 => shared
  /\ \A s \in Mgrs : s > made => told[s] = {} /\ dropped[s] = {} /\ save[s] = "idle"
  /\ \A s \in Mgrs : save[s] # "idle" => mgr[s].since # 0 /\ mgr[s].date # 0

(* A flag is up exactly when its alert was sent, or dropped.               *)
FlagsTold == ~again /\ \A s \in Mgrs : mgr[s].warned = told[s] \cup dropped[s]

(* The save of an only manager: nobody else touches its temporary file.    *)
(* A manager without a month has found no file and saved nothing.          *)
SaveFits ==
  made = 1 =>
    /\ save[1] # "moved" /\ mgr[1].since <= Month(today) /\ mgr[1].date <= today
    /\ save[1] = "open" => temp = TORN
    /\ save[1] = "written" => temp = Snapshot(mgr[1])
    /\ (mgr[1].since = 0 \/ mgr[1].date = 0) => save[1] = "idle" /\ disk \in {NIL, TORN} /\ mgr[1] = Fresh
=============================================================================
