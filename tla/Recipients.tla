----------------------------- MODULE Recipients -----------------------------
(***************************************************************************)
(* The alert recipients (security/recipients.go) behind the gateway        *)
(* manager (manager.go, manager_recipients.go): requests that come by MQTT *)
(* and run in a goroutine each, the list and its file, the retained topic  *)
(* that shows the list, the connections whose onConnect shows it again,    *)
(* and the start-up, which sets the MQTT client and registers the modems   *)
(* under the write lock the requests hold for reading.                     *)
(*                                                                         *)
(* A process that waits for the write lock keeps every new reader out      *)
(* (sync.RWMutex).  A change calls onChange, which takes the read lock,    *)
(* while its caller holds it: Caught names the state that cannot end.      *)
(***************************************************************************)
EXTENDS Integers, Sequences, FiniteSets, SequencesExt

CONSTANTS
  Raws,            \* numbers as requests write them: [digits, plus, lead, rest, len]
  Lists,           \* what config/recipients/set may carry: sequences of Raws
  Whitelist,       \* cfg.Security.Whitelist: a sequence of such
  Requests, Conns, \* goroutines of the requests, and of onConnect
  Modems,          \* how many modems are registered
  MaxFaults,       \* bound: lost connections, crashes, failing saves
  NONE

ASSUME RecipientsAssumption ==
  /\ \A r \in Raws : r.digits \in BOOLEAN /\ r.plus \in BOOLEAN /\ r.len \in Nat
  /\ Lists \subseteq Seq(Raws) /\ Whitelist \in Seq(Range(Whitelist))
  /\ Modems \in Nat /\ MaxFaults \in Nat
  /\ Requests \cap Conns = {} /\ "main" \notin Requests \cup Conns
  /\ NONE \notin {"main"} \cup Requests \cup Conns

Procs == {"main"} \cup Requests \cup Conns

VARIABLES
  numbers,    \* RecipientsManager.numbers
  file,       \* recipients.json: whether it can be parsed, and its list
  saving,     \* the process that holds RecipientsManager.mu to save, or NONE
  pc, copy,   \* per process: its next step, and the list it is to publish
  reader,     \* processes that hold GatewayManager.mu for reading
  client,     \* m.mqttClient has been set
  registered, \* modems registered so far
  subscribed, \* the request topics have their handlers
  connected,  \* the client is connected to the broker
  shown,      \* the retained message of config/recipients
  count,      \* faults so far
  unsaved,    \* history: the last save failed
  overlap     \* history: the list changed while a copy was to be published

list == <<numbers, file, saving, unsaved, overlap>>
gate == <<reader, client, registered, subscribed>>
wire == <<connected, shown>>
recipientsVars == <<list, pc, copy, gate, wire, count>>
-----------------------------------------------------------------------------
(* NormalizeNumber: 4 to 16 digits; 8 and ten more without a plus are a    *)
(* Russian number in its national form.                                    *)

Valid(r) == r.digits /\ r.len \in 4..16

NormalizeNumber(r) ==
  [lead |-> IF ~r.plus /\ r.len = 11 /\ r.lead = 8 THEN 7 ELSE r.lead, rest |-> r.rest, len |-> r.len]

Numbers == {NormalizeNumber(r) : r \in {x \in Raws \cup Range(Whitelist) : Valid(x)}}

(* addNumberInMemory, and the loop over seen of Set: an entry that is no   *)
(* number adds nothing.                                                    *)
Plus(s, r) ==
  IF Valid(r) /\ NormalizeNumber(r) \notin Range(s) THEN Append(s, NormalizeNumber(r)) ELSE s

Normalized(raws) ==
  LET upTo[i \in 0..Len(raws)] == IF i = 0 THEN <<>> ELSE Plus(upTo[i - 1], raws[i])
  IN  upTo[Len(raws)]

(* Without the first entry that is the number.                             *)
Without(s, n) == RemoveAt(s, CHOOSE i \in DOMAIN s : s[i] = n /\ \A j \in 1..(i - 1) : s[j] # n)

(* NewRecipientsManager: what cannot be read, and an empty list, give way  *)
(* to the whitelist, which is saved when there is one.                     *)
Torn == [ok |-> FALSE, list |-> <<>>]
File(l) == [ok |-> TRUE, list |-> l]
Loaded(f) == IF f \in {Torn, File(<<>>)} THEN Normalized(Whitelist) ELSE f.list
Kept(f) == IF Loaded(f) = <<>> THEN f ELSE File(Loaded(f))
-----------------------------------------------------------------------------
Steps == {"idle", "change", "save", "notify", "publish", "get", "lock", "set", "register", "done"}

OnceEach == {s \in Seq(Numbers) : IsInjective(s)}

RecipientsTypeOK ==
  /\ numbers \in OnceEach /\ file \in [ok : BOOLEAN, list : OnceEach]
  /\ saving \in Requests \cup {NONE}
  /\ pc \in [Procs -> Steps] /\ copy \in [Procs -> OnceEach \cup {NONE}]
  /\ reader \subseteq Requests /\ registered \in 0..Modems
  /\ {client, subscribed, connected, unsaved, overlap} \subseteq BOOLEAN
  /\ shown \in OnceEach \cup {NONE} /\ count \in 0..MaxFaults

(* The first connection is made before SetMQTT; its onConnect runs beside  *)
(* main.                                                                   *)
FirstConn == CHOOSE c \in Conns : TRUE
Started == [p \in Procs |-> IF p = "main" THEN "lock" ELSE IF p = FirstConn THEN "get" ELSE "idle"]
NoCopies == [p \in Procs |-> NONE]

RecipientsInit ==
  /\ \E f \in {Torn, File(<<>>)} \cup {File(Normalized(l)) : l \in Lists} : numbers = Loaded(f) /\ file = Kept(f)
  /\ saving = NONE /\ unsaved = FALSE /\ overlap = FALSE
  /\ pc = Started /\ copy = NoCopies
  /\ reader = {} /\ client = FALSE /\ registered = 0 /\ subscribed = FALSE
  /\ connected = TRUE /\ shown = NONE /\ count = 0

Goto(p, l) == pc' = [pc EXCEPT ![p] = l]
Fault == count < MaxFaults /\ count' = count + 1

(* A process that has a copy of the list to publish.                       *)
InFlight(p) == pc[p] \in {"save", "notify", "publish"}

(* RLock: main holds or awaits the write lock only between "lock" and the  *)
(* step after it, when it is at "set" or "register".                       *)
CanRead == pc["main"] \notin {"set", "register"}

(* Main awaits the write lock, and a change that holds the read lock is to *)
(* take it again: neither can go on.                                       *)
Caught == ~CanRead /\ \E p \in reader : pc[p] \in {"notify", "publish"}
-----------------------------------------------------------------------------
(* A request: AddRecipient, RemoveRecipient or SetRecipients.              *)

RLock(p) ==
  /\ pc[p] = "idle" /\ subscribed /\ connected /\ CanRead
  /\ reader' = reader \cup {p}
  /\ Goto(p, "change")
  /\ UNCHANGED <<list, copy, client, registered, subscribed, wire, count>>

(* Mutant: the list changes in memory only.                                *)
Commit_Unsaved(p, new) ==
  /\ numbers' = new /\ copy' = [copy EXCEPT ![p] = new]
  /\ overlap' = (overlap \/ \E q \in Procs \ {p} : InFlight(q))
  /\ Goto(p, "notify")
  /\ UNCHANGED <<file, saving, unsaved, reader>>

(* The list is changed and its file truncated; os.WriteFile follows, under *)
(* RecipientsManager.mu.                                                   *)
Commit(p, new) ==
  /\ numbers' = new /\ copy' = [copy EXCEPT ![p] = new]
  /\ overlap' = (overlap \/ \E q \in Procs \ {p} : InFlight(q))
  /\ file' = Torn /\ saving' = p
  /\ Goto(p, "save")
  /\ UNCHANGED <<unsaved, reader>>

(* Mutant: a request never gives the read lock back.                       *)
Unlocked_Never(p) == reader

(* The deferred RUnlock.                                                   *)
Unlocked(p) == reader \ {p}

Refuse(p) == Goto(p, "idle") /\ reader' = Unlocked(p) /\ UNCHANGED <<list, copy>>

AddRecipient(p, r) ==
  LET n == NormalizeNumber(r)
  IN  IF Valid(r) /\ n \notin Range(numbers) THEN Commit(p, Append(numbers, n)) ELSE Refuse(p)

RemoveRecipient(p, r) ==
  LET n == NormalizeNumber(r)
  IN  IF Valid(r) /\ n \in Range(numbers) THEN Commit(p, Without(numbers, n)) ELSE Refuse(p)

(* One invalid number refuses the whole list.                              *)
SetRecipients(p, l) == IF \A i \in DOMAIN l : Valid(l[i]) THEN Commit(p, Normalized(l)) ELSE Refuse(p)

Change(p) ==
  /\ pc[p] = "change" /\ saving = NONE
  /\ (\E r \in Raws : AddRecipient(p, r) \/ RemoveRecipient(p, r)) \/ (\E l \in Lists : SetRecipients(p, l))
  /\ UNCHANGED <<client, registered, subscribed, wire, count>>

(* saveLocked, whose error is dropped.                                     *)
Save(p) ==
  /\ pc[p] = "save"
  /\ \/ file' = File(numbers) /\ unsaved' = FALSE /\ UNCHANGED count
     \/ Fault /\ unsaved' = TRUE /\ UNCHANGED file
  /\ saving' = NONE
  /\ Goto(p, "notify")
  /\ UNCHANGED <<numbers, overlap, copy, gate, wire>>
-----------------------------------------------------------------------------
(* publishRecipientsState.                                                 *)

Ends(p) == /\ Goto(p, IF p = "main" THEN "lock" ELSE "idle")
           /\ copy' = [copy EXCEPT ![p] = NONE]
           /\ reader' = Unlocked(p)

(* The client is read under the read lock and asked whether it is          *)
(* connected.                                                              *)
Notify(p) ==
  /\ pc[p] = "notify" /\ CanRead
  /\ \/ client /\ connected /\ Goto(p, "publish") /\ UNCHANGED <<copy, reader>>
     \/ ~(client /\ connected) /\ Ends(p)
  /\ UNCHANGED <<list, client, registered, subscribed, wire, count>>

(* m.qos(), which takes the read lock again, and Publish: on a lost        *)
(* connection its error is dropped.                                        *)
Publish(p) ==
  /\ pc[p] = "publish" /\ CanRead
  /\ shown' = IF connected THEN copy[p] ELSE shown
  /\ Ends(p)
  /\ UNCHANGED <<list, client, registered, subscribed, connected, count>>

(* GetRecipients, for main and onConnect.                                  *)
Get(p) ==
  /\ pc[p] = "get" /\ CanRead /\ saving = NONE
  /\ copy' = [copy EXCEPT ![p] = numbers]
  /\ Goto(p, "notify")
  /\ UNCHANGED <<list, gate, wire, count>>
-----------------------------------------------------------------------------
(* startGateway: SetMQTT, then Register for each modem.                    *)

(* Lock announces the writer.                                              *)
Lock ==
  /\ pc["main"] = "lock"
  /\ Goto("main", IF ~client THEN "set" ELSE IF registered < Modems THEN "register" ELSE "done")
  /\ UNCHANGED <<list, copy, gate, wire, count>>

(* SetMQTT on a client that has lost its connection binds nothing.         *)
SetMQTT ==
  /\ pc["main"] = "set" /\ reader = {}
  /\ client' = TRUE /\ subscribed' = connected
  /\ Goto("main", IF connected THEN "get" ELSE "lock")
  /\ UNCHANGED <<list, copy, reader, registered, wire, count>>

Register ==
  /\ pc["main"] = "register" /\ reader = {}
  /\ registered' = registered + 1
  /\ Goto("main", "lock")
  /\ UNCHANGED <<list, copy, reader, client, subscribed, wire, count>>
-----------------------------------------------------------------------------
(* The connection and the process.                                         *)

Disconnect ==
  /\ connected /\ Fault /\ connected' = FALSE
  /\ UNCHANGED <<list, pc, copy, gate, shown>>

(* Mutant: the list is not shown again.                                    *)
Connect_Silent(c) ==
  /\ ~connected /\ pc[c] = "idle"
  /\ connected' = TRUE
  /\ UNCHANGED <<list, pc, copy, gate, shown, count>>

(* onConnect: PublishDiscovery, then PublishRecipientsState.               *)
Connect(c) ==
  /\ ~connected /\ pc[c] = "idle"
  /\ connected' = TRUE
  /\ Goto(c, "get")
  /\ UNCHANGED <<list, copy, gate, shown, count>>

(* A crash and the next start.                                             *)
Restart ==
  /\ Fault
  /\ numbers' = Loaded(file) /\ file' = Kept(file)
  /\ saving' = NONE /\ unsaved' = FALSE /\ overlap' = FALSE
  /\ pc' = Started /\ copy' = NoCopies
  /\ reader' = {} /\ client' = FALSE /\ registered' = 0 /\ subscribed' = FALSE
  /\ connected' = TRUE
  /\ UNCHANGED shown

Work(p) == Change(p) \/ Save(p) \/ Notify(p) \/ Publish(p) \/ Get(p)

Startup == Lock \/ SetMQTT \/ Register

RecipientsNext == Startup \/ (\E p \in Procs : Work(p)) \/ (\E p \in Requests : RLock(p))
          \/ Disconnect \/ (\E c \in Conns : Connect(c)) \/ Restart

RecipientsSpec == RecipientsInit /\ [][RecipientsNext]_recipientsVars

(* Goroutines run, a reader that waits is let in when the writer unlocks,  *)
(* and AutoReconnect brings the connection back.                           *)
RecipientsFairSpec ==
  /\ RecipientsSpec /\ WF_recipientsVars(Startup) /\ WF_recipientsVars(\E c \in Conns : Connect(c))
  /\ \A p \in Procs : WF_recipientsVars(Work(p)) /\ SF_recipientsVars(Get(p))
-----------------------------------------------------------------------------
Quiet == client /\ connected /\ \A p \in Procs : ~InFlight(p) /\ pc[p] # "get"

(* Once nothing is under way the retained list is the current one, changes *)
(* made while the broker was away included, unless the list changed while  *)
(* another copy of it was on its way to the broker.                        *)
ShownIsCurrent == Quiet /\ ~overlap => shown = numbers

(* A crash at any moment outside a save, after a save that did not fail,   *)
(* brings the same list back; only an empty one gives way to the           *)
(* whitelist.                                                              *)
RestartKeeps == [][Restart => numbers' = numbers \/ numbers = <<>> \/ saving # NONE \/ unsaved]_recipientsVars

(* The start-up gets the write lock for every modem, whatever requests     *)
(* come, unless one is caught between its two read locks.                  *)
StartupEnds == []~Caught => <>(pc["main"] = "done")
-----------------------------------------------------------------------------
(* The inductive strengthening the proofs use.                             *)

(* RecipientsManager.mu is held by the one process that saves.             *)
SaverHolds == \A p \in Procs : pc[p] = "save" <=> saving = p

(* Unless changes have overlapped, every copy on its way is current, and   *)
(* as long as the topic is not, somebody is on the way to it.              *)
CopiesAreCurrent == ~overlap => \A p \in Procs : InFlight(p) => copy[p] = numbers
SomebodyShows == client /\ connected /\ ~overlap => shown = numbers \/ \E p \in Procs : InFlight(p) \/ pc[p] = "get"

(* Outside a save the file is the list, or was never written for an empty  *)
(* one.                                                                    *)
FileIsCurrent == saving = NONE /\ ~unsaved => numbers = <<>> \/ file = File(numbers)

RecipientsInv ==
  /\ pc \in [Procs -> Steps] /\ copy = [p \in Procs |-> copy[p]]
  /\ SaverHolds /\ CopiesAreCurrent /\ SomebodyShows /\ FileIsCurrent
=============================================================================
