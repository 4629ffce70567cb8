----------------------------- MODULE MQTTClient -----------------------------
(***************************************************************************)
(* The pure-TCP MQTT client, internal/mqtt/client_tcp.go, with what        *)
(* cmd/gsm2mqtt/main.go does with it: one Connect at the start, "online"   *)
(* published by the OnConnect goroutine of every connection, "offline" and *)
(* one Disconnect at the end.  The broker, external, has one session for   *)
(* the client id and publishes its will when the connection is lost or a   *)
(* new one takes the session over; sessions are clean (config/loader.go).  *)
(*                                                                         *)
(* Connections are numbered in the order they are made; a connection names *)
(* its reader, its OnConnect goroutine and the reconnect loop its loss     *)
(* starts.  Critical sections are single steps.  A packet takes effect at  *)
(* the broker when it is written: TCP keeps their order, and what a lost   *)
(* connection swallows, the end of its session undoes.  Acknowledgements   *)
(* come later, or never, and name the call they are for: the code's 16-bit *)
(* ids are not used up within a timeout.  Left out because nothing here    *)
(* reads what they change: the keep-alive goroutines, the done channel,    *)
(* and the dispatch of incoming messages to handlers.                      *)
(***************************************************************************)
EXTENDS Naturals

CONSTANTS
  MaxConns,   \* bound: connections the broker accepts; the last one is not lost
  Topics,     \* topics some goroutine subscribes to
  Main,       \* the Connect call of main
  Offline,    \* main's publication of "offline"
  NIL

Conns == 1..MaxConns
Loops == Conns \cup {Main}
Pubs == Conns \cup {Offline}
Callers == Pubs \cup Topics

ASSUME MQTTAssumption ==
  /\ MaxConns \in Nat \ {0}
  /\ Main \notin Conns \cup {NIL} /\ Offline \notin Conns \cup {NIL}
  /\ NIL \notin Conns \cup Topics /\ Topics \cap Pubs = {}

VARIABLES
  conn, connected, closed,  \* fields of TCPClient
  subscribers,         \* topics in TCPClient.subscribers
  reader,              \* per connection: readLoop
  loop, made, todo,    \* per reconnectLoop: where it is, its new connection, topics to send
  call,                \* per Publish or Subscribe: where it is
  main, taken,         \* where startGateway is; the connection Disconnect took
  net,                 \* per connection: its TCP state
  acks,                \* calls with an acknowledgement on its way
  session, status,     \* broker: connection with the session, retained <prefix>/status
  brokerSubs           \* broker: subscriptions of the session

flags    == <<conn, connected, closed>>
loopVars == <<loop, made, todo>>
mainVars == <<main, taken>>
broker   == <<session, status, brokerSubs>>
tcp      == <<net, acks>>
vars == <<flags, subscribers, reader, loopVars, call, mainVars, tcp, broker>>

TypeOK ==
  /\ conn \in Conns \cup {NIL} /\ connected \in BOOLEAN /\ closed \in BOOLEAN
  /\ subscribers \subseteq Topics
  /\ reader \in [Conns -> {"none", "reading", "lost", "gone"}]
  /\ loop \in [Loops -> {"none", "test", "sleep", "dial", "store", "resub", "send"}]
  /\ made \in [Loops -> Conns \cup {NIL}]
  /\ todo \in [Loops -> SUBSET Topics]
  /\ call \in [Callers -> {"none", "idle", "recorded", "write", "wait", "ok", "err"}]
  /\ main \in {"connect", "run", "offline", "swap", "store", "lock", "close", "exit"}
  /\ taken \in Conns \cup {NIL}
  /\ net \in [Conns -> {"new", "up", "down", "closed"}]
  /\ acks \subseteq Callers
  /\ session \in Conns \cup {NIL} /\ status \in {"online", "offline"}
  /\ brokerSubs \subseteq Topics

Init ==
  /\ conn = NIL /\ connected = FALSE /\ closed = FALSE
  /\ subscribers = {}
  /\ reader = [c \in Conns |-> "none"]
  /\ loop = [x \in Loops |-> IF x = Main THEN "dial" ELSE "none"]
  /\ made = [x \in Loops |-> NIL] /\ todo = [x \in Loops |-> {}]
  /\ call = [x \in Callers |-> IF x \in Topics THEN "idle" ELSE "none"]
  /\ main = "connect" /\ taken = NIL
  /\ net = [c \in Conns |-> "new"] /\ acks = {}
  /\ session = NIL /\ status = "offline" /\ brokerSubs = {}

Up(c) == c # NIL /\ net[c] = "up"

(* writePacket of call x; ok is its result.  What is written to a          *)
(* connection that is down is refused, or taken by the kernel and lost.    *)
writePacket(x, ok) ==
  IF connected /\ Up(conn)
  THEN /\ ok
       /\ status' = IF x \in Topics THEN status
                    ELSE IF x = Offline THEN "offline" ELSE "online"
       /\ brokerSubs' = IF x \in Topics THEN brokerSubs \cup {x} ELSE brokerSubs
  ELSE /\ ok => connected /\ conn # NIL
       /\ UNCHANGED <<status, brokerSubs>>

-----------------------------------------------------------------------------
(* Connect, called by main and by reconnect loops.                         *)

(* Dial and CONNECT handshake.  An older session is taken over: its        *)
(* connection is closed and its will published.                            *)
Dial(x) ==
  /\ loop[x] = "dial"
  /\ \E c \in Conns :
       /\ net[c] = "new" /\ \A b \in 1..(c - 1) : net[b] # "new"
       /\ net' = [b \in Conns |-> IF b = c THEN "up" ELSE IF b < c THEN "down" ELSE "new"]
       /\ made' = [made EXCEPT ![x] = c]
       /\ session' = c
  /\ brokerSubs' = {} /\ acks' = {}
  /\ status' = IF session # NIL THEN "offline" ELSE status
  /\ loop' = [loop EXCEPT ![x] = "store"]
  /\ UNCHANGED <<flags, subscribers, reader, todo, call, mainVars>>

(* Refused or not reachable: the loop goes on, main returns 1.             *)
DialFails(x) ==
  /\ loop[x] = "dial"
  /\ loop' = [loop EXCEPT ![x] = IF x = Main THEN "none" ELSE "test"]
  /\ main' = IF x = Main THEN "exit" ELSE main
  /\ UNCHANGED <<flags, subscribers, reader, made, todo, call, taken, tcp, broker>>

(* The rest of Connect: the flags under mu, then the goroutines.           *)
Connected(x) ==
  /\ loop[x] = "store"
  /\ conn' = made[x] /\ connected' = TRUE /\ closed' = FALSE
  /\ reader' = [reader EXCEPT ![made[x]] = "reading"]
  /\ call' = [call EXCEPT ![made[x]] = "idle"]
  /\ loop' = [loop EXCEPT ![x] = IF x = Main THEN "none" ELSE "resub"]
  /\ main' = IF x = Main THEN "run" ELSE main
  /\ UNCHANGED <<subscribers, made, todo, taken, tcp, broker>>

-----------------------------------------------------------------------------
(* readLoop, handleDisconnect, reconnectLoop and resubscribeAll.           *)

(* PUBACK, PUBCOMP or SUBACK; PUBREC is answered within readLoop.          *)
ReadAck(c) ==
  /\ reader[c] = "reading" /\ session = c
  /\ \E x \in acks :
       /\ acks' = acks \ {x}
       /\ call' = [call EXCEPT ![x] = "ok"]
  /\ UNCHANGED <<flags, subscribers, reader, loopVars, mainVars, net, broker>>

ReadError(c) ==
  /\ reader[c] = "reading" /\ net[c] \in {"down", "closed"}
  /\ reader' = [reader EXCEPT ![c] = IF closed THEN "gone" ELSE "lost"]
  /\ UNCHANGED <<flags, subscribers, loopVars, call, mainVars, tcp, broker>>

(* Mutant: readLoop goes on after the error.                               *)
handleDisconnect_NoReturn(c) ==
  /\ reader[c] = "lost"
  /\ IF conn = c THEN conn' = NIL /\ connected' = FALSE
                 ELSE UNCHANGED <<conn, connected>>
  /\ loop' = [loop EXCEPT ![c] = IF closed THEN "none" ELSE "test"]
  /\ reader' = [reader EXCEPT ![c] = "reading"]
  /\ UNCHANGED <<closed, subscribers, made, todo, call, mainVars, tcp, broker>>

(* Mutant: connected stays set, the reconnect loop finds nothing to do.    *)
handleDisconnect_StaysConnected(c) ==
  /\ reader[c] = "lost"
  /\ IF conn = c THEN conn' = NIL ELSE UNCHANGED conn
  /\ loop' = [loop EXCEPT ![c] = IF closed THEN "none" ELSE "test"]
  /\ reader' = [reader EXCEPT ![c] = "gone"]
  /\ UNCHANGED <<connected, closed, subscribers, made, todo, call, mainVars, tcp, broker>>

handleDisconnect(c) ==
  /\ reader[c] = "lost"
  /\ IF conn = c THEN conn' = NIL /\ connected' = FALSE
                 ELSE UNCHANGED <<conn, connected>>
  /\ loop' = [loop EXCEPT ![c] = IF closed THEN "none" ELSE "test"]
  /\ reader' = [reader EXCEPT ![c] = "gone"]
  /\ UNCHANGED <<closed, subscribers, made, todo, call, mainVars, tcp, broker>>

LoopTest(x) ==
  /\ loop[x] = "test"
  /\ loop' = [loop EXCEPT ![x] = IF closed \/ connected THEN "none" ELSE "sleep"]
  /\ UNCHANGED <<flags, subscribers, reader, made, todo, call, mainVars, tcp, broker>>

LoopWakes(x) ==
  /\ loop[x] = "sleep"
  /\ loop' = [loop EXCEPT ![x] = IF closed THEN "none" ELSE "dial"]
  /\ UNCHANGED <<flags, subscribers, reader, made, todo, call, mainVars, tcp, broker>>

resubscribeAll(x) ==
  /\ loop[x] = "resub"
  /\ todo' = [todo EXCEPT ![x] = subscribers]
  /\ loop' = [loop EXCEPT ![x] = "send"]
  /\ UNCHANGED <<flags, subscribers, reader, made, call, mainVars, tcp, broker>>

(* One SUBSCRIBE per topic of the snapshot; nobody waits for the answers.  *)
Resubscribe(x) ==
  /\ loop[x] = "send"
  /\ \/ /\ todo[x] = {}
        /\ loop' = [loop EXCEPT ![x] = "none"]
        /\ UNCHANGED <<todo, status, brokerSubs>>
     \/ \E t \in todo[x], ok \in BOOLEAN :
          /\ writePacket(t, ok)
          /\ todo' = [todo EXCEPT ![x] = @ \ {t}]
          /\ UNCHANGED loop
  /\ UNCHANGED <<flags, subscribers, reader, made, call, mainVars, tcp, session>>

LoopStep(x) ==
  Connected(x) \/ LoopTest(x) \/ LoopWakes(x) \/ resubscribeAll(x) \/ Resubscribe(x)

-----------------------------------------------------------------------------
(* Publish and Subscribe.                                                  *)

Step(x, from, to) ==
  /\ call[x] = from
  /\ call' = [call EXCEPT ![x] = to]
  /\ UNCHANGED <<flags, reader, loopVars, mainVars, net, session>>

Publish(p) ==
  /\ Step(p, "idle", IF connected THEN "write" ELSE "err")
  /\ UNCHANGED <<subscribers, acks, status, brokerSubs>>

(* Mutant: a topic asked for while there is no connection is not recorded. *)
RecordHandler_OnlyConnected(t) ==
  /\ main = "run"
  /\ Step(t, "idle", "recorded")
  /\ subscribers' = IF connected THEN subscribers \cup {t} ELSE subscribers
  /\ UNCHANGED <<acks, status, brokerSubs>>

(* Subscribe records the handler first ...                                 *)
RecordHandler(t) ==
  /\ main = "run"
  /\ Step(t, "idle", "recorded")
  /\ subscribers' = subscribers \cup {t}
  /\ UNCHANGED <<acks, status, brokerSubs>>

(* ... and has nothing more to do without a connection.                    *)
Subscribe(t) ==
  /\ Step(t, "recorded", IF connected THEN "write" ELSE "ok")
  /\ UNCHANGED <<subscribers, acks, status, brokerSubs>>

Write(x) ==
  /\ \E ok \in BOOLEAN :
       /\ Step(x, "write", IF ok THEN "wait" ELSE "err")
       /\ writePacket(x, ok)
  /\ acks' = IF Up(conn) /\ connected THEN acks \cup {x} ELSE acks
  /\ UNCHANGED subscribers

(* The channel is forgotten: a late acknowledgement wakes nobody.          *)
TimesOut(x) ==
  /\ Step(x, "wait", "err")
  /\ acks' = acks \ {x}
  /\ UNCHANGED <<subscribers, status, brokerSubs>>

CallStep(x) ==
  \/ Write(x) \/ TimesOut(x)
  \/ x \in Pubs /\ Publish(x)
  \/ x \in Topics /\ Subscribe(x)

-----------------------------------------------------------------------------
(* startGateway after the signal: "offline", then Disconnect.              *)

Shutdown ==
  /\ main = "run" /\ main' = "offline"
  /\ call' = [call EXCEPT ![Offline] = "idle"]
  /\ UNCHANGED <<flags, subscribers, reader, loopVars, taken, tcp, broker>>

Disconnect ==
  /\ \/ /\ main = "offline" /\ call[Offline] \in {"ok", "err"}
        /\ main' = "swap"
        /\ UNCHANGED <<flags, taken>>
     \/ /\ main = "swap"
        /\ closed' = TRUE
        /\ main' = IF closed THEN "close" ELSE "store"
        /\ UNCHANGED <<conn, connected, taken>>
     \/ /\ main = "store"
        /\ connected' = FALSE
        /\ main' = "lock"
        /\ UNCHANGED <<conn, closed, taken>>
     \/ /\ main = "lock"
        /\ taken' = conn /\ conn' = NIL
        /\ main' = "close"
        /\ UNCHANGED <<connected, closed>>
  /\ UNCHANGED <<subscribers, reader, loopVars, call, tcp, broker>>

(* DISCONNECT ends the session without the will.  The process ends and     *)
(* with it every connection.                                               *)
Exit ==
  /\ main = "close" /\ main' = "exit"
  /\ session' = IF Up(taken) THEN NIL ELSE session
  /\ brokerSubs' = IF Up(taken) THEN {} ELSE brokerSubs
  /\ net' = [c \in Conns |-> IF Up(c) THEN "closed" ELSE net[c]]
  /\ UNCHANGED <<flags, subscribers, reader, loopVars, call, taken, acks, status>>

-----------------------------------------------------------------------------
(* The network and the broker.                                             *)

Drop(c) ==
  /\ c # MaxConns /\ Up(c)
  /\ net' = [net EXCEPT ![c] = "down"]
  /\ acks' = {}
  /\ UNCHANGED <<flags, subscribers, reader, loopVars, call, mainVars, broker>>

(* The broker notices that the connection is gone.                         *)
Will ==
  /\ session # NIL /\ ~Up(session)
  /\ session' = NIL /\ brokerSubs' = {} /\ status' = "offline"
  /\ UNCHANGED <<flags, subscribers, reader, loopVars, call, mainVars, tcp>>

-----------------------------------------------------------------------------
Running == main # "exit"

(* The process ends with main: none of its goroutines runs on.             *)
Process ==
  /\ Running
  /\ \/ \E x \in Loops : Dial(x) \/ DialFails(x) \/ LoopStep(x)
     \/ \E c \in Conns : ReadAck(c) \/ ReadError(c) \/ handleDisconnect(c)
     \/ \E t \in Topics : RecordHandler(t)
     \/ \E x \in Callers : CallStep(x)
     \/ Shutdown \/ Disconnect \/ Exit

Next == Process \/ (\E c \in Conns : Drop(c)) \/ Will

Spec == Init /\ [][Next]_vars

(* Goroutines that are not blocked go on, sleeps end, the broker handles   *)
(* what it is sent, and a client that dials again and again is accepted    *)
(* some time.  Failures and the shutdown owe nothing.                      *)
Fairness ==
  /\ \A x \in Loops : WF_vars(Running /\ LoopStep(x)) /\ SF_vars(Running /\ Dial(x))
  /\ \A c \in Conns : WF_vars(Running /\ (ReadError(c) \/ handleDisconnect(c)))
  /\ \A x \in Callers : WF_vars(Running /\ CallStep(x))
  /\ WF_vars(Disconnect \/ Exit) /\ WF_vars(Will)

FairSpec == Spec /\ Fairness
-----------------------------------------------------------------------------
(* Properties.                                                             *)

(* A connection that is read from is the client's connection, unless       *)
(* Disconnect has taken it: however losses, reconnects and the shutdown    *)
(* interleave, no connection is overwritten and left open behind the       *)
(* client's back, where its commands would be executed a second time.      *)
NoOrphan == \A c \in Conns : reader[c] = "reading" => conn = c \/ taken = c

(* While the program runs and the network lets it, the broker comes to     *)
(* have every subscription: one asked for before, during or after a        *)
(* reconnect is not forgotten.                                             *)
SubscriptionsRestored ==
  <>[](main = "run") =>
    \A t \in Topics : <>[](call[t] \in {"ok", "err"} => t \in brokerSubs)

(* While the program runs the retained status comes to be "online", the    *)
(* wills of the lost connections notwithstanding.                          *)
ComesOnline == <>[](main = "run") => <>[](status = "online")

(* README.md, topic tree: "status  # Service online/offline (LWT)".  Once  *)
(* the program has ended and the broker knows it the status is "offline".  *)
EndsOffline == main = "exit" /\ session = NIL => status = "offline"
=============================================================================
