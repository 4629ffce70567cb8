-------------------------- MODULE MQTTClientProofs --------------------------
(* Proofs about MQTTClient, for any number of connections and any topics.  *)
EXTENDS MQTTClient, TLAPS

Trying == {"test", "sleep", "dial", "store"}
Attached == {"reading", "lost"}

(* Whoever stores a connection has one.                                    *)
StoresOne == \A x \in Loops : loop[x] = "store" => made[x] \in Conns

(* The right to connect is in one place: a reader that has not yet given   *)
(* its connection up, or a loop (main's first Connect included) that has   *)
(* not yet stored a new one.                                               *)
OneTry ==
  /\ \A c, d \in Conns : reader[c] \in Attached /\ reader[d] \in Attached => c = d
  /\ \A x, y \in Loops : loop[x] \in Trying /\ loop[y] \in Trying => x = y
  /\ \A c \in Conns, x \in Loops : ~(reader[c] \in Attached /\ loop[x] \in Trying)

(* Disconnect takes a connection once, after main's own Connect has ended. *)
TakenOnce ==
  /\ taken # NIL => main \in {"close", "exit"}
  /\ loop[Main] # "none" => main = "connect" /\ loop[Main] \in {"dial", "store"}

ConnInv == TypeOK /\ StoresOne /\ OneTry /\ NoOrphan /\ TakenOnce

(* The initial state: main dials, no connection is read from.              *)
LEMMA InitConn == Init => ConnInv
<1> SUFFICES ASSUME Init PROVE ConnInv
  OBVIOUS
<1>1. Main \in Loops /\ NIL \notin Conns /\ Main \notin Conns
  BY MQTTAssumption DEF Loops
<1>2. TypeOK
  BY <1>1 DEF Init, TypeOK
<1>3. StoresOne /\ TakenOnce
  BY <1>1 DEF Init, StoresOne, TakenOnce
<1>4. OneTry /\ NoOrphan
  BY <1>1 DEF Init, OneTry, NoOrphan, Trying, Attached
<1> QED BY <1>2, <1>3, <1>4 DEF ConnInv

(* A dial makes a connection that nobody reads from yet.                   *)
LEMMA DialConn ==
  ASSUME ConnInv, NEW x \in Loops, Dial(x) PROVE ConnInv'
<1> USE MQTTAssumption DEF ConnInv
<1>1. PICK c \in Conns : net[c] = "new"
        /\ net' = [b \in Conns |-> IF b = c THEN "up" ELSE IF b < c THEN "down" ELSE "new"]
        /\ made' = [made EXCEPT ![x] = c] /\ session' = c
  BY DEF Dial
<1>2. TypeOK'
  BY <1>1 DEF Dial, TypeOK, flags, mainVars
<1>3. StoresOne'
  BY <1>1 DEF Dial, TypeOK, StoresOne
<1>4. OneTry' /\ NoOrphan'
  BY <1>1 DEF Dial, TypeOK, OneTry, NoOrphan, Trying, flags, mainVars
<1>5. TakenOnce'
  BY DEF Dial, TypeOK, TakenOnce, mainVars
<1> QED BY <1>2, <1>3, <1>4, <1>5

(* Storing a connection hands the right to connect to its reader.          *)
LEMMA ConnectedConn ==
  ASSUME ConnInv, NEW x \in Loops, Connected(x) PROVE ConnInv'
<1> USE MQTTAssumption DEF ConnInv
<1> DEFINE c == made[x]
<1>1. c \in Conns /\ loop[x] = "store"
  BY DEF Connected, StoresOne
<1>2. \A d \in Conns : reader[d] \notin Attached
  BY <1>1 DEF OneTry, Trying
<1>3. \A y \in Loops : y # x => loop[y] \notin Trying
  BY <1>1 DEF OneTry, Trying
<1>4. TypeOK'
  BY <1>1 DEF Connected, TypeOK, tcp, broker, Callers, Pubs
<1>5. StoresOne'
  BY <1>1 DEF Connected, TypeOK, StoresOne
<1>6. \A d \in Conns : reader'[d] \in Attached => d = c
  BY <1>1, <1>2 DEF Connected, TypeOK
<1>7. \A y \in Loops : loop'[y] \notin Trying
  BY <1>1, <1>3 DEF Connected, TypeOK, Trying
<1>8. OneTry'
  BY <1>6, <1>7 DEF OneTry
<1>9. NoOrphan'
  BY <1>6 DEF NoOrphan, Connected, Attached
<1>10. TakenOnce'
  BY <1>1 DEF Connected, TypeOK, TakenOnce, Loops
<1> QED BY <1>4, <1>5, <1>8, <1>9, <1>10

(* The reader gives its connection up and its loop tries in its place.     *)
LEMMA HandleDisconnectConn ==
  ASSUME ConnInv, NEW c \in Conns, handleDisconnect(c) PROVE ConnInv'
<1> USE MQTTAssumption DEF ConnInv
<1>1. reader[c] = "lost"
  BY DEF handleDisconnect
<1>2. /\ \A d \in Conns : d # c => reader[d] \notin Attached
      /\ \A y \in Loops : loop[y] \notin Trying
  BY <1>1 DEF OneTry, Attached
<1>3. c \in Loops
  BY DEF Loops
<1>4. TypeOK'
  BY <1>3 DEF handleDisconnect, TypeOK, mainVars, tcp, broker
<1>5. \A d \in Conns : reader'[d] \notin Attached
  BY <1>2 DEF handleDisconnect, TypeOK, Attached
<1>6. \A y \in Loops : y # c => loop'[y] \notin Trying
  BY <1>2, <1>3 DEF handleDisconnect, TypeOK
<1>7. StoresOne'
  BY <1>3 DEF handleDisconnect, TypeOK, StoresOne
<1>8. OneTry' /\ NoOrphan'
  BY <1>5, <1>6 DEF OneTry, NoOrphan, Attached
<1>9. TakenOnce'
  BY <1>3 DEF handleDisconnect, TypeOK, TakenOnce, mainVars, Loops
<1> QED BY <1>4, <1>7, <1>8, <1>9

(* The loop steps that neither dial nor store: a loop leaves Trying or     *)
(* stays in it.                                                            *)
LEMMA LoopConn ==
  ASSUME ConnInv, NEW x \in Loops,
         DialFails(x) \/ LoopTest(x) \/ LoopWakes(x) \/ resubscribeAll(x) \/ Resubscribe(x)
  PROVE  ConnInv'
<1> USE MQTTAssumption DEF ConnInv
<1>1. /\ UNCHANGED <<flags, subscribers, reader, made, call, taken, tcp, session>>
      /\ loop' = loop \/ \E s \in {"none", "test", "sleep", "dial", "send"} :
           loop' = [loop EXCEPT ![x] = s] /\ (s \in Trying => loop[x] \in Trying)
  BY DEF DialFails, LoopTest, LoopWakes, resubscribeAll, Resubscribe, Trying, mainVars, broker
<1>2. /\ main' \in {main, "exit"}
      /\ status' \in {"online", "offline"} /\ brokerSubs' \subseteq Topics
      /\ todo' \in [Loops -> SUBSET Topics]
  <2>1. CASE DialFails(x) BY <2>1 DEF DialFails, TypeOK, broker
  <2>2. CASE LoopTest(x) BY <2>2 DEF LoopTest, TypeOK, mainVars, broker
  <2>3. CASE LoopWakes(x) BY <2>3 DEF LoopWakes, TypeOK, mainVars, broker
  <2>4. CASE resubscribeAll(x) BY <2>4 DEF resubscribeAll, TypeOK, mainVars, broker
  <2>5. CASE Resubscribe(x) BY <2>5 DEF Resubscribe, writePacket, TypeOK, mainVars
  <2> QED BY <2>1, <2>2, <2>3, <2>4, <2>5
<1>3. TypeOK'
  BY <1>1, <1>2 DEF TypeOK, flags, tcp
<1>4. \A y \in Loops : /\ loop'[y] \in Trying => loop[y] \in Trying
                       /\ loop'[y] = "store" => loop[y] = "store"
  BY <1>1 DEF TypeOK, Trying
<1>5. StoresOne' /\ OneTry' /\ NoOrphan'
  BY <1>1, <1>4 DEF StoresOne, OneTry, NoOrphan, flags
<1>6. TakenOnce'
  <2>1. CASE DialFails(x) BY <2>1 DEF DialFails, TypeOK, TakenOnce
  <2>2. CASE LoopTest(x) BY <2>2 DEF LoopTest, TypeOK, TakenOnce, mainVars
  <2>3. CASE LoopWakes(x) BY <2>3 DEF LoopWakes, TypeOK, TakenOnce, mainVars
  <2>4. CASE resubscribeAll(x) BY <2>4 DEF resubscribeAll, TypeOK, TakenOnce, mainVars
  <2>5. CASE Resubscribe(x)
    <3>1. loop' = loop \/ loop' = [loop EXCEPT ![x] = "none"]
      BY <2>5 DEF Resubscribe
    <3>2. UNCHANGED <<main, taken>> /\ Main \in Loops
      BY <2>5 DEF Resubscribe, mainVars, Loops
    <3> QED BY <3>1, <3>2 DEF TypeOK, TakenOnce
  <2> QED BY <2>1, <2>2, <2>3, <2>4, <2>5
<1> QED BY <1>3, <1>5, <1>6

(* The reader's other steps.                                               *)
LEMMA ReaderConn ==
  ASSUME ConnInv, NEW c \in Conns, ReadAck(c) \/ ReadError(c) PROVE ConnInv'
<1> USE MQTTAssumption DEF ConnInv
<1>1. CASE ReadAck(c)
  <2>1. TypeOK'
    BY <1>1 DEF ReadAck, TypeOK, flags, loopVars, mainVars, broker
  <2> QED BY <1>1, <2>1 DEF ReadAck, StoresOne, OneTry, NoOrphan, TakenOnce, flags, loopVars, mainVars
<1>2. CASE ReadError(c)
  <2>1. TypeOK'
    BY <1>2 DEF ReadError, TypeOK, flags, loopVars, mainVars, tcp, broker
  <2>2. \A d \in Conns : /\ reader'[d] \in Attached => reader[d] \in Attached
                         /\ reader'[d] = "reading" => reader[d] = "reading"
    BY <1>2 DEF ReadError, TypeOK, Attached
  <2> QED BY <1>2, <2>1, <2>2 DEF ReadError, StoresOne, OneTry, NoOrphan, TakenOnce, flags, loopVars, mainVars
<1> QED BY <1>1, <1>2

(* Publish and Subscribe touch no connection.                              *)
LEMMA CallConn ==
  ASSUME ConnInv, NEW x \in Callers, CallStep(x) \/ (x \in Topics /\ RecordHandler(x)) PROVE ConnInv'
<1> USE MQTTAssumption DEF ConnInv, Step
<1>1. UNCHANGED <<flags, reader, loopVars, mainVars, net, session>>
  BY DEF CallStep, Write, TimesOut, Publish, Subscribe, RecordHandler
<1>2. \E s \in {"err", "wait", "write", "ok", "recorded"} : call' = [call EXCEPT ![x] = s]
  BY DEF CallStep, Write, TimesOut, Publish, Subscribe, RecordHandler
<1>3. /\ subscribers' \subseteq Topics /\ acks' \subseteq Callers
      /\ status' \in {"online", "offline"} /\ brokerSubs' \subseteq Topics
  <2>1. CASE Write(x) BY <2>1 DEF Write, writePacket, TypeOK
  <2>2. CASE TimesOut(x) BY <2>2 DEF TimesOut, TypeOK
  <2>3. CASE Publish(x) \/ Subscribe(x) BY <2>3 DEF Publish, Subscribe, TypeOK
  <2>4. CASE x \in Topics /\ RecordHandler(x) BY <2>4 DEF RecordHandler, TypeOK
  <2> QED BY <2>1, <2>2, <2>3, <2>4 DEF CallStep
<1>4. TypeOK'
  BY <1>1, <1>2, <1>3 DEF TypeOK, flags, loopVars, mainVars
<1> QED BY <1>1, <1>4 DEF StoresOne, OneTry, NoOrphan, TakenOnce, flags, loopVars, mainVars

(* The shutdown: Disconnect takes the connection before it is closed.      *)
LEMMA MainConn ==
  ASSUME ConnInv, Shutdown \/ Disconnect \/ Exit PROVE ConnInv'
<1> USE MQTTAssumption DEF ConnInv
<1>1. CASE Shutdown
  <2>1. TypeOK'
    BY <1>1 DEF Shutdown, TypeOK, flags, loopVars, tcp, broker
  <2> QED BY <1>1, <2>1 DEF Shutdown, StoresOne, OneTry, NoOrphan, TakenOnce, flags, loopVars
<1>2. CASE Disconnect
  <2>1. TypeOK'
    BY <1>2 DEF Disconnect, TypeOK, flags, loopVars, tcp, broker
  <2>2. StoresOne' /\ OneTry'
    BY <1>2 DEF Disconnect, StoresOne, OneTry, loopVars
  <2>3. NoOrphan'
    BY <1>2 DEF Disconnect, NoOrphan, TakenOnce, flags
  <2>4. TakenOnce'
    BY <1>2 DEF Disconnect, TakenOnce, loopVars
  <2> QED BY <2>1, <2>2, <2>3, <2>4
<1>3. CASE Exit
  <2>1. TypeOK'
    BY <1>3 DEF Exit, TypeOK, flags, loopVars
  <2> QED BY <1>3, <2>1 DEF Exit, StoresOne, OneTry, NoOrphan, TakenOnce, flags, loopVars
<1> QED BY <1>1, <1>2, <1>3

(* A lost connection and the will touch nothing of the client.             *)
LEMMA NetworkConn ==
  ASSUME ConnInv, (\E c \in Conns : Drop(c)) \/ Will PROVE ConnInv'
<1> USE MQTTAssumption DEF ConnInv
<1>1. TypeOK'
  BY DEF Drop, Will, TypeOK, flags, loopVars, mainVars, broker, tcp
<1> QED BY <1>1 DEF Drop, Will, StoresOne, OneTry, NoOrphan, TakenOnce, flags, loopVars, mainVars

(* Every step keeps the invariant.                                         *)
LEMMA NextConn == ConnInv /\ [Next]_vars => ConnInv'
<1> SUFFICES ASSUME ConnInv, [Next]_vars PROVE ConnInv'
  OBVIOUS
<1>1. CASE UNCHANGED vars
  BY <1>1 DEF ConnInv, TypeOK, StoresOne, OneTry, NoOrphan, TakenOnce, vars, flags, loopVars, mainVars, tcp, broker
<1>2. CASE Next
  BY <1>2, DialConn, ConnectedConn, HandleDisconnectConn, LoopConn, ReaderConn, CallConn, MainConn,
     NetworkConn DEF Next, Process, LoopStep, Callers
<1> QED BY <1>1, <1>2

(* Spec keeps ConnInv: the base of the theorems below.                     *)
LEMMA ConnInvariant == Spec => []ConnInv
  BY InitConn, NextConn, PTL DEF Spec

(* Type correctness of TCPClient's fields, goroutines and broker.          *)
THEOREM MQTTTypeCorrect == Spec => []TypeOK
<1>1. ConnInv => TypeOK BY DEF ConnInv
<1> QED BY <1>1, ConnInvariant, PTL

(* However losses, reconnects and Disconnect interleave, a connection that *)
(* is read from is the client's own or the one Disconnect took.            *)
THEOREM NoOrphans == Spec => []NoOrphan
<1>1. ConnInv => NoOrphan BY DEF ConnInv
<1> QED BY <1>1, ConnInvariant, PTL

(* Two connections are never read from at once, and no reconnect loop      *)
(* dials while one is: the client has one session at most.                 *)
THEOREM OneConnection == Spec => []OneTry
<1>1. ConnInv => OneTry BY DEF ConnInv
<1> QED BY <1>1, ConnInvariant, PTL
=============================================================================
