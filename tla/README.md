# GSM2MQTT: TLA+ models and proofs

GSM2MQTT drives GSM modems over AT commands and connects them to MQTT and HTTP.
This directory models the parts of it in which goroutines, timers, callbacks and
an unreliable modem meet, checks them with TLC and proves the main safety
properties with TLAPS.  Every definition is written from the Go source; the
`map` of `PROJECT.json` gives the lines.

## 1. Inventory

| Component | State | Operations | Talks to |
|---|---|---|---|
| AT engine (`internal/modem/at`) | `cmdMu`, `respMu`, `inFlight`, `currentResp`, `activeCmd`, `promptChan`, `urcChan` (100) | `Send`, `SendCommand`, `SendPDU`, reader loop `Start`, `processLine`, `dispatchURC` | serial port; drivers and services call it, `urcLoop` drains `urcChan` |
| SMS service (`services/sms*.go`) | `expectingCMT/CDS`, `syncMu` | `Send`, `dispatchPDUs`, `HandleURC`, `SyncStoredMessages` | engine, tracker, assembler, filter, limiter |
| Delivery tracker (`sms/tracker.go`) | `pending` (recipient and reference to entry and timer) | `Track`, `HandleReport`, `handleTimeout` | called by the sender loop, the URC goroutine, timers; publishes to MQTT |
| Multipart assembler (`sms/assembler.go`) | `pending`, `flushed` (sender and reference) | `AddPart`, `flushPending`, `cleanupExpired` | called by the URC goroutine and the storage sync, timers; publishes and records in the inbox |
| USSD service (`services/ussd.go`) | `pendingCh` | `Send`, `HandleURC`, `clearPending` | MQTT, HTTP, pool and balance check call it; URC goroutine |
| Call service (`services/call*.go`) | call state, auto-drop timer, monitor goroutine, history | `Dial`, `Hangup`, `HandleURC` | engine, tariff manager |
| Modem runner, status service | connection, backoff, health cache, fail count | `Run`, `runOnce`, `Poll` | everything above, MQTT subscriptions |
| Stored message sync, inbox | SIM storage, inbox list and file | `SyncStoredMessages`, record, publish | driver, assembler |
| Modem pool | modems, round-robin index | `Candidates`, `SendSMS`, `Dial`, `Hangup` | runners |
| Rate limiter, filters, recipients | sliding windows, cooldown, recipients file | `Check`, `Reset`, `Add`, `Remove`, `Set` | SMS service, gateway manager |
| Tariff manager | usage of the month and the day, limits, balance, warned flags, file | record, `UpdateBalance`, `UpdateConfig`, `SetUsage`, reset, save and load | SMS and call events, balance parser, MQTT and HTTP commands |
| Gateway manager | runners, RWMutex, retained recipients topic | lookups, recipients operations | HTTP API, MQTT |
| MQTT client (`client_tcp.go`) | connection, `closed`, `doneCh`, message ids, subscribers | `Connect`, `Disconnect`, reconnect and keep-alive loops | broker |
| PDU codec, validator, drivers, discovery, config, API | none, or start-up only | pure functions, AT command sequences | |

What is hard here is not a single function but who runs it: the reader
goroutine, the URC goroutine, timer goroutines, the storage sync, MQTT and HTTP
callers and a modem that is late, silent or talks unasked.  Around it come a
broker that goes away, files that are cut by a crash, and a process that starts
again.  The `hazards` of `PROJECT.json` list the places, each with the property
that would catch it going wrong or the reason why none does.

## 2. Modules

`ATEngine` is the engine and the line.  A *call* is one invocation of `Send` or
`SendPDU`; since each makes its own `Response` and channels, these are named by
the call.  Every critical section of `respMu` is one step; `cmdMu` is a variable.
Commands and lines are reduced to the classes the code's text tests tell apart
(`isURC`, `isCommandResponse`, `isCallTerminationResponse`, echo).  The modem is
external: it queues commands (`owed`), answers them in order, forgets them,
prompts for a PDU, and emits unsolicited lines.  `clean[c]` records that the
modem owed nothing when `c` registered.

`DeliveryTracker` is `Tracker` with its callers: the sender loop (`Sent`,
`SendFails`, `Track`), the URC goroutine (`HandleReport`), timers (`TimerFires`,
`handleTimeout`).  `onUpdate` runs after the unlock and is a step of its own
(`TrackCallback`, `ReportCallback`, `TimeoutCallback`).  TP-ST codes are the four
ranges of `DecodeStatusReport`, recipients come in the three forms
`canonicalRecipient` treats differently.  A timer function that has started is
not stopped by `Stop`.

`Assembler` is `Assembler` with its two callers.  A `partialMessage` and the
`flushedMessage` made of it share a parts map, so they are one object.  `AddPart`
is one step (with `cleanupExpired` in front), `flushPending` is three: the locked
part, the formatting of the shared map, the callback.  A late part written while
a flusher has not finished formatting is a data race; the model lets the runtime
abort (`crashed`) or not.

`USSDService` is `USSDService` with concurrent queries.  The registered channel
is named by the query that made it.  A `+CUSD` line that arrives while an
`AT+CUSD` command is in flight is part of its output (this is what
`isCommandResponse` decides in `ATEngine`), any other goes to the URC goroutine.

`CallService` is `CallService` with concurrent `Dial`s and `Hangup`s.  A `Dial`
names the timer, the stop channel and the monitor goroutine it makes; each
critical section of `mu` and each AT command is a step, so everything may happen
between them: `handleCallAnsweredDrop` is `Answered`, `DropHangup`, `Dropped`, run by
the URC goroutine or a monitor.  URCs come at any moment, stale ones included.
"completed", "busy" and "failed" are one state, since no code asks which it is.

`MQTTClient` is the pure-TCP client with what `main.go` does with it.  Connections
are numbered; one names its reader, its `OnConnect` goroutine and the reconnect loop
its loss starts.  `Connect`, the reader's `handleDisconnect`, the steps of
`reconnectLoop` (test, sleep, dial, store, resubscribe), `Publish`, `Subscribe` and
`Disconnect` are cut at their locks and at their packets.  The broker is external: one
session, its will, a session taken over.

`ModemRunner` is `Run` with its sessions, and the status goroutine each session
starts.  `lastHealth` and the retained message are written in two steps, by `Run` and
by a poll that may belong to an earlier session.  `Appends` chooses between the two
MQTT clients: one keeps the handlers of earlier sessions, the other replaces them.

`OutgoingSMS` is abstract: what a message to one recipient may go through.  `SMSSend`
is the path in the code: a request to the pool or to one modem, the candidates of the
strategy, `SMSService.Send` with filter, limiter and cooldown, the parts one by one,
the failover, the charge.  `Abs` instantiates the abstract module with the reported
state of each item and the number of whole copies the network took.  A history of the
limiter is a set of numbered checks with their times: the code keeps the times in order
and asks only how many are left after pruning.  `passed` remembers every check that
passed and is what `WindowsSlide` measures.

`Inbox` is `SyncStoredMessages` run by a +CMTI goroutine and by the loop of the
session: selection, list, processing, deletion by index, under `syncMu`, against a
modem that stores new messages at the first free index meanwhile; and the inbox with
its file.  The list that +CMGL returns is a set of pairs of an index and a message, worked
off from the smallest index on.  Commands fail and the process crashes up to `MaxFaults` times.

`Tariff` is the accounting of one modem: messages per month and per day, minutes and
bytes, the quotas of the first, the third and the fourth, and the low-balance threshold,
each with its warning flag.  One limit stands for the four: a command sets or clears them
together.  A save is truncation, write and rename; between them the process may crash.
After a reconnect two managers share the file and the temporary file, and both handle the
commands; the handler of `tariff/set` takes the manager's lock twice (`Handle`,
`HandleUsage`).  The calendar is a row of days of which the last begins another month.
`told`, `dropped` and `again` are histories of the alerts of a manager.

`Recipients` is the recipients list behind the gateway manager: requests that hold
the read lock while `onChange` takes it again, a start-up that wants the write lock,
the file (a list, and whether it can be parsed), the retained topic, reconnects and
restarts.  A waiting writer keeps new readers out, as `sync.RWMutex` has it.

`PDU` is the codec as operators (`NormalizePhoneNumber`, `Transliterate`,
`EncodeGSM7`, `PackSeptets`, `SplitChunks`, `EncodeSMS`, `DecodeSMS` and their
helpers), with two actions around them: `Send`, and `Receive` of each part in any
order.  A request is a number, a text and whether to transliterate it.  The header is the
one `encodePart` writes, or one with a reference of 16 bits, as other senders do; a
reference is what `nextRefNumber` returns, or, since the counter has no lock, what a
concurrent caller has made of it (`References`).  `Slot` is where the receiver puts a part:
the first place when it says that it is alone.  Where the code
fills an array in a loop (`PackSeptets`) the model says what each element gets: `Octet` is
the sum of what the two septets that reach into it leave there (`Share`).

How they fit together: `SMSSend` calls what `ATEngine` promises (a command is
answered, refused, or its answer is lost); the parts it sends are what
`DeliveryTracker` tracks; the messages `Inbox` reads and the +CMT lines go to
`Assembler`, of which `Inbox` keeps the set of parts held; `ModemRunner` starts and
ends the sessions in which all of these live, and `Tariff` and `ModemRunner` have the
handlers that earlier sessions leave behind; `MQTTClient` carries the publications
that the others take as delivered.

Eight modules hold the theorems: `ATEngineProofs`, `AssemblerProofs`, `MQTTClientProofs` and
`SMSSendProofs` are about the module they are named after; `RunnerProofs` about what
outlives a session, `ModemRunner` and `Tariff`; `IncomingProofs` about what the network
sends, `USSDService` and `Inbox`; `CallRecipientsProofs` about `CallService` and
`Recipients`; `SMSPackageProofs` about the package `sms`, `DeliveryTracker` and `PDU`.
Where a proof module is about two models the second one's names have a prefix
(`TariffInit`, `InboxSpec`, `RecipientsTypeOK`, `PDUNext`), and its absent value is `NONE`.
`MCAssembler`, `MCRecipients` and `MCPDU` give their models messages, numbers and texts;
the others are instantiated by their `.cfg` alone.

Definitions named `X_Something` are faulty versions of `X`, kept to show that the
properties notice the fault.  Every module has a `TypeOK`, which is proved and can be
added to any `.cfg`.

## 3. Runs

| Run | Shows |
|---|---|
| `at_engine` | The reader never blocks or dereferences nil while it holds `respMu`; a Response handed out never changes; a call on a quiet line gets its own answer and writes its PDU only after its own prompt; every call returns. |
| `tracker` | At most one outcome per message; outcomes agree with a report for the key; every entry leaves. |
| `assembler` | Complete means whole (when the totals of a reused reference agree); completed no more often than delivered; no part lost; every part eventually published. |
| `ussd` | No reply is dropped at a full channel; every returned text is reported; every `Send` returns. |
| `call` | A ringing outgoing call has a `Dial` or a live timer behind it; no stop channel is closed twice; neither "ringing" nor "answered" lasts. |
| `mqtt` | No connection is overwritten and left open; every subscription comes back after a loss; the status comes to be "online" although wills arrive late. |
| `runner` | A command is sent by one session's handler only; a modem that stays away is shown as disconnected; a shutdown ends `Run` wherever it is. |
| `sms_send` | `SMSSend` implements `OutgoingSMS`; what is charged was sent whole by the modem it is charged to; the windows of the limiter slide; every recipient of a request is taken up and reported, whichever of the others fail. |
| `inbox` | No stored message is lost over crashes, failing commands and reused indexes; none is listed twice; one on the SIM is read although its notification was lost. |
| `tariff` | A restart restores what was saved and never finds a torn file; within a session every counter that reaches 90 % or all of its quota, and every balance below the threshold, is told of, and once, over records, overrides, changed limits and resets. |
| `recipients` | The retained list is the current one once nothing is under way; a restart keeps the list; the start-up ends. |
| `pdu` | No part exceeds 140 octets; texts and numbers come out as they went in, all parts under one reference; in every part the septets lie where TS 23.038 and 23.040 have them. |

Some properties carry a premise because the code does not keep them without it
(`CleanAnswer`, `CleanPayloadAfterPrompt`, `OutcomeIsReported`, `CompleteIsWhole`,
`StoredIsRead`, `RestartLosesNothing`, `ShownIsCurrent`, `RestartKeeps`, `StartupEnds`,
`PartsFit`, `RoundTrip`, `AlertsTold`): the comment at each states the premise or the
exception, section 6 what happens without it.  Such a property does not guard against the
case its premise excludes; the notes of the `hazards` say which half of a hazard it covers.

Bounds.  Two calls are enough for a time-out, a late answer and a successor;
`UrcCap = 1` makes the channel full after one line.  Two messages cover equal
and different recipients and references, hence overwriting and a stale timer.
The assembler is given one message of two parts with four deliveries (so that
parts repeat, and come after completion and after a flush), or two messages with
one reference and three deliveries, or a single-part message and one that is too
long; `MaxParts` stands for 20.  Two USSD queries cover overwriting, foreign
`clearPending` and late replies.  Two `Dial`s and one goroutine that calls
`Hangup` any number of times cover overwritten timers, orphaned monitors and a
drop that outlives its call; one of "NO CARRIER" and "BUSY" stands for both.
Two connections give a loss, a take-over and a late will.  Two sessions give a
handler left behind and a poll that outlives its session; a back-off from 3 to 4
has doubling, jitter and both bounds.  Two modems, a pool request and a request with
two recipients give failover, one recipient failing and a limiter at its limit: the
global window (`Span = 0`) refuses two messages at one time, the window per number
(`NumSpan = 1`) a second message to the same number one time unit later; the clock runs
long enough for both to slide and a cooldown to end.  Two indexes per
storage make a freed index be taken again; one fault is a crash, or a failing list,
selection or deletion, at any step.  Two managers, two lives and four operations (two once
there has been a reconnect or a restart) give a save cut at each of its steps, handlers of
two sessions, and a quota of 10 reached by records of 1 and 9, by an override to 10, again
after a reset, or with the limit off; three days give a new day and a new month.  Two recipients requests
with one connection and one modem to register reach overlapping publications and
the nested lock.  Texts of 1 to 161 characters, with and without transliteration, and of
306 and 307 without, lie on both sides of every limit of the codec, with a long character
at the places where parts meet; the references are the counter's, the 0 of a race, and two
of 16 bits, one with a high octet.  The proofs
remove the bounds where there is one.
`CHECK_DEADLOCK FALSE` is set because all models come to rest when the calls,
messages, faults or queries are used up.

Fairness is assumed of the program: goroutines that can run do, mutexes are
eventually obtained (Go's mutexes are starvation-free, and an RWMutex lets the
waiting readers in when the writer unlocks: strong fairness of `Lock` in `Inbox` and of
`Get` in `Recipients`), armed timers fire and tickers tick, a `select` on a cancelled
context takes it in the end (`PollEnds`).  Of the modem nothing is assumed but what the
engine's time-outs ensure: a command returns.  Of the network one thing is, in
`MQTTClient` and `Recipients`: a client that dials again and again is accepted some
time; losses are bounded by `MaxConns` and `MaxFaults`.

## 4. Proofs

`ATEngineProofs` proves `TypeOK`, `ReaderNeverBlocks`, `CleanAnswer`,
`CleanPayloadAfterPrompt` and the action property `ResponseFrozen` for any set of
calls, any channel capacity and any unsolicited lines.  `ReaderNeverBlocks` is not
inductive: `LineInv` adds that the lock, the channel in flight and the Response
belong to one call that has not been answered.  `CleanInv` adds that while a clean
call is active the modem can only be answering that call; `PromptInv` that a
prompt token of a clean call was put there by its own prompt.

`SMSPackageProofs` proves, of `DeliveryTracker`, `TypeOK`, `AtMostOneOutcome`, `TrackedHasTimer` and
`OutcomeIsReported`.  The invariant `OneOwner` says that the right to give a message
its outcome is in one place: its entry, the URC goroutine, a timer goroutine, or
spent.  `OutcomeIsReported` speaks of what was published; `ReportInHand` says the same
of what the URC goroutine holds between the unlock and its callback, and that the timer
goroutines hold nothing but "expired".

`AssemblerProofs` proves, for any messages, keys and callers, `TypeOK`,
`OneEntryPerKey`, `PendingIsTimed`, `CompleteIsWhole`, `CompletedOncePerCopy` and
`NothingLost`.  `OneEntryPerKey` needs `EntriesFit`: an entry has the total of a message
that came and holds parts of messages with its key only, each at a number that message
has.  `CompleteIsWhole` then follows by counting: as many parts as the total, all at
numbers within it, leave no hole, when the totals agree.  `CompletedOncePerCopy` counts
deliveries against completions; `UnusedCopy` says that a part in an entry that can
still complete is a delivery no completion has used up.  `NothingLost` has one step per
action: what takes a part out of an entry puts it into the hands of the one that did.

`IncomingProofs` proves, of `USSDService`, `TypeOK`, `ChannelIsAwaited`, `NoReplyDropped` and
`ReturnedIsReported`.  `OneHolder` says that a channel is registered, held by the
URC goroutine, or filled, never two of these; `ReportedOrHeld` that what a channel
holds was reported or is still in the URC goroutine's hands.

`CallRecipientsProofs` proves, of `CallService`, `TypeOK`, `OutgoingIsTimed` and `NoDoubleClose`, which are
inductive together with the types: whoever stops the current timer also takes the
status out of "dialing" and "ringing", or is a `Dial` that will arm a new one.

`MQTTClientProofs` proves `TypeOK` and `NoOrphan`.  `NoOrphan` is not inductive: a
connection could be stored over another one if two parties could connect.  `OneTry`
says that the right to connect is in one place, a reader that has not given its
connection up or a loop that has not stored a new one; `TakenOnce` that `Disconnect`
takes a connection once, after main's own `Connect`.

`RunnerProofs` proves, of `ModemRunner`, `TypeOK`, with it the bounds of the retry
delay, and `SentOnce`.  `LatestSends` says that handlers and commands belong to sessions opened so
far and that only the latest of those given a command sends it: the port of every
earlier one is closed, and a later one was not registered when the command came.

`SMSSendProofs` proves, for any number of modems, requests, recipients and parts, every
strategy and every setting of the limiter, `TypeOK`, `ChargedIsSent`, `WindowsSlide` and
the refinement `KeepsPromise`.

- `EveryReadyOnce` is about the strategies: the candidates are the ready modems, each
  once.  `PrependCandidate` and `Rotation` read the list through a permutation of its
  places (`Permuted`), whatever the value of the round-robin index.
- `Fits` is the invariant of one request: the recipients it has still to reach are new,
  the one it works on is pending (accepted once it was answered), and no modem it has
  still to try has sent it.  Without the last part a second copy through the same modem
  could not be excluded, and the count of copies would not rise with each one.
- Every action of a request amounts to `Reaches`: its goroutine takes a new state that
  fits, and at most one of its items makes a move (`ItemMove`).  What a move does to
  types, charges and the promise is proved once, for all actions: each move is one of the
  five actions of `OutgoingSMS`, everything else leaves its variables alone.
- `HistoryKept` is the limiter's invariant: pruning has forgotten no check that is still
  in its window.  An interval that holds a new check lies within the window that ends
  now, so that its other checks were counted when the new one was let through.

`RunnerProofs` also proves, of `Tariff`, for any number of sessions and restarts, any
counters, any quota and any number of days, `TariffTypeOK`, `AlertsTold` and
`RestartLosesNothing`; the month changes once, as in the model.

- `MadeOnly` says that handlers and balances belong to managers that were made, that the
  others have no alerts and no save, and that a manager that has begun to save has its
  day and month: without that an undated state could be written.
- `AlertsTold` speaks of steps: one that moves a counter to a threshold tells of it, or it
  was told before.  That needs `FlagsTold`, which says that a flag is up exactly when its
  alert was sent, or dropped by `SetUsage`, since the last reset or recovered balance: an
  evaluation returns what is reached and not flagged (`EvaluateFacts`, `TimelyChange`), so
  that what it does not return was told.  The limit cannot change in the same step as a
  counter, and a counter that a step leaves alone owes nothing.
- `RestartLosesNothing` needs `SaveFits`, which follows the save of an only manager: what
  it has opened is still empty, what it has written is its own snapshot, and no manager is
  dated ahead of the calendar, so that after the change of the month none of the dated
  ones is of the current month.  A manager without a month has found no file and still has
  nothing to lose.  A second manager ends the premise: then `shared` is set for good.

`IncomingProofs` also proves, of `Inbox`, for storages of any size, any messages and any
number of faults, `InboxTypeOK`, `NoneLost`, `InboxOnce` and that every deletion by index
hits the message that was listed there and is kept elsewhere (`DeletesWhatItHandled`).

- `NoneLost` is not inductive: a deletion could take a message that came to the index after
  the list was read.  `HolderSyncs` says that past `syncMu` there is its holder only,
  `ListIsStored` that what it has listed still is where it was listed: the modem takes free
  indexes only, and nobody else selects a storage or deletes.  `DeletedIsKept` says that
  what is deleted next is junk, published, or a part the assembler holds.
- The message in hand is the one at the smallest index of the list; that there is one for
  a set of any size comes from the well-foundedness of the order (`WFMin`).

`CallRecipientsProofs` also proves, of `Recipients`, for any requests, connections, lists
and faults, `RecipientsTypeOK`, `ShownIsCurrent` and `RestartKeeps`.

- `ShownIsCurrent` needs `CopiesAreCurrent` and `SomebodyShows`: unless changes have
  overlapped, every copy on its way to the broker is the current list, and as long as the
  topic is not current somebody is on the way.
- `RestartKeeps` needs `SaverHolds` and `FileIsCurrent`: one process saves, and outside a
  save the file is the list, or was never written for an empty one.
- The type says that no number is listed twice, in memory, in the file, in a copy or on the
  topic.  `Remove` takes the first entry only, so that a removed number is gone because of
  it (`RemovedNumbersAreGone`).  `NormalizedOnce` shows it of what `Set` and a start make of any list, by induction
  over the list.

`SMSPackageProofs` also proves, of `PDU`, for every text, number, transliteration table and
reference, and for both headers, `PDUTypeOK`, `PackedAsStandard`, `PartsFit` and
`RoundTrip`.  `PDUInv` is a small invariant: what was sent is the encoding of the request
under some reference the counter may return, and what was received under a number is the
decoding of a part with that number.  The work is
in what the operators compute for inputs of any length:

- Inductions are done by hand, through the smallest counterexample (`Smallest`, `Upwards`).
  A recursive function is first shown to exist (`FlattenDef`, `ChunksDef`, `TakenDef`).
  `FlattenAt` says where the pieces of a joined sequence lie, `FlattenIs` that a sequence
  which the pieces build up is the joined one.
- `OctetIs` reduces an octet of `PackSeptets` to two septets and an offset; from there
  `JoinedBits` (its bits) and `Reassembled` (the septet read back) go through the seven
  offsets.  `PackedBits` and `UnpackedIsPacked` follow for any number of septets and every
  padding.  `BitsOfPart` puts them behind a header: `PackedAsStandard` says of every part that
  its septets begin on the first septet's border after the header and follow bit by bit.
- `ChunkEndIs` says that a chunk fits and that the next character does not; `ChunksSplit` that
  the chunks follow each other from the first character to the last.  `PartsFit` adds up the
  header, the padding and the chunk, `ChunksJoined` puts the text together again.
- `Recovered` is the argument common to escapes and surrogate pairs: where every character was
  written as one or two symbols, and those are read as that character, reading the whole
  gives the text.  `DecodedSeptets` needs that an escape never is the second septet of a
  pair, `DecodedUTF16` that no half of a pair is a character of its own.
- Part numbers are bytes.  `OwnNumbers` and `OwnPlaces` show that when every slot is filled
  each holds the part of its own number: were there 256 parts or more, the last slot could
  never be filled, and `RoundTrip` has nothing to say.

The assumptions are the named `ASSUME`s of the component modules: `NIL` and `NONE` differ
from every other value, capacities are naturals, there is a modem and a message has a
part, no file and an unfinished file are not states, processes have different names.
`PDU` assumes that texts are what ranging over a Go string yields (code points that are
no surrogates), that numbers are digits with or without a plus, and that the country code
has at most five digits: `NormalizePhoneNumber` puts it in front of ten digits and checks no
length after it.
The runs of `SMSSend` and `Assembler` that state fairness imply the specifications
without it, of which the theorems speak.

With TLC alone stays liveness (`EveryTargetEnds` and the others): it needs fairness and
`ENABLED`, which the provers do not handle.  Every invariant of the runs is proved, and so
are the action properties `ResponseFrozen` and `AlertsTold` and the refinement.

## 5. Not modelled

- JSON, topic names and Home Assistant discovery, the web UI, configuration loading,
  operator presets, metrics, logging: no state of their own.
- The HTTP API: stateless handlers over calls that are modelled where they end.
- The diagnostic service: one pass over thresholds.
- Drivers, detection and transport, apart from the storage commands: sequences of AT
  commands over one engine, and text parsing.
- `client_paho.go`: a wrapper of a library; its one visible difference, that a new
  handler replaces the old one, is `Appends` in `ModemRunner`.
- Of modelled parts: keep-alive and the QoS 2 handshake of the client, the two-line
  direct delivery flags of the SMS service, the call history file (saved like the
  inbox, without the search for duplicates), `Dial` and `Hangup` through the pool,
  the pattern syntax of the filter.
- Of the codec: time stamps, hexadecimal notation, and the checks of `DecodeSMS` for
  truncated PDUs and other message types; the receiver's refusal of more than 20 parts is
  in `Assembler`.
- Of the engine: the bound of 4096 bytes for a line, and the differences between the
  information commands.
- Of the storage sync: a listed message with an empty PDU, which is skipped and stays
  (`sms_storage.go:73`), and a failing save of the inbox, whose error is dropped
  (`inbox.go:58`).
- Of the tariff manager: `ResetDaily`, which has no caller.
- `Assembler.Close`, `SetAssemblyTimeout` and `CallService.Answer` have no caller outside
  tests.

## 6. Statements the code does not keep

Each of the following is a definition of its module.  It states what a document, a
comment or a test says, and TLC finds a behaviour of the code that breaks it when the
definition is added to the run's `.cfg` as an `INVARIANT` (a `PROPERTY` for
`CallsAreHungUp`).

| Definition | What is said | What happens |
|---|---|---|
| `ATEngine!OwnAnswer` | `docs/architecture.md:184`: "the timeout triggers, cleans up buffers, and unblocks the calling goroutine" | Only `clearInFlight` runs (`engine.go:78`): the late answer is given to the next command. |
| `DeliveryTracker!OutcomeIsLast` | `internal/sms/tracker.go:115`: "Callbacks run outside the lock (no goroutine: bounded, ordered)" | A report handled between `Track`'s unlock and its callback is published first; "pending" stays. |
| `DeliveryTracker!ExpiresByOwnTimer` | `internal/sms/tracker.go:94`: "If overwriting, stop the old timer"; `tracker_test.go:162` | A timer function that has started expires the entry that replaced its own. |
| `Assembler!AlwaysWhole` (`Traffics <- Mixed`, `MaxParts = 3`) | `internal/sms/assembler.go:106`: "If the message is complete (...) it returns the assembled message and true" | Parts are counted, the total is that of the entry: a reused reference completes a message with a hole. |
| `Assembler!NeverCrashes` | `CHANGELOG.md:175`: "resolve concurrency data races and deadlocks" | `flushPending` reads the parts map after the unlock (`assembler.go:238`) while `AddPart` writes it. |
| `USSDService!UnsupportedIsReturned` | `internal/ussd/errors.go:21`: "ErrUSSDNotSupported is returned when the operator or modem does not support the USSD request (status 4)" | `HandleURC` returns at the parse error (`ussd.go:98`), the `Send` waits for its time-out. |
| `CallService!CallsAreHungUp` (`URCs = {}`, `HangupFails = FALSE`) | `internal/services/call.go:15`: "the default duration to allow an outgoing call to ring before auto-hanging up" | The end of an earlier call-drop sets the status of a new call to "completed"; its timer then does nothing. |
| `MQTTClient!EndsOffline` | the topic tree of the repository's README: "status # Service online/offline (LWT)" | The `OnConnect` goroutine of a fresh connection publishes "online" after `main`'s "offline"; the DISCONNECT discards the will. |
| `ModemRunner!OfflineIsShown` | `CHANGELOG.md`: "publish disconnected state and update Home Assistant when modem is offline" | A poll of the session that ended publishes the status it remembers over "disconnected" (`status.go:105`); the next opening corrects it. |

Met while modelling, and excluded by the premise of a property:

- `Recipients!Caught`: a change holds the read lock of the gateway manager while
  `onChange` takes it again; a `Register` waiting in between stops both for ever, ten
  steps from the start.
- A recipients list emptied on purpose is replaced by the whitelist at the next start
  (`recipients.go:67`); a crash inside `os.WriteFile` leaves a file that cannot be read;
  of two overlapping changes the older list may stay retained; `SetMQTT` on a client
  that has just lost its connection never subscribes the recipients topics.
- `EncodeSMS` counts a character of the GSM7 extension table as one unit
  (`encoder.go:62`, under the comment "Calculate units (GSM7 septets ...)"), although it
  takes two septets: 160 characters with one of them do not fit.
- A storage sync that ends with ME selected hides the SIM from the check every
  minute (`sms_storage.go:63`).
- `EncodeSMS` writes the number and the count of the parts as bytes: of 256 parts or more
  the numbers wrap, and no receiver can join them.  `refCounter` (`encoder.go:10`) is a
  variable of the package without a lock: two messages encoded at once may get one
  reference, or the 0 that `nextRefNumber` avoids.  `DecodeSMS` keeps the low octet of a
  reference of 16 bits (`decoder.go:117`), so that messages with different references may
  share a key of the assembler.
- After a reconnect two tariff managers save through one temporary file
  (`tariff/store.go:67`), and a process that runs into the next month keeps the old one
  (`manager_store.go:30`): `lastMonthlyResetMonth` moves at a start or a reset only.
- `SetUsage` evaluates the quotas and drops the alerts (`manager.go:138`): a quota it finds
  used up is never told of in that period.  The flags are not in the file
  (`manager_store.go:53`): after a reconnect or a restart what was told is told again, and
  counters restored above their quota are told of at the next record only.  With the
  threshold off the low-balance flag is not cleared (`alerts.go:113`); a balance of exactly 0
  counts as an unknown one when a session starts.
- `docs/delivery-reports.md:463` keeps a message with a temporary report tracked;
  `HandleReport` (`tracker.go:139`) deletes its entry.
