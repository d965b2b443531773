# A formal model of the PSC driver

The PSC driver (`pscdrv`) connects EPICS records to power supply controllers and
similar devices. A device and the IOC exchange a stream of messages over TCP: an
8 byte header (`PS`, a message ID, a body length) and a body; some devices send the
same messages as UDP datagrams. This directory holds TLA+ modules of the driver, of the
subroutines and controllers that the repository builds on it, and of the servers on the
device side; the TLC runs that check them on small instances; and proofs, checked by
TLAPS, for every instance.

`PROJECT.json` lists the components, the runs, the mutants (for every property a
plausible bug that the property must catch), the source lines of each definition,
the hazards of the code, and the theorems.

## 1. Inventory

Paths are below `src/coreApp/src/` unless they begin with `src/`.

| Component | State | Operations | Modules |
|---|---|---|---|
| Session (`class PSC`, `psc.cpp`, `pscwrap.cpp`) | `session`, `connected`, `timer_active`, `conncount`, `message`, the reconnect timer | `connect`, `start_reconnect`, `reconnect`, `forceReConnect`, `stop`, `eventcb` | `PscSession`, `ConnLifecycle` |
| Transmit path (`psc.cpp`, `pscbase.cpp`) | `Block::data`, `queued`, `count`; `sendbuf`; the output buffer | `write_from_field`, `send`, `queueSend`, `flushSend` | `PscSend`, `SendQueue` |
| Receive path (`psc.cpp`) | `have_head`, `header`, `bodylen`, `bodyblock`, `expect`; the input buffer and its watermarks; the blocks and scan lists | `recvdata` and the readers | `PscRecv`, `MsgStream` |
| Registry (`pscbase.cpp`) | `pscmap`, `send_blocks`, `recv_blocks` | `createPSC`, `getPSCBase`, `getSend`, `startAll` | parts of `PscSession`, `PscSend` |
| Control records (`devPSCCtrl.cpp`) | none of their own | show the status; Send, Send All, Reconnect | actions of `PscSession`, `PscSend` |
| Register, waveform, string records (`devPSCReg.cpp`, `devPSCWf.cpp`, `devPSCString.cpp`), time stamps (`devcommon.cpp`) | value, alarm, time | read a block, write the scratch buffer | `UdpRecords`, and the readers and writers of `PscRecv`, `PscSend` |
| Single register records (`devPSCSingle.cpp`) | `syncData`, `syncNow`, the callback | `received_block`, `sync_callback`, `read_msg`, `write_msg` | `SingleSync` |
| UDP device (`pscudp.cpp`) | socket, `rxscratch`, the blocks | `connect`, `recvdata` | `UdpRecords` |
| Event loop (`evbase.cpp`) | `event_base`, its thread | `run`, `stop` | `cb` of `PscSession` |
| Table controller (`src/pscApp/src/psctbl.cpp`) | mode, deltas, `prev_tg`, `next_tr`, `alarmBits` | `proc_update_target` and the parameter records | `TableControl` |
| Subroutines (`src/pscApp/src/subCalcAlarm.c`, `aSubOperations.cpp`, `slicer2.c`, `src/sigApp/src/asubwf.c`) | the fields of the record | alarm summaries and waveform routines | `Routines` |
| PSD calculation (`src/sigApp/src/fftcalc.cpp`, `fftwrap.cpp`) | parameters, input, results, FFT plans, a worker thread | the setters, `set_wf_input`, `run`, `get_wf_output` | `PsdWorker` |
| Device side library (`src/targetApp`) | client list and count, threads, sockets | `psc_run`, `handle_client`, `psc_send`, `psc_send_one` | `TargetListener` |
| XBPM server (`src/xbpmApp/target`) | connections, a decoder for each | `connread`, `txconn`, `txall` | `XbpmServer` |
| Logging, IOC main, record runner, simulator, dissectors, waveform analysis record, byte order test | | | not modelled, section 7 |

**Interactions.** All devices share one libevent loop thread. Records are processed
by scan and callback threads of the IOC. Both sides meet at `PSC::lock`; libevent has a
lock per bufferevent, taken after `PSC::lock`. Callbacks are deferred and are run with
the bufferevent unlocked. `scanIoRequest()` hands work to the scan threads,
`callbackRequest()` to the callback threads, both without waiting. The table controller
is a client of two PSCs: it reads a polarity with the lock of one and sends with that of
the other. The calculation of spectra has a worker of its own. The device side has a
thread per client (`targetApp`) or one loop (`xbpmApp`).

**What is hard.** The event loop chooses a callback first and takes `PSC::lock`
afterwards, so a record or the exit handler can change the session in between. The
byte stream is cut anywhere, a datagram may be cut short. A session ends at any moment,
while the blocks, the shared send buffer and its flags live on. Some accesses are
ordered by no common lock: `syncData`, and whatever stands behind a `Guard(lock);`,
which is a temporary object and unlocks at once (string records, the records of
`fftcalc.cpp`). Allocations, flushes and callback requests can fail halfway. The table
controller must know what a device plays although any of its sends may fail. On the
device side, memory and descriptors are reused while other threads hold them.
`PROJECT.json` lists each hazard at its line, with the properties that cover it.

**What makes each part correct.** Session: a running device has a session or a timer,
callbacks meet the session they are for, the status records follow. Transmit: no
accepted write is overtaken or lost unnoticed. Receive: exactly the messages
sent are delivered, in order, and the stream never stalls. Records: they end with the
newest message of the device. Table controller: it compares with what is
playing, and reports what it did. Spectra: results belong to the newest input and
parameters. Device side: whole messages, an exact count of clients.

## 2. What is modelled

A component has a module with its state and actions, and a `...Props` module with its
properties (those of the XBPM server are in its module); an abstract module says what it
promises to its users; `MC...` modules and configurations give small instances. A
definition beside the one it varies, with the comment *mutant*, is a plausible bug.

### PscSession, PscSessionProps, ConnLifecycle

One action per handler: `OnConnected`, `OnDown` (`eventcb`), `OnRead` (entry of
`recvdata` and the framing error), `OnTimer` (`reconnect`), `Start` (`startAll`),
`ForceReConnect`, `Stop`, `ScanRecord`. A critical section of `PSC::lock` is one
action. `cb` is the event loop thread: `PickCallback` and `PickTimer` choose a
callback (the lock is not held), `Handle` is the part from `Guard g(psc->lock)` to the
return. `Stop` is the one section that waits inside the lock: `exiting = "blocked"`.
Bufferevents are objects of a pool, so that a freed object may be used again. libevent
is modelled from how the driver uses it: deferred callbacks run in the order connected,
read, others; a callback that is picked is not cancelled by `bufferevent_free()`;
`evtimer_del()` from another thread waits for a timer callback that runs.

`ConnLifecycle` is the view of a record: new, connecting, connected, waiting, dead,
and a connection counter. A connection is never replaced without a wait.
`MCPscSession` adds the history variable `past`, the disturbances so far (a forced
reconnect, the exit, a failed allocation), so that one run checks what holds without
them and what holds in spite of them.

### PscSend, PscSendProps, SendQueue

Records write values to the scratch buffer of a block (`WriteField`), queue it
(`SendBlock`, `WriteBlock`, both through `Enqueue` = `queueSend`), and flush
(`SendAll` = `flushSend`, with its failures). A message is an ID and a content; a
length is a number per ID. `ConnDown` keeps `sendbuf` and `queued` and drops the output
buffer, as `start_reconnect()` does. `accepted` is a history variable: the last content
that was accepted for a block and is still owed. `SendQueue` is one FIFO with a
committed prefix; the refinement takes `tx \o sendbuf` for it.

### PscRecv, PscRecvProps, MsgStream

A byte is (message, position); the decoder sees only what it takes from the front. One
action is one round of the loop of `recvdata()`; while `running` is set both locks are
held and neither bytes nor records come in between. `BytesArrive` takes any portion the
high watermark allows and triggers the callback at the low one. What a decoder out of
step would read is no header. `BodyWithoutMemory` is the `std::bad_alloc` that
`bev_datacb()` catches. `MsgStream` has no bytes: the messages of a connection are
delivered whole, once, in order.

### SingleSync, SingleSyncProps

A record with `info(SYNC, "SAME")`. The event loop thread is in `received_block()`
(`rx`: idle, store, request), the callback thread in `sync_callback()` (`sync`: idle,
read, clear), and an action is one access to `syncData`, because no lock is common to
both: `ResizeCopy` and `StoreCopy` are two of them. A read while the other thread stores
may return either value or bytes of both (`Torn`). `read_msg()` looks at the size of the
block and copies from `syncData`, so a copy that is too short is read behind its end
(`CopyValue`), and a copy that is moved meanwhile may fail the assertion on the address
(`AddressFails`). `missed` is a history variable: the cause of the last message not taken.

### UdpRecords, UdpRecordsProps

`RecvData` is one datagram: the checks in the order of `recvdata()`, the read buffer that
grows by the length in a header (`RoomFor`, in 32 bits: `LenMod`), and what a short
datagram leaves in it. Byte `i` of content `v` is `<<v, i>>`, so a property sees from
which datagram and place each byte of a record comes. Register, waveform (with element
steps) and string records read the block; a waveform's value is the sequence of its
elements, and `Shown` names the bytes that a record shows. The string record reads in two
steps, because its guard unlocks at once. Both resizes may run out of memory, the second
after the time of the block is set; an element of a waveform may reach behind the block
(`Beyond`). Output registers rewrite the scratch buffer of a
send block with offset and mask; a mask is a set of bytes. `Databases` says which records
there are.

### TableControl, TableControlProps

`proc_update_target()` is `Begin` (the alarm bits are cleared with no lock),
`ReadPolarity` (lock of the receiving PSC), `Check` (lock of the sending PSC from here on)
and one `Send` for each message, since each may end the update with an exception, with a
connection or without one. The
points of a table are volts; `CheckRamp` is `check_ramp_function()` with all its returns.
The quintic fit of `calcTransientTable()` is abstracted to what it keeps: the points up to
the start, any volts behind it. Its early return leaves the table of an earlier update,
and its singular matrix ends the process (`aborted`). `playing` is a history
variable: the table handed to the socket last, `Unknown` after a lost connection. `apart`
says why `prev_tg` is another one: a table of another length was offered (`prev_tg` is
resized before any check), a target was refused behind its transient, or a message that a
failed update left in the send buffer was flushed later.

### PsdWorker, PsdWorkerProps

The records take the lock of the calculation with a temporary guard and so exclude
nobody: `InputBegins` and `InputEnds`, `ReadValue` and `ReadTime` are the two parts of
`set_wf_input()` and `get_wf_output()` between which the worker may come. The worker
holds the lock in two regions, but since nobody else does, each access in them is a step:
`Load` copies the settings and the input one after the other (the calculation is one step
with the last copy), `Store` sets `valid`, the values, the scale and the time in turn, and
`Finish` announces them. A result is known by the input and the parameters it was made from; data copied while they are replaced are
`Torn`, an input array that the FFTW planner used is `Overwritten`.

### TargetListener, TargetListenerProps

Memory blocks of clients and descriptors are reused after `free()` and `close()`, and
the program goes on to use some it has given back: `conn` says which connection a
descriptor stands for now. `Accept` and `Link` are the two parts of `psc_run()`: the
thread starts before the client is in the list. `Reached` is the walk of `psc_send()`
along `next`, step by step. What `sendguard` protects is one step.
Where freed memory is used, `wild` ends the behaviour: what follows is undefined.

### XbpmServer

`connread()` turn by turn, with the read watermark, on pieces of any size of well formed
messages; `txconn()` and `txall()` with the output limit. `aborted` names the function
whose assertion failed.

### Routines, RoutinesProps

The three alarm summaries are state machines over the severities and connections of their
inputs, with pointers that skip a field for each link found (`Place`). The waveform
routines are functions from indices to indices, with the loops' breaks and cut windows,
early returns for arrays that do not match, and writes and reads behind an array.
The properties are declarative definitions of what each should deliver. The
specification is named `RoutinesSpec`, so that one module can prove about it and about
`PsdWorker`.

## 3. Runs

| Run | Question | Instance |
|---|---|---|
| `session` | With forced reconnects, exit and failing allocations at any time: do the flags agree with libevent, does no callback meet a later session, does the driver retry for ever and show a loss, and is it `ConnLifecycle`? | 2 bufferevents |
| `send` | Do the flags say what waits; is an accepted write never overtaken or lost unnoticed; are both buffers bounded; are they `SendQueue`; does it all arrive? | 2 blocks of 1 and 2 units, 2 contents, limit 2 |
| `recv` | Is the decoder in step for every cut of the stream and every end of a connection; is it `MsgStream`; does it never stall? | 2 IDs, bodies of 1 and 4 units, 7 units in transit |
| `single` | All interleavings of the two threads on `syncData`: are messages only missed for the known causes? | 2 values, 3 sizes |
| `udp` | Does a record show the bytes of the last datagram in their places; does a datagram that is too long make room for the next; do masked registers keep apart? | 12 kinds of datagram, 3 databases, memory runs out |
| `table` | Does the controller compare with what plays, do tables join, is every end reported, and shown in the end? | 3 tables of 2 and 3 points, volts -1..1, steps up to 1, bends up to 1 and 2, 2 start points |
| `psd` | Are the results those of the newest input and parameters, and the two records those of one result; does each input reach the results? | an input and an empty one, 5 settings, 4 changes |
| `device` | Does every peer get whole messages; is the count exact, and the list? | 2 clients, 2 descriptors |
| `routines` | Do the routines deliver what their definitions say? | arrays up to 12 samples, 3 pairs of alarm inputs |
| `session_exit`, `single_stuck`, `xbpm` | disagreements between code and text, section 6, one each | the smallest that show them |

**Why the bounds are enough.** *Session:* a bufferevent matters as the session or as the
one that a picked callback refers to; the proofs hold for any number. *Send:* with limit 2
and messages of 1 and 2 units a buffer is empty, below, at and above its limit, and two
blocks suffice for one to be overtaken by, or to block, another. *Recv:* the header has 2
units and the usual high watermark is 3, so a body of 4 exceeds it and one of 1 does not;
7 units hold the longest message and the beginning of the next, so headers and bodies
are cut at each place; of the two IDs one is known to no record. *Single:* sizes 4, 8, 16
are too short for a message to the record, too short for its value, and long enough.
*Udp:* a buffer of 5 with headers of 2 holds a body of 3, not one of 4; a length of 14
wraps modulo 16. *Table:* one intermediate point can join the two
ramps; the second is for bipolar supplies only, and ends with a point of which no check
sees the range when the polarity is another, because the bend before it ends the check;
the third table is shorter; start point 1 is inside, 3 is the end. *Psd:*
nothing set, half, all, another length, another window; an input and none. With
`MaxChanges` = 4, three of them make the settings complete and the fourth meets the worker
in any step of a round, or begins another; the proofs need no bound. *Device:* two clients
are the head and its successor. `CountMod` is small where a counter may wrap, and no
property depends on its value. `MaxSent` bounds what an XBPM peer sends ahead.

**Deadlock** is checked where the system goes on for ever. Not so where the process may
end or wait for itself (the runs of the session and of the table, `single`, `device`,
`xbpm`), nor in the runs of the calculation, whose changes are bounded, and of the
routines, whose waveform calls are single steps.

**Fairness.** The event loop, the scan and callback threads and the worker keep running; an
armed timer expires; an attempt to connect ends, because `PSCInactivityTime > 0` bounds
it (its default is 5). The peer has no obligations: it may never accept, send or keep a
connection. For the transmit path two assumptions are about the surroundings: the
database scans a *Send All* record again and again, and a device that stays connected
reads what is sent (otherwise the write timeout ends the connection). Memory that
runs out does not stop a flush for ever: `FlushDone` is the fair action. `recv`'s
liveness asks that sent bytes arrive on a connection that stays up, and that requested
records are scanned. In `table`
an update that was begun goes on and the alarm record is processed when it is requested; in
`psd` a record that has begun goes on and the worker is scheduled; in `device` a
thread goes on, and `recv()` on a closed descriptor returns.

## 4. Proofs

All theorems hold for every value of the constants that the named assumptions of the
modules allow (a null pointer that is no bufferevent, counters that count modulo at
least 1, tables of at least two points, and the like).

**PscSessionProofs.** The promises of the session are not inductive one by one. That the
timer flag is accurate needs that a timer is not armed while its callback is picked; that
needs that a session excludes a timer; that a callback never meets a later session needs
that the timer callback, the only way to a new session, runs in the same thread. `IInv`
puts these parts together with: live sessions (`SessionLive`), the timer queued once
(`TimerOnce`), nothing before `startAll()` (`NothingBeforeStart`) and one connected
callback per bufferevent (`ConnectedOnce`). One lemma per action shows that it is kept
(`NextIInv`), which gives `Invariance`; `TypeCorrectness`, `NeverStranded` and
`CallbacksDirected` follow. With `~Forced`, `~Exit`, `~AllocMayFail` the further part
`QuietInv` is inductive: `QuietSafety`. `QuietStep` and `StatusStep` ask only that the
step is no disturbance (`Quiet`), so the same lemmas show what the run states of a driver
that may be disturbed later: until then all is well (`QuietUntilDisturbed`). `LifeStep`
maps every step to a step of `ConnLifecycle` or to none: `LifecycleRefinement`.

**PscSendProofs.** `SendInv` is `TypeOK`, `OnePerBlock` and `QueuedAccurate` together: that
a block has one message needs that its flag is set while its message waits, and the
flag is right only while the buffer has one message. It is inductive (`NextSendInv`), and
gives `FlagsAgree`. `QueueStep` maps every step to `SendQueue`: an accepted message is
`Accept`, a flush `Commit`, a flush that fails `Discard`, a message that the device reads
`Deliver`, the two ends of a session `Open` and `Close`; `WaitingIsSendbuf` shows that what
the abstract queue calls waiting is what the send buffer holds (`QueueRefinement`).
`FlagsAgree` also says what the code makes of the documentation's several messages of
one ID: there is one. `LastWriteWins` names the newest message with `CHOOSE`; `WriteInv` says the same for every
position that is last (`LastExists`, from the well-founded order of the naturals, shows
there is one) and adds that without a connection only queued contents are owed, which
`ConnUp` needs, where the device loses what it had. One lemma for each way in which the
messages on the way change (`OwedAppend`, `OwedTail`, `OwedFront`, `OwedRest`) gives
`NextWriteInv` and `NoLostWrite`. `BoundedBuffers` needs to know what `Bytes` does, a sum
along the buffer. That it exists, is one number and grows by a message with each
append are inductions on the length, done by a least counterexample (`SumExists`,
`SumsAre`, `BytesConcat`): a property of naturals that fails somewhere fails first
somewhere.

**PscRecvProofs.** `InStep` speaks of one byte; it is inductive only with all that come
after it. `StreamInv` says that the stream is the bytes of the messages in `owed`, one
behind the other, without the part of the first that is consumed. `Laid` says so with the
place where each message starts, and lemmas follow what the steps do to it: a message is
sent (`LaidAppend`), bytes are drained (`LaidRemove`), the first message is done with
(`LaidTail`). `DecoderInv` ties `have_head`, `expect` and `header` to that first message.
The two give `StreamLayout`, and from it `DecoderInStep`, `WatermarksCorrect`,
`NewestShown` and `FramingIsFair`. `MessagesStep` maps a round of the loop to a step of
`MsgStream`: a body that is stored or drained is a delivery, a header none. A message
without a body makes the loop's assertion fail, after which nothing is promised, so
`DeliversUntilAssertion` holds for every set of lengths, and `ImplementsStream`, the full
refinement, for the sets without 0 (`OnlyEmptyBodyFails`); the run has bodies of 1 and 4
units.

**SingleSyncProofs.** `SyncInv` says who is responsible for a copy in `syncData`: a
request still to be made, one callback in the queue, or the callback that runs
(`OneResponsible`), and that a copy with nobody responsible was missed (`Responsible`);
where the newest value is (`NewestOnItsWay`); and when a foreign value can be
seen (`ForeignWhileOverlap`). `SyncInvariance` gives `ReaderHasCopy`,
`LossOnlyWithCause` and `RecordFollowsDevice`, also with overflowing callback
queues and disabled records.

**TableControlProofs.** `TableInv` adds to `PrevIsPlaying` what is still to be sent
(`ProgramInv`): the target alone, or a transient and the target; and what plays until the
first of them is out (`PlayingInv`). `CheckKeeps` and
`SendKeeps` have one step for each way an update can go on or end, and show both the
invariant and `ReportsItsEnd`, which gives `ComparesWithWhatPlays` and
`EndsAreReported`. `SentTablesJoin` rests on what `check_ramp_function()` says. `RampInv`
keeps it for later: a table that plays over and over joins its own beginning, also with
larger deltas (`PlayingJoins`), and of the tables that wait the first joins what plays and
the next the first (`ProgramJoins`). `CheckedJoins` is the lemma about the
check itself. Range, step and bend of a point are looked at in turn and the first that
fails ends the check, so what it says of range is only for the polarity it was made for:
`RampsJoin` claims range for the polarity of the update, and steps and bends only between
tables.

**CalculationProofs**, the worker. Besides types `WorkerInv` has four parts: `CalcInv`, the worker's
own scale fits its output, and plans are only missing without an input or after a change
that was just collected; `ScaleInv`, the stored scale fits unless a new one is stored with
the output; `ResultInv`, with no event to come what the worker has copied so far is
current, and so are the results while they are stored and after; `ReadInv`, the same for
the two records. There is one lemma for each step of the worker, since a record may come
between any two. `LoadKeeps` and `TimeKeeps` are the heart: a scale that is not stored
again was right before. The theorems are
`ResultsAreNewest`, `ScaleFitsSpectrum` and `RecordsEndWithResults`.

**CalculationProofs**, the subroutines. The pointers of `subAlarmCalcProc()` come to `2i + 1`
as long as the links go (`PlacesOfPairs`), so with links set from the front it sees just
the pairs (`SeesPairs`); then every summary names what two inputs have, or keeps a level
that they had (`SummariesHaveCause`). `subCalcAlarm()` shows the highest level
(`CalcHasCause`). `WaveformsAreAsDefined` has a lemma for each loop.
Where a loop may stop early, at the first sample that is wrong or far above
(`StopsOnce`, `CompareFinds`) or behind the window (`TimesRise`, `StatisticsLoop`), the proof
is by the least sample that contradicts.

**TargetListenerProofs.** `SockInv` says that a connection belongs to the one client whose
`sock` it was made for, and that a connection with a broken message has no descriptor
left; so no later message can follow (`NothingAfterABrokenMessage`), whatever the list
looks like. `EveryClientCounts` counts modulo 2^32 (`CountUp`, `CountDown`).
`ListInv` is the invariant behind `NewestFirstIsExact`: `prev` is never set, so as long as
clients leave newest first the list is a stack (`IsStack`), and it holds who is here but
the client that is just accepted. The walk from the head reaches a place of the stack
with each step (`WalkSteps`) and has enough steps to reach them all, since a stack is no
higher than there are clients (`StackIsLow`): `WalkIsStack`.

**UdpRecordsProofs.** `SettingsInvariance`: a masked write keeps the bytes of the other
masks, and a register's own value is what its record can read back. `RoomGrows`: a
datagram that is too long leaves a buffer that holds the next one, or the buffer and the
block as they were where memory runs out, as long as the size does not wrap.
`ShowsLast`: `BlockInv` says that the bytes which the last datagram carried stand in the
block at their places, and how far a string record that is being read may look; one lemma
per kind of record follows these bytes through offset, element step and the two halves of
a string.

**Only model-checked.** Every safety property and every refinement that the runs check is
also a theorem. What is left to TLC is liveness, since temporal reasoning under fairness
is out of the prover's reach: `RetriesForever`, `LossIsShown`, `AttemptsEnd`,
`QueuedBlocksFlush`, `AcceptedArrives`, `NoStall`, `CopyIsRead`, `AlarmsAreShown`,
`InputIsProcessed`, `ClosedClientsLeave`. The disagreements of section 6 are behaviours of
small instances, and `XbpmServer` has no property but the ones its run refutes.

## 5. What the checked properties do not claim

Several properties name the conditions under which they hold, since the code gives no
more.

* `QuietSafe` speaks of the time before the first forced reconnect, exit or failed
  allocation. `IInv` asks for a device that is not exiting.
* `NewestIsScanned` excepts connections that ended: a waveform record then keeps its
  value with an alarm.
* `LossHasCause`, `NewestShown` and `CopyIsRead` except messages that were missed: a short
  message or copy, an overlap of the two threads, a full callback queue, a disabled record.
* `PrevIsPlaying` excepts a lost connection and the three ways in which `prev_tg` and the
  device come apart (`apart`, section 2), until the next table is sent. `RampsJoin` needs
  in addition automatic mode, a start point inside of the table and deltas that were not
  reduced since; and a point that joins may be out of the range of a polarity that was
  changed later, since the table that plays was checked for the former one.
* `AlarmsAreShown` excepts updates that an exception ended: `NoAlarmMeansSent` says that
  the record of the update has an alarm then, and the alarm record is not scanned.
* `NewestComputed` excepts the first result after the plans were renewed: FFTW plans made
  with `FFTW_MEASURE` overwrite the input array, and `calculate()` makes them after the
  input is copied (`fftwrap.cpp:110-158`). It excepts a change of the window, which does
  not wake the worker, and the data of an empty input. `ScaleMatches` says nothing while
  one of the two records has an alarm: the scale record may keep its alarm, if its only
  scan finds `valid` false, until the scale changes again.
* `ListIsExact` holds while clients leave newest first.
* `RecordsShowLast` speaks of bytes that a datagram carried; what a short one left out is
  of an earlier one, what is read behind the block is anything. A time may be that of a
  message whose body found no memory. `LongOnesFitNextTime` allows, where memory runs out,
  the buffer and the block to stay as they were; it excepts lengths that wrap, and a buffer
  that already wrapped below a header.
* `AlarmsHaveCause` needs links set from the front, in pairs, for the summary that
  latches, and lets that one keep a level that two inputs had since all were well.
* `WaveformsAsDefined` speaks, for `subADCWfProc()`, of an even number of words that the
  input has, and of writes inside the output only where that is large enough; for the
  moving average of windows that are not cut at both ends; for `wf_stats()` of windows that
  are given, and times that do not decrease. `subSlice2()` of an empty input reads behind it.

## 6. Disagreements between code and text

Shown by runs, each with the line it quotes under "findings" in `PROJECT.json`:

1. `session_exit`: `stop()` waits under the lock for the timer callback that waits for
   the lock (`psc.cpp:223`; `pscwrap.cpp:14` describes the order that avoids it).
2. `single_stuck`: a value that comes in while the reader is between copy and clear is
   never read, nor is any later one (`devPSCSingle.cpp:63`, `devsup.rst:116-117`).
3. `xbpm`: `connread()` waits for the bytes of the wrong part of a message
   (`main.c:97`); a body that comes in two pieces makes `assert(mlen>=conn->msglen)`
   (`main.c:137`) fail.

Behaviours of the modules that a text denies, without a run of their own. The properties
except them, as section 5 says:

* A read callback that waits for `PSC::lock` while a record forces a reconnect runs with
  `session == NULL`, against `assert(connected && session)` (`psc.cpp:272`; `failed =
  "recvdata"` in `PscSession`). `QuietUntilDisturbed` proves that only forced reconnects,
  exit and failing allocation are causes.
* After a forced reconnect the connection status record is not told: `forceReConnect()`
  and `start_reconnect()` request no scan (`psc.cpp:120-127`), while `devsup.rst:31` says
  "this record will update immediately". `LossIsShown` shows that it is told with the next
  attempt.
* `processing.rst:72` says of the send buffer "This may include several messages with the
  same message ID"; the code refuses the second (`psc.cpp:60`), and `FlagsAgree` proves
  that it never holds two.
* `devPSCSingle.cpp:148` says "data too short to resync", but line 147 asks this of the
  block, whose message may be another one, and line 152 copies from `syncData`: a copy that
  is too short is read behind its end (`missed = "overread"` in `SingleSync`).
* `psctbl.cpp:602-603` sends a table without a transient "because there is no gap between
  previous target table and a new one", but line 528 has cut `prev_tg` to the length of
  the new table before the two are compared: a shorter table may be sent that does not join
  the one that plays (`apart = "resized"` in `TableControl`).
* `pscudp.cpp:179-180` says "resize the buffer to catch the next one"; the eight largest
  lengths wrap to a buffer shorter than a header, and the device hears nothing any more.
* `processing.rst:46` calls a block "a persistent buffer containing the most recently
  received message (body bytes and reception time)". A datagram that is cut short is stored
  with bytes of an earlier one (`pscudp.cpp:178`, `201-202`); without memory a block keeps
  its body with the time of the next message (`pscudp.cpp:195-201`).
* `devPSCWf.cpp:85` counts the "available # of bytes", but an element that begins in the
  block may be read behind its end (line 92; `Beyond` in `UdpRecords`).
* `processing.rst:60-61` says "it is not possible for a message to update while a single
  record is accessing"; a string record's guard is a temporary (`devPSCString.cpp:60`), so
  `RecvData` comes between `ReadStringLength` and `ReadString`.
* `asubwf.c:74` says "default to entire range"; the window of line 77 leaves out the last
  sample.

Seen while modelling, mostly where no text says otherwise:

* A message without a body fails the assertion in `psc.cpp:353` (`stuck` in `PscRecv`).
* A record that forces a reconnect after the exit handler meets `session == NULL`
  (`psc.cpp:189`): `stop()` leaves `connected` as it is.
* Messages queued on one connection are sent on the next (`psc.cpp:94`), before those
  of records that resynchronise the device (`devsup.rst:33-34`).
* The send buffer may exceed `PSCMaxSendBuffer` by one message: `BuffersBounded`.
* `rxtime` and `count` change with the header of a message, before its body is there
  (`psc.cpp:307`), against `processing.rst:46`.
* A target that is refused behind its transient leaves the device with the transient, and
  `prev_tg` with the table before it (`psctbl.cpp:655`); no scan of the alarm record is
  requested.
* A start point at the end of a table makes the matrix of the transient singular, and
  GSL's default handler ends the process; one behind the end sends the transient of an
  earlier update (`psctbl.cpp:292`).
* A full callback queue leaves a copy unread (`devPSCSingle.cpp:71`), and the growth of
  `syncData` may move it under the reader, whose assertion then fails
  (`devPSCSingle.cpp:156`).
* The records of the calculation take its lock with temporary guards: while the worker
  stores they may read values half replaced and a scale that is not yet theirs, until the
  scans that follow (`fftcalc.cpp:412`, `470`).
* `listener.c:139`: the new head of the list is not made the predecessor of the old one,
  so when a client leaves that is not the newest, those before it are forgotten.
* `subCalcAlarm.c:129`: the summary keeps its level when no rule applies, and its
  pointers move once more for each link.
* `subADCWfProc()` takes its lengths from two inputs and compares them with no array
  (`aSubOperations.cpp:55-77`). Windows of the moving average that are cut at both ends
  are not centred. A change of the window does not wake the worker of the PSD calculation.

## 7. Not modelled

* Arithmetic: the conversions of values and byte orders, the quintic fit, statistics, signal
  generators, encoder scaling, FFT, the waveform analysis record. They choose
  no order and keep no state beyond one call.
* Of the routines: the width of C types, the second output of the moving average, a
  divider of 0 in `subSampling()`. Of `devPSCSingle.cpp`: memory that runs out in
  `syncData.resize()`.
* Of `fftcalc.cpp`: the window of input samples (`set_start`, `set_width`) and the
  scalar outputs. Of `pscudp.cpp`: counters and status text; sending is empty in the code.
* What runs once, in one thread, before the others: link parsing, the registry's map,
  the creation of event loops, IOC main.
* `recrunner.cpp`: no Makefile compiles it, and its header is incomplete.
* The simulator and the dissectors are test tools; `testApp` is a unit test.
* Time: a timer may expire at any moment after it was armed.
* What libevent, EPICS base, FFTW, GSL and lwIP do inside: external definitions, from
  their use.

## 8. What could follow

A composition of `PscSession` with `PscSend` and `PscRecv` over one lock, where stale
callbacks, exit and flushes meet.
