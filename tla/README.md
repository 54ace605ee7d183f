# Verification of LambdaFlight

LambdaFlight is firmware for the Crazyflie quadcopter: C++ tasks on FreeRTOS around flight
controllers that Copilot generates from Haskell. This directory holds TLA+ models of the
firmware's own logic, the TLC configurations that check them, and TLAPS proofs.

Paths below are relative to `src/crazyflie/src/` unless they start with `src/`.

    tlc -workers 2 -config MCFlightTiming.cfg MCFlightCore.tla     # one run
    tlapm FlightCoreProofs.tla                                     # one proof module

## 1. The system

### 1.1 Parts

| Part | State | Operations | Talks to |
|---|---|---|---|
| Flight supervisor, `safety.hpp` | state, arming flag, tumble and thrust ticks, emergency stop, logged flags | `update` at 25 Hz, `requestArming`, queries | core loop, platform service, parameters, log |
| Commander, `commander.hpp`, `crtp/crtp_commander*.cpp` | newest setpoint, its priority, thrust lock | `setSetpoint`, `getDemands`, `relaxPriority`, eight decoders | CRTP-RX in, core loop out |
| Core loop, `tasks/core.hpp`, `hal/cf_motors.cpp`, `src/haskell` | loop counter, motor values, ratios, override parameters | one iteration per IMU sample | everything in flight |
| CRTP stack, `crtp/crtp.cpp` | transmit queue, port queues, callbacks, selected link | RX and TX tasks, blocking and dropping sends, `crtpReset`, `crtpSetLink` | links below, servers above |
| Radio link, `radiolink.hpp` | queues of 5 (in) and 1 (out) | dispatch of syslink packets, `sendPacket`, `receivePacket` | syslink task, CRTP |
| USB link, `tasks/usblink.hpp`, `hal/usb.cpp` | queues of 5, 1 and 16, end point armed or stopped | interrupts for in, out, start of frame, set-up and reset; USBLINK task | host, CRTP |
| Syslink, `tasks/syslink.cpp`, `hal/uart_syslink.cpp` | DMA transfer, flow control, semaphores, receive state machine | send, pause and resume, receive interrupt | nRF51 radio chip |
| Logging, `tasks/log.cpp` | 16 blocks, 128 variables, timers | create, append, delete, start, stop, reset; run a block | CRTP, timers, worker |
| Parameters, `params.cpp` | the table of variables, storage of persistent ones | read, write, by name, persistent store | CRTP, all owners of variables |
| Storage, `storage.cpp`, `dictionary.hpp` | key/value items in EEPROM, a mutex | store, fetch, remove, format, check, defragment | parameters, EEPROM |
| Memory and 1-wire, `mem.cpp`, `onewire.cpp` | a constant table of handlers; the 1-wire transfers are never started, as nothing calls `owInit` | read, write | CRTP |
| LED sequences, `ledseq.cpp` | per sequence its step, per LED the active sequence and a timer | run (queued), steps in the timer task and in the LEDSEQCMD task | timers, system task, links |
| Console, `console.cpp` | a message being filled | put a character, flush | CRTP |
| Worker, `worker.hpp` | queue of 5 | schedule, loop | timers, log, LEDs |
| Boot, `system.cpp`, `cfassert.cpp`, `hal/watchdog.cpp` | result of the tests; the watchdog's reset flag and the snapshot of an assertion, which outlive a reset | tests, start or refusal, crash | all tasks, LEDs |
| Estimator, `tasks/estimator.hpp`, `ekf.hpp` | measurement queue of 20, state, reset flag | enqueue, run, fetch | sensors, core loop |
| Sensors, power, platform service, rate supervisor | see the notes in `PROJECT.json` | | |

The tasks' priorities are: core loop 5, estimator 4, IMU, syslink and USBLINK 3, CRTP-RX,
CRTP-TX and the system task 2, PARAM, LOG, MEM and the timer task 1, platform service 0.

### 1.2 What is hard

* A core loop of 500 Hz or 1 kHz, a supervisor of 25 Hz and a client without any rate share
  variables without locks; ages are differences of a 32-bit tick counter that wraps.
* The order of a table's rows, the reading of a permission before the supervisor runs and its use
  after, and requests that the loop interrupts between their check and their write.
* Packets pass through up to five bounded queues and as many tasks and interrupts, while the host
  switches links, resets the bus, or stays away; an end point must be re-armed by a task.
* Locks held while a task waits for a queue (logging), timers whose callback runs what a client
  deletes (logging), a state read outside the mutex under which it advances (LED sequences).
* An interrupt that preempts every other and stops and starts a DMA stream, which goes on by itself
  between the interrupt's instructions (syslink).
* Marks of a crash in memory that no start clears, tested and cleared by the next one.
* Power loss between two writes of the dictionary.

`PROJECT.json` lists them under "hazards", each at its line and with the properties that cover it.

### 1.3 What makes each part correct

* Supervisor: motors start only when armed and checked; a fall is final; an arming lasts one
  flight; tumbling is timed; what is logged is what the motors obey.
* Commander and core loop: lost links, lost thrust and emergency stops end a flight within
  bounded time; a refused permission reaches the motors in the next iteration.
* Links: what a link has taken is delivered, once and in order, with two ways to lose it; no circle of
  waiting tasks; the end point never stays closed.
* Logging: no variable, block or timer leaked or shared; a run logs its own block's variables.
* Storage: a key/value store while the power stays on; power loss in a delete or in an update in
  place harms no other key.
* Syslink: packets go out whole and in order, a transfer that has been paused is silent, each send
  ends. (A send that starts while the pin asks for a pause is counted by the code, not held back.)
* LED sequences: the one with the highest priority is shown, and only a lost timer command leaves a LED lit. Boot: a crash
  keeps the next boot from starting, and the refusal is shown.

## 2. Plan

| Module | Models | Status |
|---|---|---|
| `Safety` | the supervisor alone, against arbitrary inputs | done, proved |
| `Commander` | setpoints and decoders | done |
| `FlightCore` | core loop over `Safety` and `Commander`; implements `SafetySpec` | done, safety proved |
| `CrtpLink` | CRTP tasks, both links, servers | done, safety proved |
| `KeyValueStore`, `Dictionary` | abstract store; EEPROM image with power loss, as its implementation | done, safety and the implementation proved |
| `LogSystem` | log blocks, timers, worker, `logLock` | done, safety proved |
| `SerialLine`, `Syslink` | abstract line of packets; the UART's sends with DMA, interrupts and flow control, as its implementation | done, safety proved |
| `LedSeq` | LED sequences with their two runners | done, safety proved |
| `Boot` | start-up tests, crashes and resets over `LedSeq` | done, its safety proved |

`OneWire`, `EstimatorTask` and `Console` were planned and dropped (section 6).

Each component's theorems are in the module `...Proofs` beside it, those of `LedSeq` in `BootProofs` with
those of `Boot`; `DictionaryTable` holds the lemmas about tables that `DictionaryProofs` rests on.
Every safety and action property of the passing runs has its theorem; what is left is liveness (section 5).

## 3. The models

### 3.1 `Safety`

`stateTransitions` is the table that `Safety::init` builds, row by row and in its order; sets of
conditions stand for the bit masks, `AreConditionsMet` for the four combiners, and
`FindTransition` takes the first valid row. `Update` is `update()` at a step the 25 Hz clock
executes, with its calls in the order that counts: thrust tick, conditions, transition, the
transition's effect on the arming flag, log flags. `CB_CONF_IS_TUMBLED` is empty in the code, and so
is it here. The accelerometer is one of four classes; a free fall is a tilt too.

`requestArming` is two steps, because the platform task runs at priority 0 and the core loop can
come between its check and its write. Tick 0 means "never" to the code; the model keeps that.

`update()` is atomic. It prints, and printing waits for the console's semaphore, but no variable of
the supervisor changes meanwhile except by the client's actions, which are enabled before and after.

### 3.2 `Commander`

A setpoint is its time stamp and three facts: flying mode, thrust, sticks. The decoders differ in
those. `setSetpoint` compares priorities; the open-loop decoder keeps its thrust lock, which closes
only while no source is active, that is before the first setpoint: a client that reconnects later with its stick
up gets thrust at once. Both queues
have length one and are overwritten, so they are variables. CRTP-RX is the only writer.

### 3.3 `FlightCore`

One step is one iteration of `run()`; the task has the highest priority. The IMU's semaphore is
`dataReady`, given once a tick. `Tick` waits for the loop to have taken the last sample: the loop is
assumed to keep its rate, which `RateSupervisor` watches in the code. The controllers are what their
code lets them put out: outside flying mode the collective thrust is the constant `tmin`
(`src/haskell/Crazyflie.hs`), so the motors spin; in flying mode the altitude loops may do either.
`motorRatios` tells whose ratio is on the motors: none, the mixers' or the override parameters'.
The loop counter is kept modulo the supervisor's divider, which is all that reads it.

The refinement mapping is the identity: `FlightCore` extends `Safety`, and `SupervisorImplemented`
is `SafetySpec`. What it says is that nothing in the loop, the commander or the clients' tasks moves
the supervisor's variables other than by `Safety`'s actions; hence `Safety`'s properties are the loop's.

### 3.4 `CrtpLink`

A packet in is its number, port and link; a packet out is its number. A 100 ms wait on a link is two
steps, so that the link may change within. `RxTask`, `TxTask` and `UsbLinkTask` are the tasks,
`UsbInterrupt` the USB callbacks, `Radio` the syslink task. Interrupts are atomic. CRTP-RX does with a packet
what its loop does (`RxDeliver`): it waits for room in the port's queue (`Enqueued`), calls the port's callback
(`HandedOver`), or, for a port with neither yet, forgets the packet (`Forgotten`). `StartServer` is the moment at
which a server makes its queue or registers its callback. `Publish`
is `crtpSendPacket`, which drops the newest packet when the queue is full (`crtp.h:134` says that the
oldest of the lowest priority goes). `asserted` halts everything, as the assertion does.

`accepted`, `taken` and `left` are history: what the host or the radio has been told is taken, what reached a server or
a callback, what left for the client. So are the two losses. `early` holds what CRTP-RX forgot. `refused` holds
what `usbd_cf_DataOut()` found no room for after the host had its acknowledgement, and `armedFull` says that
the OUT end point was armed while the queue was full, which `usbd_cf_Init()` does and the USBLINK
task can do, as it does not look again between taking a packet and arming. `RequestsKept` accounts for every
accepted packet and says when the losses can occur.

The start of frame does not ask whether the device is configured, nor does the model's. So after a reset of the bus a
packet may be put into a closed end point; `doingTransfer` is then set, and nothing but the next
reset clears it. Whether the host can poll such a transfer after the next configuration is up to the
hardware: the model lets it (`DataIn`) and does not count on it. `transferLost` is true meanwhile,
and `UsbDrains` is about the rest.

### 3.5 `KeyValueStore` and `Dictionary`

`mem` is the partition, a sequence of bytes, and the operators of the section "Reading the table"
are the scans of `dictionary.hpp` over it, each with its own end of memory (two or three bytes
before the last) and its own reasons to stop; what they have in common is `Scan`, which hops from
item to item. `Endless` is the result of a scan that an item of length zero holds in place.

What an operation writes depends on the memory alone. So the action that takes the mutex computes
the whole operation, a *run*: its page writes, its result and the memory it leaves. `WritePage`
then does one page at a time and `GiveMutex` ends the call. Between any two pages `PowerLoss` may
come, in `PowerLossSpec`; a page itself is atomic, as the EEPROM makes it. `FillHole` is one round of
the defragmentation; each leaves its hole further up, so that as many rounds as there are bytes are
enough. A defragmentation of a table so broken that the code computes with an invalid address counts
as endless, too.

The clients are those of the firmware. The PARAM task visits the stored parameters once
(`LoadParams`) and then serves stores, deletes and reformats; the system task checks the table and
reformats a broken one, in two critical sections. The two tasks do not wait for each other, hence
neither do their actions. `storageFetch` changes nothing and is the operator `Fetch`.

`KeyValueStore` is the promise: `contents` maps keys to values, and a call takes effect at once.
`Dictionary` implements it (`StorageIsMap`) with `contents` the items of `settled`, the memory that
the holder of the mutex will leave; nobody else sees `mem` before. A failed store may have lost the
former value, since `store()` turns an item of another length into a hole first.

### 3.6 `LogSystem`

`blocks`, `ops` and `logLock` are the code's; `task` gives the LOG task and the worker a program
counter each. A step ends where another task can come between: the LOG task has priority 1, so it
and the timer task move only while the worker (the system task, priority 2) waits, which is what
`WorkerWaits` says. For the worker that makes `RunBlock` one step, from the lock to the packet; its
reset on a lost link, which the code does without the lock, is the same sequence of steps as the
client's delete and reset (`DeleteOrReset`). An op is `used` when its variable is not NULL. Deleting
leaves `next` and the block's `ops` as they are, as the code does, and the worker's `op` is the list
that `logRunBlock()` reads before it has the lock. `fresh` and `started` are history.

A command to the timer task waits for room in its queue, or halts when the timer does not exist
(`configASSERT( xTimer )`). The commands of version 2 differ from the others in the width of ids
only. `Toc` is the access to the table of variables, which changes nothing but holds the lock.

The client need not wait: `ReceiveCommand` is always possible, and the command is looked at once the LOG task has
the lock (`TakeLock`). The timer task may therefore be behind, in two ways that the code does not survive. `late`
is the history of them.
* `"timer"`: `CreateTimer` reuses the slot's memory while the slot's old timer is still in the timer
  task's list of running timers, its commands to stop and to delete it still queued. `xTimerCreateStatic()` initialises
  the list item, which is then linked and says that it is not. What the timer task does with its list afterwards
  may be anything (`Running`): timers go on, stop, or the system crashes. It takes a reset by the
  worker while the LOG task waits for the lock with a create, or a client that deletes and creates without waiting for answers.
* `"reset"`: the LOG task takes the lock while the worker is within its reset, which is without the lock. The worker
  does not wait there, and has the higher priority, unless the timer queue is full: a reset sends three commands
  a block, the queue has 20 places, and there may be 16 blocks. Then the LOG task works with blocks half
  deleted: TLC finds variables owned by nobody and a command to a timer that does not exist.

The properties speak of the time before (`Timely`): they say that these two are the only ways in which blocks,
variables and timers get mixed up. A full timer queue alone, or a queued command to a timer that was created anew
when it was not running, does no harm. The configurations cut the states behind with `CONSTRAINT Timely`: all the properties of the two
runs have the premise `Timely`, or `[]Timely`, so nothing that they are about is cut. `log_lock`, whose
property has no premise, has no such constraint.

### 3.7 `SerialLine` and `Syslink`

`at` is the program counter of every task in `syslinkSendPacket()` and, below it,
`uartslkSendDataDmaBlocking()`: `TakeAccess` and `TakeUart` take the two semaphores, `CopyData` waits for the
stream and fills the buffer, `InitStream`, `ArmStream` and `StartStream` are the three accesses to
the stream between which an interrupt can come, `SendDone` is the end of the wait with both
semaphores given. The buffers hold the number of a packet instead of its bytes.

`stream` is what the code touches of DMA2 stream 7: enable bit, interrupt enable, completion flag,
bytes left, and the place of the next byte. It moves by itself (`DmaByte`), also within the handler of
the flow-control pin, whose steps (`FlowStep`) are those between which that matters: the reading of
the pin, the test of the enable bit, the disabling of the interrupt, the stop. The pin's
interrupt has a priority above the mask of critical sections and so preempts everything; hence
`InterruptsDone` and `TasksRun` in the guards of the rest. The hardware is external to the code, and modelled as the
reference of the processor and the code's own comments have it: disabling a stream sets its flag, the registers of
an enabled stream cannot be written.

`raced` is history: a pause was made at the moment when the stream had just put out its last byte.
Then the code clears the flag of the completion and counts zero bytes left. The stream restarts with
a count of zero, no completion ever comes, and the sender waits forever. `SendsEnd` excludes it and
holds without.

`SerialLine` is the promise: one packet at a time, each byte once and in order, a send over when the
last byte has gone. `packet` is the buffer of the task that holds `syslinkAccess`, and `line` is the
last byte that the stream has put out.

Receiving is a counter: `PacketReceived` stands for the last byte of a packet, with the overflow
assertion of the queue, `ReceivePacket` for the SYSLINK task, which may answer.

### 3.8 `LedSeq`

`runner` holds the two tasks that run steps: the timer task and LEDSEQCMD. They have the same
priority, so one may follow the other after any step. Each keeps the LED, the sequence and the step it has read:
`ReadStep` reads `ledState` without the mutex, `Advance` increments it with the mutex. `overtaken`
is history: the state was no longer what had been read. What the code does then is not defined, for it may
read behind the sequence's end; the properties exclude it. Times are left out: a timer that runs may
expire. A step whose time is zero goes on at once. The two commands that start a LED's timer are sent without
waiting, and are lost when the queue of the timer task is full, which a reset of the logging blocks may leave it
(3.6). `CommandTimer` sends or loses them at will; `lost` is true of a LED whose timer neither runs nor will run
for this reason. Such a LED stays as it is until somebody shows a sequence on it.

The code leaves the timer off when a sequence ends and another becomes active (`NextActive` goes on with
the step of the sequence that has ended), so that the next is not shown until somebody runs it. `LedsKeepOrder`
and `LedsGoDark` are about what is lit, and hold.

### 3.9 `Boot`

`phase` is the place of the system task from its start to its verdict. `iwdgFlag` and `snapshot` are
the two marks that outlive a reset; power-up clears them. `crash` and `resets` are history, and so is `shown`. An
assertion stores the snapshot and resets (`AssertFail`); a fault or a task that takes all the time
starves the idle task, and the watchdog resets, if it has been started (`WatchdogBites`). Each
reset sets the LEDs' variables to their initial values (`ResetLeds`). A boot that fails shows
`testFailed` every two seconds for good: nothing sets `selftestPassed`.

## 4. The runs

| Run | Question | Bounds | Size |
|---|---|---|---|
| `flight_timing` | ages of setpoint and thrust in flight; landing; starts and falls | tick modulo 8, limits 1, 3, 3, dividers 2 and 2 | 1.6 M, 1 min |
| `flight_arming` | cut of the motors, arming, tumbling, log, refinement | tick modulo 4, limits 0 and 1, dividers 1 and 2 | 1.6 M, 1 min |
| `flight_live` | end of flight by silence and by emergency stop | tick modulo 4, limits 0 and 1 | 58 000, 30 s |
| `crtp` | loss, duplication, order, deafness; a USB client gets everything through | all queues 1, three packets in, the first over either link, one published, any number of replies due | 743 000, 3 min |
| `dictionary` | the table is a map, is used fully, is visited completely, and is safe in place | memory of 20 bytes in pages of 4, two keys, one a prefix of the other, values of 1 and 2 bytes | 236 000, 1 min |
| `log` | ownership of variables and timers; a run logs its block's variables | two blocks, two ids, two ops, lists of two, one setting a command, worker queue 1, transmit queue 1, timer queue 1 | 2.7 M, 1 min |
| `log_live` | answers; the end of logging with the link; timers under commands to former ones | as `log`, one id, two settings a command, timer queue 2 | 68 000, 1 min |
| `syslink` | packets whole, silence of a paused transfer, what is known of the pin, end of every send | three senders, three packets of 2, 3 and 1 bytes, receive queue 1, three received, two pauses | 227 000, 1 min |
| `boot` | a crash grounds; LEDs in order, dark in the end; a refusal is shown | two LEDs, four sequences, command queue 1, one shown by a link, one reset | 118 000, 2 min |
| `level_out`, `dictionary_boot`, `log_lock` | find three disagreements of the code with its own comments | | seconds |

Why the bounds suffice. The supervisor compares ages with limits and states with a table of ten; a
wrap of 4 or 8 with limits up to 3 has every order of ages, limits, tick 0 and the wrap itself, and
the proofs remove the bound. In `flight_arming` the counter wraps every second update, which may see tick 0 or
not: a vehicle is reported as tumbled, also when its tumble began at tick 0, lands, levels out and is armed
again. Queues of one are full as soon as they hold something, so every wait
and every refusal occurs with two packets, one of which may overtake the other; with a third CRTP-RX waits for the queue of a server
that waits for a full transmit queue. (That the transmit task waits as well, the whole circle, takes two packets more
out and a hundred times the states.) The memory of
the dictionary holds two items and a little more, so that stores run out of room with and without
holes, holes stand before and behind items, and an item may end at each of the last bytes; pages
shorter than an item split every kind of write. A timer queue of one or two is shorter than a reset, which so waits
in its middle; one of two holds the stop and the deletion of a block that is created anew. Two ids over two slots meet every reuse of a slot, two ops make a
list of two, or one each, and run out; a queue of one in the worker is full with one block waiting.
Two pauses of a packet of three bytes come at any of its bytes, one within the handling of the
other, and between packets; three senders wait for each other while the SYSLINK task is one of them. Two LEDs
with two sequences each, of which one loops, have every order of priorities, and a queue of one
overflows with the next request that comes before the worker has taken it. One reset suffices for the marks of one crash to meet the next boot, and
the proof of `CrashGrounds` removes that bound.

`CHECK_DEADLOCK FALSE` stands in the configurations of `CrtpLink` and `Syslink`, where an assertion halts the
system and the bounds on packets end a behaviour, and in that of `Boot`, where the LEDs come to rest.

Every property of a passing run is also checked against a fault: an operator marked "Fault" in the
modules, which is no part of the specification, replaces the definition before which it stands,
and the property must fail.

### Fairness

`FlightCore`: the tick interrupt and the core loop, which has the highest priority. Nothing is asked
of the client, nor of the tasks below. `CrtpLink`: the tasks, the servers, and a host that polls. The
servers run at priority 1 and 0; that they run at all assumes that the tasks above leave time, which
they do since each waits for a queue, a semaphore or a sample. The host polls transfers that began on an
open end point, and the bus brings frames to a configured device (`UsbPoll`); a server need never start. The premise of
`UsbDrains` is a host that at some point stays on USB, without a transfer in a closed end point.
`LogSystem`: the worker is weakly fair, since it waits for nothing but the others. The LOG task, the timer task
and the transmission take turns with the worker and with a link that comes and goes, so their
steps are enabled on and off and are strongly fair: each gets its time in the end, as FreeRTOS shares it among equals. The
client and the link owe nothing. Both properties have the premise `[]Timely` (3.6).
`Syslink`: the interrupts, the stream, every sender and the SYSLINK task are weakly fair, and the
nRF51 lets the pin fall, as its buffer empties over the radio whether or not there is a peer. Nobody has to send.
`Boot`: the system task is weakly fair. The two runners and the timer service are strongly fair,
for their steps need the mutex, or the timer task, which the other may have whenever they ask:
FreeRTOS gives a mutex to a task that waits for it, and the timer task takes the timers in the order of expiry.

### What the violated runs show

* `level_out`: `update()` returns early on all but one of twenty controller runs, so the levelled or
  zeroed demands last one of them; the sticks of the last setpoint steer on.
* `dictionary_boot`: power is lost in a store after the header of the item and before the end tag. At the next
  start the PARAM task scans the table, which nobody has checked, into the remains of older items,
  finds a length of zero and stays there with the mutex. The start-up test, which would reformat
  the table, waits for the mutex forever.
* `log_lock`: the worker takes a block from its queue and reads the head of its list while the LOG
  task holds the lock and deletes the block. When the worker gets the lock it walks freed
  variables. A run of a block that is already deleted, or is being created again, does so too, as nothing clears the list.
  `StartedBlocksLogTheirOps` says what remains true: a block that is started, has variables, and
  survives is logged with its own.

More disagreements, which the models contain and no run is spent on:

* While USB is selected nobody empties the radio's queue of five, and a sixth radio packet fails the
  assertion of `radiolink.hpp:107` and resets the firmware; `RadioPacket` sets `asserted`.
* A radio or USB packet that the link has acknowledged is dropped by CRTP-RX before its server is up, where the comment
  at `crtp/crtp.cpp:133` has "we should never drop a packet", and by `usb.cpp` when the end point was armed with a full queue (3.4).
* A transfer that begins between a reset of the bus and the next configuration may block the USB link (3.4).
* With more than six blocks a reset by the worker may let the LOG task in, and a block may be created over a timer
  that still runs (3.6).
* A LED's timer command is lost in a full queue, and the LED stays lit (3.8).
* A pause that meets the end of a transfer leaves its sender, and every later one, waiting (3.7): without
  `raced` in it, `SendsEnd` fails. A packet that comes in while the SYSLINK task waits so fills the queue in the end
  and fails the assertion of `uart_syslink.cpp`.
* Two runners of one LED overtake each other's reading of a step (3.8): without `overtaken` the
  properties of the LEDs fail.
* A sequence that ends does not start the next one, though `ledseq.h:10-11` has it that the runnable
  sequence of the highest priority runs (3.8).
* A stop setpoint, which "stops the motors" (`crtp/crtp_commander_generic.cpp:79`), leaves the mixers'
  idle thrust (`src/haskell/Crazyflie.hs`).
* `crtpReset()`, which flushes "all the queues" (`crtp/crtp.h:206`), leaves the links' queues and the
  packets that the tasks hold.

`LostLinkEndsLogging` has the premise that the LOG task comes to rest. Without it the property
fails: the LOG task waits with the lock for room for an answer, the link is lost, nobody makes room, and the
worker, which would notice the loss and flush the queue, waits for the lock.

## 5. The proofs

`SafetyProofs` proves type correctness and the five other properties of `Safety`; most are action
properties that follow from the table row by row, under the type invariant. `LogMatchesState` is
inductive with it.

`FlightCoreProofs` extends it. `TypeCorrect` is the type invariant. `RefinesSafety` maps each action:
an iteration is an `Update` or leaves the supervisor alone, the others are its actions or stutter.
`MotorsCut` is inductive with the type invariant.

`LinkLoss` and `ThrustSeen` bound ages and are not inductive: between two updates ages grow, and the
loop counter bounds how far. `AgesWithTicks` says so: an age is at most its limit plus `SinceUpdate`,
the ticks since the last update as the loop counter and `dataReady` give them. A tick adds one to
both sides (`TickAges`), an iteration of no update leaves both, an update that keeps the vehicle
flying has just compared the age with its limit (`FlyingOn`, `LevellingOut`). `AgesBounded` proves
it, the two bounds follow from `SinceUpdate <= SafetyDivider`.

`LandingIdle` needs no strengthening: the table has one row into `Landed` from flight, its condition is
the age of the last thrust, and an update with a turning motor has just made that age zero. Hence its premise
that the hysteresis is longer than zero ticks, as the code's constant is.

`CrtpLinkProofs` treats the stack's queues and tasks as six places through which a request passes: handed over,
the servers' queues, the hands of CRTP-RX, the queues of the two links, the hands of USBLINK, the
queue that the USB interrupt fills. Its invariant `RequestsInv` says
that of two packets of one link and port the one nearer to its server was accepted first (`PlacesInOrder`), that each queue is in
order (`QueuesInOrder`) and holds only packets of its own link and port (`Sorted`), that no accepted packet is outside the
places unless it was refused (`Kept`), and that a server is handed nothing before it is up, so that what CRTP-RX forgot came first (`EarlyFirst`). Every action is an arrival at a place, a move to a place further on, or neither
(`Arrives`, `Moves`), and what these preserve is proved once. `RepliesInv` is the same for the
way out: what has left, what the links hold, what CRTP-TX holds and what is queued ascend. `RequestsAreKept`,
`RequestsAreOrdered` and `RepliesAreOrdered` follow; `EndPointRecovers` is inductive alone. `RefusalsInv`, for the
last part of `RequestsKept`, says that an end point is armed in front of a full queue only after the code armed it so. They hold for queues of any size.

`SyslinkProofs` proves `SyslinkInv`. `Exclusion` is about `syslinkAccess`, which alone keeps the senders
apart; the second semaphore, in the UART, is never contended. `Ordered` ties the stream's registers, the flags of its end and
a pause to the packet on the line: between two sends nothing of an older transfer is left that could complete the
next one. `Stopping` is what the handler of the pin knows of the stream between its steps. The refinement of
`SerialLine` (`LineImplemented`), `PausedIsQuiet` and `FlowKnown` follow, for any senders, packets and pauses.

`BootProofs`: `MarksLast` says that the mark of a crash lasts until its test, and its test's result until
the verdict; it yields `CrashesGround` for any number of crashes. It also proves the invariant of the LEDs, `LedInv`:
who holds the mutex is at which steps; a state behind its sequence's end belongs to the runner that is about to
put it right (`StatesInRange`); an LED's active sequence is the highest that runs, except while somebody
is choosing it (`OrderKept`); a lit LED has a timer or a runner, or has lost its timer command (`LitAnswered`). Without the last three, which hold only
as long as nothing is overtaken, the property is not inductive. The highest sequence exists because numbers
are well-founded (`Least`). `LedsOrdered` puts it together with the boots and crashes.

`DictionaryTable` and `DictionaryProofs` prove that the storage is a map, for any size of memory and pages and any
keys and values. `Table(m, A, e)` says that the memory `m` holds a well-formed table: from the first item on
each item of the addresses `A` ends where the next begins, the last at the end tag `e`; an item has room for its key
and a value, or is a hole; no key occurs twice. An erased memory is a table without items.
* Reading. In a table each scan is characterised by what it finds (`FindEndOf`, `FindItemByKeyOf` and their like):
  the first item of its kind at or behind the address where it starts, or none, and never endless. Hence `Fetch` is the
  value of the one item with the key (`Holds`), and `Foreach` visits each item with a key once (`ForeachOf`).
* Writing. A run `GoesOn` from another when its new page writes lead from the memory before to the memory after, so what
  `WritePage` does step by step ends in what the operation computed. Cutting a write into pages loses no byte.
* Defragmentation. A round moves the items between two holes, a buffer at a time, over the first hole (`Gap`,
  `Filled`): what is left is a table with the same items and one hole further up. Before round `n` no hole is below the one it
  fills, which is further up than `n` (`Packing`), so after the last round there is none, and nothing is lost
  (`SameHolds`). The room behind the end tag is then all the room there is, which is `OnlyFullFails`: the items, each once, fill
  the table from the first address to the end (`LiveOf`).
* The invariant. `DictInv`: `settled` is a table, and the page writes still to do lead from `mem` to it; nothing is
  hung. Each call turns a table into one that holds the new value (`Stored`) or no longer the key (`Dropped`), so
  `settled` moves as `KeyValueStore` says: `StorageImplementsMap`. `ScansEnd` says that `dictionary_boot` needs the power loss.
* `CallInv`, for `InPlaceStaysSafe`. `InPlace` looks at the writes still to do only, so the invariant tells the two
  kinds of store apart. One that appends writes its end tag behind the item of its key to the last (`LastBehind`). For a delete and a
  store in place the memory is `Halfway`: outside one item it is the old one, in the item each byte is the old or the new one, and
  both have the same length and key. Each such memory is a table that holds the other keys as before (`Between`).

The scans, moves, rounds and visits are recursive functions. That their values are what their definitions say is shown for each by
a set of naturals that contains every number (`Counting`), as for `Walk` below; from there on the steps
reason about tables, without recursion.

`LogSystemProofs` proves `LogInv`, the invariant of the logging server. None of the properties of the
run is inductive: they speak of rest, and every step from a create to a reset leaves something half done. `LogInv`
says who may have left what.
* `Turns`: one task at a time works on the blocks. The LOG task does so with the lock, the worker resets them
  without it. Until the LOG task takes the lock within such a reset, which is what `late` records, it is at
  most waiting for it.
* `OpsKept`: the lists of the blocks end, are short enough and disjoint, and together with the op that is being
  linked they are exactly the ops in use. The block that the one task is creating or deleting is the exception (`Off`).
* `TimersKept`: each block has its timer but for the two moments of its creation and its deletion, and a timer that
  runs, or will when the queue has been worked off (`Bound`), is a started block's. That
  the history is only about blocks that are there makes it inductive.
* `UniqueIds`: the reset looks for the block by its id again and finds the same.
* `FreshRun`: what the worker read before it had the lock is still the block's list, or the block is being deleted.

`LogInvariant` is that `LogInv` holds as long as `Timely` does, which once lost never comes back (`LateStays`).
`LogOpsOwned`, `LogTimersOfStartedBlocks`, `LogStartedBlocks` and `LogTimersExist` follow, for any number of slots, ids,
ops, settings and runs that wait, and any timer queue: the code's 20 places and 16 blocks are among them. They assume nothing of the
length of the queue; what a reset that overfills it can do is in `Timely`.
`Walk` is a recursive function over the list, so each fact about it takes an induction. As no induction theorem
can be used here, it is by least elements: that the function exists is shown for every length
(`WalkExists`), and that a list which ends is what `Walk` returns (`WalkChain`) by a set of naturals that would
have a least element outside (`Counting`). From there on the steps reason about `Chain`, without recursion.

Assumptions: those named `...Assumption` in the modules, all evaluated by TLC in the runs.
`SafetyAssumption`, `CoreAssumption` and `CommanderAssumption`
ask that the counter has a positive wrap, that limits are naturals, and that the supervisor's
divider is a multiple of the controllers'. The proofs hold for every wrap, 2^32 among them. `CrtpLinkAssumption`
asks for queues that hold something and for ports that have either a server or a callback.
`SizeAssumption` asks for a memory that holds an end tag and that the two bytes of a length can address (the partition
has 7 kB), `StringsAssumption` for keys that begin with the prefix, as `params.cpp` makes them, of a length
that fits into one byte, and for values that are not empty. `SyslinkAssumption` asks for packets
that are not empty and finitely many senders, `LedSeqAssumption` for sequences that end in a loop or a stop, as all of `ledseq.cpp` do, `BootAssumption` for the sequences that the
boot shows, `LogAssumption` for blocks that cannot be longer than there are ops, 26 and 128 in the code.

Only model-checked: liveness (`SilenceEndsFlight`, `EmergencyStopStopsMotors`, `UsbDrains`, `SendsEnd`,
`RefusalIsShown`, `LedsGoDark`, `CommandsAnswered`, `LostLinkEndsLogging`), which needs fairness
and is beyond this prover, and the three violations. What happens to a table when the power is lost
in a store that appends or defragments is not promised by the code; `dictionary_boot` shows what can.

## 6. Not modelled

Numerics (Kalman filter, control laws, filters), register-level drivers, the simulator, vendored
code and scripts: nothing there that a state-space search can say. Of the repository's lines most are of this
kind: the register definitions of the processor, the Kconfig tools, the drivers of sensors.

* Estimator: floating-point numerics. Its queues drop measurements when they are full, which no other
  part notices; its reset flag is cleared after the reset, so that a request in between is lost.
* 1-wire: nothing calls `owInit`, so no transfer and no time-out ever runs. The memory server answers reads
  of a constant table.
* Sensors: `FlightCore` takes a sample per tick. Power: its states follow from voltages
  and times that nothing bounds, and nothing modelled reads them. Rate supervisor: it only warns, and
  nothing depends on its verdict.
* Console: its packets are `CrtpLink`'s published ones, the buffer in which a line is put together is left out.
* LED sequences: the commands that stop one, and the sequences of charge and battery, which nothing runs.
* The statistics of the CRTP stack, peer-to-peer packets, the CDC class and the boot-loader request
  change nothing that the modelled properties read.
* Bus errors of the EEPROM, though the dictionary ignores them: it would report a store that did not
  happen. The configuration block, the storage statistics and the values' limit of eight bytes in
  `foreach()`.
