----------------------------- MODULE LogSystem ------------------------------
(***************************************************************************)
(* The logging server, tasks/log.cpp: the LOG task that serves the         *)
(* client's commands, the timers of the blocks, and the worker             *)
(* (worker.hpp, in the system task) that runs a block and, when the link   *)
(* is lost, resets them all.                                               *)
(*                                                                         *)
(* A step ends where another task can come between.  The worker has a      *)
(* higher priority than the LOG task and the timer task, so these take a   *)
(* step only while it waits.  An op is one unit long.                      *)
(***************************************************************************)
EXTENDS Integers, Sequences, SequencesExt, FiniteSetsExt

CONSTANTS
  LOG_MAX_BLOCKS, LOG_MAX_OPS,
  LOG_MAX_LEN,            \* of a block
  Ids,                    \* of the client's blocks
  MaxSettings,            \* bound on the variables that a command names
  TimerQueueLength,       \* configTIMER_QUEUE_LENGTH
  WorkQueueLength,        \* QUEUE_LENGTH of the worker
  TxQueueSize             \* CRTP_TX_QUEUE_SIZE

ASSUME LogAssumption ==
  /\ {LOG_MAX_BLOCKS, LOG_MAX_OPS, LOG_MAX_LEN,
      TimerQueueLength, WorkQueueLength, TxQueueSize} \subseteq Nat \ {0}
  /\ LOG_MAX_LEN <= LOG_MAX_OPS
  /\ Ids \subseteq Nat /\ MaxSettings \in Nat

Slots == 1 .. LOG_MAX_BLOCKS
Free == -1                \* BLOCK_ID_FREE
Null == 0                 \* no op, or no block found

Commands ==
  [op : {"create", "append"}, id : Ids,
   settings : BoundedSeq({"known", "unknown"}, MaxSettings)]
  \union [op : {"delete", "start", "runOnce", "stop"}, id : Ids]
  \union [op : {"reset", "toc"}]

VARIABLES
  blocks,       \* slot -> its id, whether it has a timer, its first op
  ops,          \* op -> whether it is in use, the next one
  logLock,      \* held by the LOG task; the worker holds it within one step only
  task,         \* the LOG task and the worker: what each is doing
  workQueue,    \* the slots that the worker has still to run
  timerQueue, active,     \* the timer task's commands, and its running timers
  connected, txQueued,    \* the link, and the packets that wait for it
  asserted,     \* a configASSERT has failed, or the timer task crashed: all is halted
  started,      \* history: the slots started since their block was created
  late          \* history: in which ways the timer task has been overtaken: "timer",
                \* a timer was created anew while it was still among the running ones,
                \* or "reset", the LOG task took the lock within the worker's reset

timers == <<timerQueue, active>>
link == <<connected, txQueued>>
vars == <<blocks, ops, logLock, task, workQueue, timers, link, asserted, started, late>>

\* A task: its program counter, its command, the slot and the op that it works
\* on, the slot that a reset has come to (0 without one), and for the worker
\* whether its slot held a started block with ops when it took it
Idle == [pc |-> "idle", command |-> [op |-> "none"], slot |-> 0, op |-> 0, at |-> 0,
         fresh |-> FALSE]
Goto(t, next) == task' = [task EXCEPT ![t] = next]

-----------------------------------------------------------------------------
(* Blocks and ops *)

IndexOf(id) ==
  LET found == {s \in Slots : blocks[s].id = id}
  IN  IF found = {} THEN Null ELSE Min(found)

\* The ops of a list from one on; a cycle is cut
Walk(list, first) ==
  LET walk[n \in 0 .. LOG_MAX_OPS] ==
        [o \in 0 .. LOG_MAX_OPS |->
           IF n = 0 \/ o = Null THEN <<>> ELSE <<o>> \o walk[n - 1][list[o].next]]
  IN  walk[LOG_MAX_OPS][first]

OpsOf(slot) == ToSet(Walk(ops, blocks[slot].ops))
BlockCalcLength(slot) == Len(Walk(ops, blocks[slot].ops))

FreeOps == {o \in 1 .. LOG_MAX_OPS : ~ops[o].used}

\* Fault: the next op of the new one is what it was in its former block
LinkStale(slot, op) ==
  IF blocks[slot].ops = Null
  THEN blocks' = [blocks EXCEPT ![slot].ops = op] /\ UNCHANGED ops
  ELSE ops' = [ops EXCEPT ![Last(Walk(ops, blocks[slot].ops))].next = op] /\ UNCHANGED blocks

BlockAppendOps(slot, op) ==
  IF blocks[slot].ops = Null
  THEN /\ blocks' = [blocks EXCEPT ![slot].ops = op]
       /\ ops' = [ops EXCEPT ![op].next = Null]
  ELSE /\ ops' = [ops EXCEPT ![op].next = Null, ![Last(Walk(ops, blocks[slot].ops))].next = op]
       /\ UNCHANGED blocks

\* A command to the timer task, for which the sender waits: configASSERT( xTimer )
SendTimer(command, slot) ==
  IF blocks[slot].timer
  THEN /\ Len(timerQueue) < TimerQueueLength
       /\ timerQueue' = Append(timerQueue, [command |-> command, slot |-> slot])
       /\ UNCHANGED asserted
  ELSE asserted' = TRUE /\ UNCHANGED timerQueue

\* ... or gives up after 100 ticks
TrySendTimer(command, slot) ==
  \/ SendTimer(command, slot)
  \/ Len(timerQueue) = TimerQueueLength /\ UNCHANGED <<timerQueue, asserted>>

\* Worker::schedule()
Schedule(slot) ==
  workQueue' = IF Len(workQueue) < WorkQueueLength THEN Append(workQueue, slot) ELSE workQueue

-----------------------------------------------------------------------------
(* Deleting and resetting, which the LOG task and the worker do *)

Release(t, freed, next) ==
  /\ task[t].pc = "free"
  /\ ops' = [o \in DOMAIN ops |-> [ops[o] EXCEPT !.used = @ /\ o \notin freed]]
  /\ Goto(t, [task[t] EXCEPT !.pc = next])
  /\ UNCHANGED <<blocks, logLock, workQueue, timers, link, asserted, started, late>>

TimerNext(t) == IF blocks[task[t].slot].timer THEN "stop" ELSE "remove"

\* Fault: only the first op is freed
FreeFirstOp(t) == Release(t, {blocks[task[t].slot].ops}, TimerNext(t))

\* Fault: the timer goes on
FreeKeepsTimer(t) == Release(t, OpsOf(task[t].slot), "remove")

FreeBlockOps(t) == Release(t, OpsOf(task[t].slot), TimerNext(t))

StopTimer(t) ==
  /\ task[t].pc = "stop"
  /\ SendTimer("stop", task[t].slot)
  /\ Goto(t, [task[t] EXCEPT !.pc = "delete"])
  /\ UNCHANGED <<blocks, ops, logLock, workQueue, active, link, started, late>>

DeleteTimer(t) ==
  /\ task[t].pc = "delete"
  /\ SendTimer("delete", task[t].slot)
  /\ blocks' = [blocks EXCEPT ![task[t].slot].timer = FALSE]
  /\ Goto(t, [task[t] EXCEPT !.pc = "remove"])
  /\ UNCHANGED <<ops, logLock, workQueue, active, link, started, late>>

NextSlot(t) == [task[t] EXCEPT !.pc = "reset", !.at = @ + 1]

\* Fault: the slot keeps its id
RemoveNothing(t) ==
  /\ task[t].pc = "remove"
  /\ Goto(t, IF task[t].at = 0 THEN [task[t] EXCEPT !.pc = "reply"] ELSE NextSlot(t))
  /\ UNCHANGED <<blocks, ops, logLock, workQueue, timers, link, asserted, started, late>>

RemoveBlock(t) ==
  /\ task[t].pc = "remove"
  /\ blocks' = [blocks EXCEPT ![task[t].slot].id = Free]
  /\ Goto(t, IF task[t].at = 0 THEN [task[t] EXCEPT !.pc = "reply"] ELSE NextSlot(t))
  /\ UNCHANGED <<ops, logLock, workQueue, timers, link, asserted, started, late>>

\* Fault: the first slot is passed over
ResetButFirst(t) ==
  /\ task[t].pc = "reset"
  /\ LET at == task[t].at
     IN  Goto(t, IF at > LOG_MAX_BLOCKS THEN [task[t] EXCEPT !.pc = "forget"]
                 ELSE IF at = 1 \/ blocks[at].id = Free THEN NextSlot(t)
                 ELSE [task[t] EXCEPT !.pc = "halt", !.slot = at])
  /\ UNCHANGED <<blocks, ops, logLock, workQueue, timers, link, asserted, started, late>>

ResetNext(t) ==
  /\ task[t].pc = "reset"
  /\ LET at == task[t].at
     IN  Goto(t, IF at > LOG_MAX_BLOCKS THEN [task[t] EXCEPT !.pc = "forget"]
                 ELSE IF blocks[at].id = Free THEN NextSlot(t)
                 ELSE [task[t] EXCEPT !.pc = "halt", !.slot = at])
  /\ UNCHANGED <<blocks, ops, logLock, workQueue, timers, link, asserted, started, late>>

\* logStopBlock(), the client's or within a reset, which then looks for the block
\* by its id again
HaltBlock(t) ==
  /\ task[t].pc = "halt"
  /\ SendTimer("stop", task[t].slot)
  /\ Goto(t, IF task[t].at = 0 THEN [task[t] EXCEPT !.pc = "reply"]
             ELSE [task[t] EXCEPT !.pc = "again"])
  /\ UNCHANGED <<blocks, ops, logLock, workQueue, active, link, started, late>>

ResetDelete(t) ==
  /\ task[t].pc = "again"
  /\ Goto(t, [task[t] EXCEPT !.pc = "free", !.slot = IndexOf(blocks[task[t].at].id)])
  /\ UNCHANGED <<blocks, ops, logLock, workQueue, timers, link, asserted, started, late>>

\* The end of logReset(), and of the worker's crtpReset() after it
ForgetAll(t) ==
  /\ task[t].pc = "forget"
  /\ blocks' = [s \in Slots |-> [blocks[s] EXCEPT !.id = Free]]
  /\ ops' = [o \in DOMAIN ops |-> [ops[o] EXCEPT !.used = FALSE]]
  /\ IF t = "log" THEN Goto(t, [task[t] EXCEPT !.pc = "reply", !.at = 0]) /\ UNCHANGED txQueued
                  ELSE Goto(t, Idle) /\ txQueued' = 0
  /\ UNCHANGED <<logLock, workQueue, timers, connected, asserted, started, late>>

-----------------------------------------------------------------------------
(* The LOG task *)

log == task["log"]
At(pc) == log.pc = pc
Log(pc) == Goto("log", [log EXCEPT !.pc = pc])
BeginsWith(op) == At("begin") /\ log.command.op = op

ReceiveCommand ==
  /\ At("idle")
  /\ Log("take")
  /\ UNCHANGED <<blocks, ops, logLock, workQueue, timers, link, asserted, started, late>>

\* The packet is not looked at before the lock is taken
TakeLock ==
  /\ At("take") /\ logLock = "free"
  /\ logLock' = "log"
  /\ \E command \in Commands : Goto("log", [log EXCEPT !.pc = "begin", !.command = command])
  /\ late' = IF task["worker"].pc \in {"idle", "run"} THEN late ELSE late \union {"reset"}
  /\ UNCHANGED <<blocks, ops, workQueue, timers, link, asserted, started>>

\* The TOC, whose answers depend on nothing that changes
Toc ==
  /\ BeginsWith("toc")
  /\ Log("reply")
  /\ UNCHANGED <<blocks, ops, logLock, workQueue, timers, link, asserted, started, late>>

CreateBlock ==
  /\ BeginsWith("create")
  /\ LET slot == IndexOf(Free)
     IN  IF IndexOf(log.command.id) # Null \/ slot = Null
         THEN Log("reply") /\ UNCHANGED <<blocks, started, late>>
         ELSE /\ blocks' = [blocks EXCEPT ![slot].id = log.command.id]
              /\ Goto("log", [log EXCEPT !.pc = "create", !.slot = slot])
              /\ started' = started \ {slot}
  /\ UNCHANGED <<ops, logLock, workQueue, timers, link, asserted, late>>

\* A timer that is created anew leaves the list of running timers as it is, but is
\* no longer known to be in it
CreateTimer ==
  /\ At("create")
  /\ blocks' = [blocks EXCEPT ![log.slot].timer = TRUE]
  /\ late' = IF log.slot \in active THEN late \union {"timer"} ELSE late
  /\ Log("clear")
  /\ UNCHANGED <<ops, logLock, workQueue, timers, link, asserted, started>>

ClearOps ==
  /\ At("clear")
  /\ blocks' = [blocks EXCEPT ![log.slot].ops = Null]
  /\ Log("append")
  /\ UNCHANGED <<ops, logLock, workQueue, timers, link, asserted, started, late>>

\* The commands that begin with the search for their block
FindBlock ==
  /\ At("begin") /\ log.command.op \in {"append", "delete", "start", "runOnce", "stop"}
  /\ LET slot == IndexOf(log.command.id)
         next == CASE log.command.op = "append" -> "append"
                   [] log.command.op = "delete" -> "free"
                   [] log.command.op = "start" -> "period"
                   [] log.command.op = "runOnce" -> "schedule"
                   [] log.command.op = "stop" -> "halt"
     IN  IF slot = Null THEN Log("reply") /\ UNCHANGED started
         ELSE /\ Goto("log", [log EXCEPT !.pc = next, !.slot = slot])
              /\ started' = IF next \in {"period", "schedule"} THEN started \union {slot}
                            ELSE started
  /\ UNCHANGED <<blocks, ops, logLock, workQueue, timers, link, asserted, late>>

\* One setting of a create or an append: too long, out of ops, or unknown, it ends
\* the command, and what was appended stays
AppendNext ==
  /\ At("append")
  /\ LET settings == log.command.settings
     IN  IF \/ settings = <<>>
            \/ BlockCalcLength(log.slot) + 1 > LOG_MAX_LEN
            \/ FreeOps = {}
            \/ Head(settings) = "unknown"
         THEN Log("reply")
         ELSE Goto("log", [log EXCEPT !.pc = "fill", !.op = Min(FreeOps)])
  /\ UNCHANGED <<blocks, ops, logLock, workQueue, timers, link, asserted, started, late>>

FillOps ==
  /\ At("fill")
  /\ ops' = [ops EXCEPT ![log.op].used = TRUE]
  /\ Log("link")
  /\ UNCHANGED <<blocks, logLock, workQueue, timers, link, asserted, started, late>>

LinkOps ==
  /\ At("link")
  /\ BlockAppendOps(log.slot, log.op)
  /\ Goto("log", [log EXCEPT !.pc = "append", !.command.settings = Tail(@), !.op = Null])
  /\ UNCHANGED <<logLock, workQueue, timers, link, asserted, started, late>>

ChangePeriod ==
  /\ At("period")
  /\ TrySendTimer("start", log.slot)
  /\ Log("start")
  /\ UNCHANGED <<blocks, ops, logLock, workQueue, active, link, started, late>>

StartTimer ==
  /\ At("start")
  /\ TrySendTimer("start", log.slot)
  /\ Log("reply")
  /\ UNCHANGED <<blocks, ops, logLock, workQueue, active, link, started, late>>

ScheduleRun ==
  /\ At("schedule")
  /\ Schedule(log.slot)
  /\ Log("reply")
  /\ UNCHANGED <<blocks, ops, logLock, timers, link, asserted, started, late>>

BeginReset ==
  /\ BeginsWith("reset")
  /\ Goto("log", [log EXCEPT !.pc = "reset", !.at = 1])
  /\ UNCHANGED <<blocks, ops, logLock, workQueue, timers, link, asserted, started, late>>

\* Fault: a TOC command keeps the lock
ReplyKeepsLock ==
  /\ At("reply") /\ txQueued < TxQueueSize
  /\ txQueued' = txQueued + 1
  /\ logLock' = IF log.command.op = "toc" THEN logLock ELSE "free"
  /\ Goto("log", Idle)
  /\ UNCHANGED <<blocks, ops, workQueue, timers, connected, asserted, started, late>>

Reply ==
  /\ At("reply") /\ txQueued < TxQueueSize
  /\ txQueued' = txQueued + 1
  /\ logLock' = "free"
  /\ Goto("log", Idle)
  /\ UNCHANGED <<blocks, ops, workQueue, timers, connected, asserted, started, late>>

LogTask ==
  \/ ReceiveCommand \/ TakeLock \/ Toc \/ FindBlock
  \/ CreateBlock \/ CreateTimer \/ ClearOps \/ AppendNext \/ FillOps \/ LinkOps
  \/ ChangePeriod \/ StartTimer \/ ScheduleRun \/ BeginReset
  \/ Reply

-----------------------------------------------------------------------------
(* The worker *)

\* logRunBlock() begins: the list of ops is read before the lock is taken
TakeWork ==
  /\ task["worker"].pc = "idle" /\ workQueue # <<>>
  /\ workQueue' = Tail(workQueue)
  /\ LET slot == Head(workQueue)
     IN  Goto("worker",
              [Idle EXCEPT !.pc = "run", !.slot = slot, !.op = blocks[slot].ops,
                           !.fresh = /\ blocks[slot].id # Free /\ slot \in started
                                     /\ blocks[slot].ops # Null])
  /\ UNCHANGED <<blocks, ops, logLock, timers, link, asserted, started, late>>

\* The packet is built and sent, or dropped when the queue is full.  Once it has
\* the lock the worker does not wait, so nothing comes between.
RunBlock ==
  /\ task["worker"].pc = "run" /\ logLock = "free"
  /\ IF connected
     THEN /\ Goto("worker", Idle)
          /\ txQueued' = IF txQueued < TxQueueSize THEN txQueued + 1 ELSE txQueued
     ELSE /\ Goto("worker", [Idle EXCEPT !.pc = "reset", !.at = 1])
          /\ UNCHANGED txQueued
  /\ UNCHANGED <<blocks, ops, logLock, workQueue, timers, connected, asserted, started, late>>

\* Either task's deletion or reset
DeleteOrReset(t) ==
  \/ FreeBlockOps(t) \/ StopTimer(t) \/ DeleteTimer(t) \/ RemoveBlock(t)
  \/ ResetNext(t) \/ HaltBlock(t) \/ ResetDelete(t) \/ ForgetAll(t)

Worker == TakeWork \/ RunBlock \/ DeleteOrReset("worker")

WorkerWaits ==
  LET w == task["worker"]
  IN  \/ w.pc = "idle" /\ workQueue = <<>>
      \/ w.pc = "run" /\ logLock = "log"
      \/ /\ w.pc \in {"halt", "stop", "delete"} /\ blocks[w.slot].timer
         /\ Len(timerQueue) = TimerQueueLength

-----------------------------------------------------------------------------
(* The timer task, and the link *)

\* The timer task works on its list; on one with a timer that was created anew
\* within it, it may do anything to the list or crash
Running(timersThen) ==
  IF "timer" \in late THEN active' \in SUBSET Slots /\ asserted' \in BOOLEAN
                      ELSE active' = timersThen /\ UNCHANGED asserted

TimerCommand ==
  /\ timerQueue # <<>>
  /\ LET c == Head(timerQueue)
     IN  Running(IF c.command = "start" THEN active \union {c.slot} ELSE active \ {c.slot})
  /\ timerQueue' = Tail(timerQueue)
  /\ UNCHANGED <<blocks, ops, logLock, task, workQueue, link, started, late>>

\* logBlockTimed()
TimerExpires(slot) ==
  /\ slot \in active
  /\ Running(active)
  /\ Schedule(slot)
  /\ UNCHANGED <<blocks, ops, logLock, task, timerQueue, link, started, late>>

LinkChanges ==
  /\ connected' = ~connected
  /\ UNCHANGED <<blocks, ops, logLock, task, workQueue, timers, txQueued, asserted, started, late>>

Transmit ==
  /\ connected /\ txQueued > 0
  /\ txQueued' = txQueued - 1
  /\ UNCHANGED <<blocks, ops, logLock, task, workQueue, timers, connected, asserted, started, late>>

-----------------------------------------------------------------------------
(* The specification *)

Init ==
  /\ blocks = [s \in Slots |-> [id |-> Free, timer |-> FALSE, ops |-> Null]]
  /\ ops = [o \in 1 .. LOG_MAX_OPS |-> [used |-> FALSE, next |-> Null]]
  /\ logLock = "free"
  /\ task = [t \in {"log", "worker"} |-> Idle]
  /\ workQueue = <<>> /\ timerQueue = <<>> /\ active = {}
  /\ connected = TRUE /\ txQueued = 0
  /\ asserted = FALSE /\ started = {} /\ late = {}

LogSteps == ~asserted /\ WorkerWaits /\ (LogTask \/ DeleteOrReset("log"))
WorkerSteps == ~asserted /\ Worker
TimerSteps == ~asserted /\ WorkerWaits /\ (TimerCommand \/ \E s \in Slots : TimerExpires(s))

Next == LogSteps \/ WorkerSteps \/ TimerSteps \/ LinkChanges \/ Transmit

Spec == Init /\ [][Next]_vars

\* The worker waits for nothing but the others; these take turns, in whatever
\* time the worker leaves them.  The client owes nothing.
FairSpec ==
  /\ Spec
  /\ WF_vars(WorkerSteps) /\ SF_vars(Transmit)
  /\ SF_vars(LogSteps /\ ~At("idle"))
  /\ SF_vars(~asserted /\ WorkerWaits /\ TimerCommand)
  /\ \A s \in Slots : SF_vars(~asserted /\ WorkerWaits /\ TimerExpires(s))

-----------------------------------------------------------------------------
(* Properties *)

Live == {s \in Slots : blocks[s].id # Free}
AtRest == task["log"].pc \in {"idle", "take"} /\ task["worker"].pc \in {"idle", "run"}
Timely == late = {}

\* Between commands and resets each op that is in use is on the list of exactly
\* one block, no list is too long, and no client's id names two blocks: no
\* sequence of commands, of failed ones and of lost links leaks or shares an op,
\* until the LOG task gets in between the steps of the worker's reset.
OpsOwned ==
  Timely /\ AtRest =>
    /\ \A o \in 1 .. LOG_MAX_OPS : ops[o].used <=> \E s \in Live : o \in OpsOf(s)
    /\ \A s \in Live : \A r \in Live \ {s} :
         OpsOf(s) \cap OpsOf(r) = {} /\ blocks[s].id # blocks[r].id
    /\ \A s \in Live : BlockCalcLength(s) <= LOG_MAX_LEN

\* A timer runs only for a block that the client has started and not deleted, also
\* when the slot's memory was reused before the commands to its old timer were done,
\* as long as that timer was not running any more.
TimersOfStartedBlocks ==
  Timely /\ AtRest /\ timerQueue = <<>> => active \subseteq Live \cap started

\* A started block that had variables when the worker took it, and is still there
\* when the lock is free, is sent with variables of its own.
StartedBlocksLogTheirOps ==
  LET w == task["worker"]
  IN  Timely /\ w.pc = "run" /\ logLock = "free" /\ w.fresh /\ blocks[w.slot].id # Free =>
        /\ \A o \in ToSet(Walk(ops, w.op)) : ops[o].used
        /\ Walk(ops, w.op) = Walk(ops, blocks[w.slot].ops)

\* configASSERT( xTimer ): no command goes to a timer that does not exist, until
\* the timer task has been overtaken.
TimersExist == Timely => ~asserted

\* Every command is answered if the link keeps coming back and the timer task is
\* not overtaken.
CommandsAnswered == []<>connected /\ []Timely => [](~At("idle") => <>At("idle"))

\* "Check if the connection is still up, oherwise disable all the logging" (log.cpp):
\* so it is, unless the LOG task waits forever for room for an answer, or the timer
\* task has been overtaken.
LostLinkEndsLogging ==
  <>[]~connected /\ []<>At("idle") /\ []Timely => <>[](active = {})

\* "Big lock that protects the log datastructures" (log.cpp): a run that has the
\* lock sees ops that are in use.
LockProtects ==
  LET w == task["worker"]
  IN  w.pc = "run" /\ logLock = "free" => \A o \in ToSet(Walk(ops, w.op)) : ops[o].used
=============================================================================
