------------------------------- MODULE LedSeq -------------------------------
(***************************************************************************)
(* The LED sequences of ledseq.cpp.  Every LED has a one-shot timer; the   *)
(* timer task runs the steps of the sequence that is active on it, and so  *)
(* does the LEDSEQCMD task, of the same priority, when a sequence is to be *)
(* shown.  A sequence's state is read outside the mutex that protects it.  *)
(*                                                                         *)
(* Times are left out: a timer that runs may expire.  A step of a sequence *)
(* that another runner has moved on may lie behind the sequence's end;     *)
(* what the code does with it is undefined, and that runner stops here.    *)
(***************************************************************************)
EXTENDS Integers, Sequences

CONSTANTS
  Leds,
  Registered,       \* the sequences in the order of their priority
  LedOf,            \* the LED of a sequence
  StepsOf,          \* its steps: whether the LED is lit, and "wait", "go_on" for a
                    \* time of zero, "loop" or "stop"
  CmdQueueLength

Sequence == {Registered[i] : i \in DOMAIN Registered}
NoSequence == "none"

Step == [value : BOOLEAN, action : {"wait", "go_on", "loop", "stop"}]

\* Every sequence ends in LEDSEQ_LOOP or in LEDSEQ_STOP
ASSUME LedSeqAssumption ==
  /\ Registered \in Seq(Sequence)
  /\ LedOf \in [Sequence -> Leds]
  /\ StepsOf \in [Sequence -> Seq(Step)]
  /\ \A s \in Sequence : LET last == Len(StepsOf[s]) IN
       last > 0 /\ StepsOf[s][last].action \in {"loop", "stop"}
  /\ NoSequence \notin Sequence
  /\ CmdQueueLength \in Nat \ {0}

VARIABLES
  ledseqEnabled,
  ledState,         \* per sequence: the number of its next step, or Stop
  activeSeq,        \* per LED: the sequence that runs on it
  lit,
  ledTimer,         \* per LED: whether its timer runs, whether a command to start
                    \* it is on its way to the timer task, or neither because the last
                    \* such command found no place in that task's queue
  ledseqMutex,      \* the runner that holds it
  ledseqCmdQueue,
  runner,           \* the two tasks: where they are, and the LED, the sequence and
                    \* the step that they have read
  overtaken         \* a state had changed between its reading and its use

ledVars == <<ledseqEnabled, ledState, activeSeq, lit, ledTimer, ledseqMutex, ledseqCmdQueue,
             runner, overtaken>>

Runners == {"timers", "ledseqcmd"}
Stop == 0
Idle == [at |-> "idle"]

Running(led, state) ==
  {i \in DOMAIN Registered : LedOf[Registered[i]] = led /\ state[Registered[i]] # Stop}

\* Fault: the sequence that was registered last wins
Lowest(led, state) ==
  IF Running(led, state) = {} THEN NoSequence
  ELSE Registered[CHOOSE i \in Running(led, state) : \A j \in Running(led, state) : i >= j]

\* The sequence with the highest priority that is not stopped
Highest(led, state) ==
  IF Running(led, state) = {} THEN NoSequence
  ELSE Registered[CHOOSE i \in Running(led, state) : \A j \in Running(led, state) : i <= j]

-----------------------------------------------------------------------------
(* The callers and the timer service *)

\* ledseqRun() drops a sequence that finds the queue full
Show(s) ==
  ledseqCmdQueue' = IF Len(ledseqCmdQueue) = CmdQueueLength THEN ledseqCmdQueue
                    ELSE Append(ledseqCmdQueue, s)

StartTimer(led) ==
  /\ runner["timers"].at = "idle" /\ ledTimer[led].commanded
  /\ ledTimer' = [ledTimer EXCEPT ![led] = [@ EXCEPT !.runs = TRUE, !.commanded = FALSE]]
  /\ UNCHANGED <<ledseqEnabled, ledState, activeSeq, lit, ledseqMutex, ledseqCmdQueue, runner, overtaken>>

\* The timer task calls runLedseq()
TimerExpires(led) ==
  /\ runner["timers"].at = "idle" /\ ledTimer[led].runs
  /\ ledTimer' = [ledTimer EXCEPT ![led].runs = FALSE]
  /\ runner' = [runner EXCEPT !["timers"] = [at |-> "enter", led |-> led]]
  /\ UNCHANGED <<ledseqEnabled, ledState, activeSeq, lit, ledseqMutex, ledseqCmdQueue, overtaken>>

-----------------------------------------------------------------------------
(* The LEDSEQCMD task: ledseqRunBlocking() *)

TakeCommand ==
  /\ runner["ledseqcmd"].at = "idle" /\ ledseqCmdQueue # <<>>
  /\ runner' = [runner EXCEPT !["ledseqcmd"] =
                  [at |-> "reset", led |-> LedOf[Head(ledseqCmdQueue)],
                   sequence |-> Head(ledseqCmdQueue)]]
  /\ ledseqCmdQueue' = Tail(ledseqCmdQueue)
  /\ UNCHANGED <<ledseqEnabled, ledState, activeSeq, lit, ledTimer, ledseqMutex, overtaken>>

\* The head of updateActive(), which every caller enters with the mutex
ClearActive(led) ==
  /\ activeSeq' = [activeSeq EXCEPT ![led] = NoSequence]
  /\ lit' = [lit EXCEPT ![led] = FALSE]

ResetSequence ==
  LET r == runner["ledseqcmd"] IN
  /\ r.at = "reset" /\ ledseqMutex = "free"
  /\ ledseqMutex' = "ledseqcmd"
  /\ ledState' = [ledState EXCEPT ![r.sequence] = 1]
  /\ ClearActive(r.led)
  /\ runner' = [runner EXCEPT !["ledseqcmd"].at = "choose"]
  /\ UNCHANGED <<ledseqEnabled, ledTimer, ledseqCmdQueue, overtaken>>

ChooseActive ==
  LET r == runner["ledseqcmd"] IN
  /\ r.at = "choose"
  /\ activeSeq' = [activeSeq EXCEPT ![r.led] = Highest(r.led, ledState)]
  /\ ledseqMutex' = "free"
  /\ runner' = [runner EXCEPT !["ledseqcmd"].at = "compare"]
  /\ UNCHANGED <<ledseqEnabled, ledState, lit, ledTimer, ledseqCmdQueue, overtaken>>

CompareActive ==
  LET r == runner["ledseqcmd"] IN
  /\ r.at = "compare"
  /\ runner' = [runner EXCEPT !["ledseqcmd"] =
                  IF activeSeq[r.led] = r.sequence THEN [at |-> "enter", led |-> r.led] ELSE Idle]
  /\ UNCHANGED <<ledseqEnabled, ledState, activeSeq, lit, ledTimer, ledseqMutex, ledseqCmdQueue, overtaken>>

-----------------------------------------------------------------------------
(* runLedseq() *)

EnterRun(t) ==
  LET r == runner[t] IN
  /\ r.at = "enter"
  /\ runner' = [runner EXCEPT ![t] =
                  IF ~ledseqEnabled \/ activeSeq[r.led] = NoSequence THEN Idle
                  ELSE [at |-> "read", led |-> r.led, sequence |-> activeSeq[r.led]]]
  /\ UNCHANGED <<ledseqEnabled, ledState, activeSeq, lit, ledTimer, ledseqMutex, ledseqCmdQueue, overtaken>>

\* The sequence's state is read without the mutex
ReadStep(t) ==
  LET r == runner[t] IN
  /\ r.at = "read"
  /\ runner' = [runner EXCEPT ![t] =
                  IF ledState[r.sequence] = Stop THEN Idle
                  ELSE [at |-> "take", led |-> r.led, sequence |-> r.sequence,
                        step |-> ledState[r.sequence]]]
  /\ UNCHANGED <<ledseqEnabled, ledState, activeSeq, lit, ledTimer, ledseqMutex, ledseqCmdQueue, overtaken>>

\* ... and advanced with it, whatever it has become
Advance(t) ==
  LET r == runner[t] IN
  /\ r.at = "take" /\ ledseqMutex = "free"
  /\ ledseqMutex' = t
  /\ ledState' = [ledState EXCEPT ![r.sequence] = @ + 1]
  /\ overtaken' = (overtaken \/ ledState[r.sequence] # r.step)
  /\ runner' = [runner EXCEPT ![t].at = "act"]
  /\ UNCHANGED <<ledseqEnabled, activeSeq, lit, ledTimer, ledseqCmdQueue>>

StepOf(r) == StepsOf[r.sequence][r.step]
InBounds(r) == r.step \in DOMAIN StepsOf[r.sequence]

Loop(t) ==
  LET r == runner[t] IN
  /\ r.at = "act" /\ InBounds(r) /\ StepOf(r).action = "loop"
  /\ ledState' = [ledState EXCEPT ![r.sequence] = 1]
  /\ ledseqMutex' = "free"
  /\ runner' = [runner EXCEPT ![t].at = "read"]
  /\ UNCHANGED <<ledseqEnabled, activeSeq, lit, ledTimer, ledseqCmdQueue, overtaken>>

StopSequence(t) ==
  LET r == runner[t] IN
  /\ r.at = "act" /\ InBounds(r) /\ StepOf(r).action = "stop"
  /\ ledState' = [ledState EXCEPT ![r.sequence] = Stop]
  /\ ClearActive(r.led)
  /\ runner' = [runner EXCEPT ![t].at = "next"]
  /\ UNCHANGED <<ledseqEnabled, ledTimer, ledseqMutex, ledseqCmdQueue, overtaken>>

NextActive(t) ==
  LET r == runner[t] IN
  /\ r.at = "next"
  /\ activeSeq' = [activeSeq EXCEPT ![r.led] = Highest(r.led, ledState)]
  /\ ledseqMutex' = "free"
  /\ runner' = [runner EXCEPT ![t].at = "read"]
  /\ UNCHANGED <<ledseqEnabled, ledState, lit, ledTimer, ledseqCmdQueue, overtaken>>

\* Fault: the LED's timer is not started while a sequence waits to be shown
SwitchWithoutTimer(t) ==
  LET r == runner[t] IN
  /\ r.at = "act" /\ InBounds(r) /\ StepOf(r).action \in {"wait", "go_on"}
  /\ lit' = [lit EXCEPT ![r.led] = StepOf(r).value]
  /\ ledseqMutex' = "free"
  /\ IF StepOf(r).action = "wait"
     THEN /\ ledTimer' = [ledTimer EXCEPT ![r.led].commanded = (ledseqCmdQueue = <<>>)]
          /\ runner' = [runner EXCEPT ![t] = Idle]
     ELSE /\ runner' = [runner EXCEPT ![t].at = "read"]
          /\ UNCHANGED ledTimer
  /\ UNCHANGED <<ledseqEnabled, ledState, activeSeq, ledseqCmdQueue, overtaken>>

\* The commands that start a LED's timer are sent without waiting and without
\* looking at the result: both are lost when the timer task's queue, which the
\* log's timers share, is full
CommandTimer(led) ==
  \/ ledTimer' = [ledTimer EXCEPT ![led] = [runs |-> @.runs, commanded |-> TRUE, lost |-> FALSE]]
  \/ ledTimer' = [ledTimer EXCEPT ![led].lost = ~ledTimer[led].runs /\ ~ledTimer[led].commanded]

\* A step with a time starts the LED's timer and ends the run
SwitchLed(t) ==
  LET r == runner[t] IN
  /\ r.at = "act" /\ InBounds(r) /\ StepOf(r).action \in {"wait", "go_on"}
  /\ lit' = [lit EXCEPT ![r.led] = StepOf(r).value]
  /\ ledseqMutex' = "free"
  /\ IF StepOf(r).action = "wait"
     THEN /\ CommandTimer(r.led)
          /\ runner' = [runner EXCEPT ![t] = Idle]
     ELSE /\ runner' = [runner EXCEPT ![t].at = "read"]
          /\ UNCHANGED ledTimer
  /\ UNCHANGED <<ledseqEnabled, ledState, activeSeq, ledseqCmdQueue, overtaken>>

-----------------------------------------------------------------------------
(* Initial values, and the steps *)

\* ledseqInit(), and every value after a reset
LedInit ==
  /\ ledseqEnabled = FALSE
  /\ ledState = [s \in Sequence |-> Stop]
  /\ activeSeq = [led \in Leds |-> NoSequence]
  /\ lit = [led \in Leds |-> FALSE]
  /\ ledTimer = [led \in Leds |-> [runs |-> FALSE, commanded |-> FALSE, lost |-> FALSE]]
  /\ ledseqMutex = "free"
  /\ ledseqCmdQueue = <<>>
  /\ runner = [t \in Runners |-> Idle]
  /\ overtaken = FALSE

ResetLeds ==
  /\ ledseqEnabled' = FALSE
  /\ ledState' = [s \in Sequence |-> Stop]
  /\ activeSeq' = [led \in Leds |-> NoSequence]
  /\ lit' = [led \in Leds |-> FALSE]
  /\ ledTimer' = [led \in Leds |-> [runs |-> FALSE, commanded |-> FALSE, lost |-> FALSE]]
  /\ ledseqMutex' = "free"
  /\ ledseqCmdQueue' = <<>>
  /\ runner' = [t \in Runners |-> Idle]
  /\ overtaken' = FALSE

CmdStep == TakeCommand \/ ResetSequence \/ ChooseActive \/ CompareActive
RunStep(t) ==
  \/ EnterRun(t) \/ ReadStep(t) \/ Advance(t)
  \/ Loop(t) \/ StopSequence(t) \/ NextActive(t) \/ SwitchLed(t)
TimerStep(led) == StartTimer(led) \/ TimerExpires(led)

LedStep == CmdStep \/ (\E t \in Runners : RunStep(t)) \/ (\E led \in Leds : TimerStep(led))

-----------------------------------------------------------------------------
(* Properties *)

\* Nothing will run the sequence of a LED, as it should: no loss explains it
Stranded(led) == ~(ledTimer[led].runs \/ ledTimer[led].commanded \/ ledTimer[led].lost)

\* ledseq.h promises that only the runnable sequence with the highest priority
\* runs on a LED.  Unless a state was overtaken, no step is taken from behind a
\* sequence's end, the active sequence is the first that is not stopped whenever
\* the mutex is free, and a lit LED belongs to an active sequence whose timer or
\* whose runner will switch it off, or whose last timer command was lost.
LedsKeepOrder ==
  ~overtaken =>
    /\ \A t \in Runners : runner[t].at = "act" => InBounds(runner[t])
    /\ ledseqMutex = "free" =>
         \A i \in DOMAIN Registered : LET active == activeSeq[LedOf[Registered[i]]] IN
           /\ ledState[Registered[i]] # Stop => \E j \in 1 .. i : active = Registered[j]
           /\ active = Registered[i] => ledState[Registered[i]] # Stop
    /\ \A led \in Leds : lit[led] =>
         \/ \E t \in Runners : runner[t].at # "idle" /\ runner[t].led = led
         \/ activeSeq[led] # NoSequence /\ ~Stranded(led)
=============================================================================
