----------------------------- MODULE BootProofs -----------------------------
(***************************************************************************)
(* A crash grounds the vehicle until its user resets it, whatever the LEDs *)
(* do and however often the vehicle crashes; and the LEDs keep the order   *)
(* that ledseq.h promises, for any sequences, through every boot and       *)
(* crash.                                                                  *)
(*                                                                         *)
(* As long as no state has been overtaken, the mutex ties every state that *)
(* lies behind its sequence to the runner that is about to put it right,   *)
(* and every LED without its active sequence to the runner that chooses    *)
(* one.                                                                    *)
(***************************************************************************)
EXTENDS Boot, WellFoundedInduction, TLAPS

-----------------------------------------------------------------------------
(* The LEDs between two boots *)

Waiting == [at : {"enter"}, led : Leds]
Choosing == [at : {"reset", "choose", "compare", "read"}, led : Leds, sequence : Sequence]
Stepping == [at : {"read", "take", "act", "next"}, led : Leds, sequence : Sequence,
             step : Nat \ {0}]

LedTyped ==
  /\ ledseqEnabled \in BOOLEAN /\ overtaken \in BOOLEAN
  /\ ledState \in [Sequence -> Nat]
  /\ activeSeq \in [Leds -> Sequence \union {NoSequence}]
  /\ \A led \in Leds : activeSeq[led] # NoSequence => LedOf[activeSeq[led]] = led
  /\ lit \in [Leds -> BOOLEAN]
  /\ ledTimer \in [Leds -> [runs : BOOLEAN, commanded : BOOLEAN, lost : BOOLEAN]]
  /\ ledseqMutex \in Runners \union {"free"}
  /\ ledseqCmdQueue \in Seq(Sequence)
  /\ runner \in [Runners -> {Idle} \union Waiting \union Choosing \union Stepping]

\* A runner holds the mutex from its taking to its giving, works on the LED of its
\* sequence, and shows steps only when the sequences are enabled
MutexHeld ==
  \A t \in Runners :
    /\ ledseqMutex = t <=> runner[t].at \in {"choose", "act", "next"}
    /\ runner[t].at \in {"reset", "choose", "compare"} => t = "ledseqcmd"
    /\ runner[t].at \notin {"idle", "enter"} => LedOf[runner[t].sequence] = runner[t].led
    /\ runner[t].at \in {"read", "take", "act", "next"} => ledseqEnabled

StatesInRange ==
  /\ \A s \in Sequence :
       ledState[s] # Stop =>
         \/ ledState[s] \in DOMAIN StepsOf[s]
         \/ \E t \in Runners : runner[t].at = "act" /\ runner[t].sequence = s
  /\ \A t \in Runners :
       runner[t].at = "act" =>
         InBounds(runner[t]) /\ ledState[runner[t].sequence] = runner[t].step + 1

Chooses(led) == \E t \in Runners : runner[t].at \in {"choose", "next"} /\ runner[t].led = led

OrderKept ==
  \A led \in Leds :
    /\ Chooses(led) => activeSeq[led] = NoSequence
    /\ ~Chooses(led) => activeSeq[led] = Highest(led, ledState)

Answers(t, led) ==
  /\ runner[t].at \in {"enter", "read", "take", "act"} /\ runner[t].led = led
  /\ runner[t].at = "read" => ledState[runner[t].sequence] # Stop

LitAnswered ==
  \A led \in Leds : lit[led] =>
    /\ ledseqEnabled /\ activeSeq[led] # NoSequence
    /\ ~Stranded(led) \/ \E t \in Runners : Answers(t, led)

LedInv == LedTyped /\ MutexHeld /\ (~overtaken => StatesInRange /\ OrderKept /\ LitAnswered)

-----------------------------------------------------------------------------
(* The sequence with the highest priority *)

Less == {p \in Nat \X Nat : p[1] < p[2]}

\* A set of numbers has no infinite descent.
LEMMA LeastIn ==
  ASSUME NEW R, IsWellFoundedOn(R, Nat), \A x, y \in Nat : y < x => <<y, x>> \in R,
         NEW T, T \subseteq Nat, T # {}
  PROVE  \E x \in T : \A y \in T : x <= y
<1>1. PICK x \in T : \A y \in T : ~ (<<y, x>> \in R)
  BY WFMin
<1>2. ASSUME NEW y \in T PROVE x <= y
  <2>1. x \in Nat /\ y \in Nat
    OBVIOUS
  <2>2. ~(y < x)
    BY <1>1, <2>1, Zenon
  <2>3. QED
    BY <2>1, <2>2
<1>3. QED
  BY <1>2

\* The order of the numbers is well-founded.
LEMMA LessWF == IsWellFoundedOn(Less, Nat)
<1>1. OpToRel(<, Nat) = Less
  BY Zenon DEF OpToRel, Less
<1>2. QED
  BY <1>1, NatLessThanWellFounded, Zenon

\* A set of numbers has a least one.
LEMMA Least ==
  ASSUME NEW T, T \subseteq Nat, T # {}
  PROVE  \E x \in T : \A y \in T : x <= y
<1>1. \A x, y \in Nat : y < x => <<y, x>> \in Less
  BY DEF Less
<1>2. QED
  BY <1>1, LessWF, LeastIn

\* The numbers of the sequences.
LEMMA Numbers ==
  ASSUME NEW i \in DOMAIN Registered
  PROVE  i \in Nat \ {0} /\ Registered[i] \in Sequence
  BY LedSeqAssumption DEF Sequence

\* Every sequence has a number.
LEMMA Numbered ==
  ASSUME NEW s \in Sequence
  PROVE  \E i \in DOMAIN Registered : Registered[i] = s
  BY DEF Sequence

\* Highest() finds no sequence only where none runs, and else the first that does.
LEMMA HighestIsFirst ==
  ASSUME NEW state, NEW led
  PROVE  \/ Highest(led, state) = NoSequence /\ Running(led, state) = {}
         \/ \E i \in Running(led, state) :
              Highest(led, state) = Registered[i] /\ \A j \in Running(led, state) : i <= j
<1>1. CASE Running(led, state) = {}
  BY <1>1 DEF Highest
<1>2. CASE Running(led, state) # {}
  <2>1. Running(led, state) \subseteq Nat
    BY Numbers DEF Running
  <2>2. \E i \in Running(led, state) : \A j \in Running(led, state) : i <= j
    BY <1>2, <2>1, Least
  <2> DEFINE first == CHOOSE i \in Running(led, state) : \A j \in Running(led, state) : i <= j
  <2>3. first \in Running(led, state) /\ \A j \in Running(led, state) : first <= j
    BY <2>2
  <2>4. Highest(led, state) = Registered[first]
    BY <1>2 DEF Highest
  <2>5. QED
    BY <2>3, <2>4
<1>3. QED
  BY <1>1, <1>2

\* Only what runs matters.
LEMMA HighestSame ==
  ASSUME NEW led, NEW state, NEW other,
         \A s \in Sequence : LedOf[s] = led => (state[s] # Stop <=> other[s] # Stop)
  PROVE  Highest(led, state) = Highest(led, other)
<1>1. Running(led, state) = Running(led, other)
  BY Numbers DEF Running
<1>2. QED
  BY <1>1 DEF Highest

-----------------------------------------------------------------------------
(* What the invariant says of a runner, and of the property *)

\* The fields of a runner.
LEMMA RunnerTyped ==
  ASSUME LedTyped, NEW t \in Runners
  PROVE  /\ runner[t].at = "idle" => runner[t] = Idle
         /\ runner[t].at = "enter" => runner[t] \in Waiting
         /\ runner[t].at \in {"reset", "choose", "compare"} => runner[t] \in Choosing
         /\ runner[t].at = "read" => runner[t] \in Choosing \union Stepping
         /\ runner[t].at \in {"take", "act", "next"} => runner[t] \in Stepping
<1>1. runner[t] \in {Idle} \union Waiting \union Choosing \union Stepping
  BY DEF LedTyped
<1>2. CASE runner[t] = Idle
  BY <1>2 DEF Idle
<1>3. CASE runner[t] \in Waiting
  BY <1>3 DEF Waiting
<1>4. CASE runner[t] \in Choosing
  BY <1>4 DEF Choosing
<1>5. CASE runner[t] \in Stepping
  BY <1>5 DEF Stepping
<1>6. QED
  BY <1>1, <1>2, <1>3, <1>4, <1>5

\* An active sequence runs, on its LED.
LEMMA ActiveRuns ==
  ASSUME LedInv, ~overtaken, NEW led \in Leds, activeSeq[led] # NoSequence
  PROVE  ledState[activeSeq[led]] # Stop
<1>1. activeSeq[led] = Highest(led, ledState)
  BY DEF LedInv, OrderKept
<1>2. PICK i \in Running(led, ledState) : Highest(led, ledState) = Registered[i]
  BY <1>1, HighestIsFirst
<1>3. QED
  BY <1>1, <1>2 DEF Running

\* The invariant is strong enough.
LEMMA LedInvOrder == LedInv => LedsKeepOrder
<1> SUFFICES ASSUME LedInv, ~overtaken
             PROVE  LedsKeepOrder
  BY DEF LedsKeepOrder
<1> USE DEF LedInv
<1>1. ASSUME NEW t \in Runners, runner[t].at = "act"
      PROVE  InBounds(runner[t])
  BY <1>1 DEF StatesInRange
<1>2. ASSUME ledseqMutex = "free", NEW i \in DOMAIN Registered
      PROVE  LET active == activeSeq[LedOf[Registered[i]]] IN
               /\ ledState[Registered[i]] # Stop => \E j \in 1 .. i : active = Registered[j]
               /\ active = Registered[i] => ledState[Registered[i]] # Stop
  <2> DEFINE led == LedOf[Registered[i]]
  <2>1. led \in Leds /\ i \in Nat \ {0} /\ Registered[i] \in Sequence
    BY Numbers, LedSeqAssumption
  <2>2. \A t \in Runners : ledseqMutex # t
    BY <1>2 DEF Runners
  <2>3. ~Chooses(led)
    BY <2>2 DEF Chooses, MutexHeld
  <2>4. activeSeq[led] = Highest(led, ledState)
    BY <2>1, <2>3 DEF OrderKept
  <2>5. CASE Highest(led, ledState) = NoSequence /\ Running(led, ledState) = {}
    BY <2>1, <2>4, <2>5, LedSeqAssumption DEF Running
  <2>6. CASE \E k \in Running(led, ledState) :
               Highest(led, ledState) = Registered[k] /\ \A j \in Running(led, ledState) : k <= j
    <3>1. PICK k \in Running(led, ledState) :
                 Highest(led, ledState) = Registered[k] /\ \A j \in Running(led, ledState) : k <= j
      BY <2>6
    <3>2. k \in Nat \ {0} /\ ledState[Registered[k]] # Stop
      BY Numbers DEF Running
    <3>3. ledState[Registered[i]] # Stop => k \in 1 .. i
      <4>1. ledState[Registered[i]] # Stop => i \in Running(led, ledState)
        BY DEF Running
      <4>2. QED
        BY <2>1, <3>1, <3>2, <4>1
    <3>4. QED
      BY <2>4, <3>1, <3>2, <3>3
  <2>7. QED
    BY <2>5, <2>6, HighestIsFirst
<1>3. ASSUME NEW led \in Leds, lit[led]
      PROVE  \/ \E t \in Runners : runner[t].at # "idle" /\ runner[t].led = led
             \/ activeSeq[led] # NoSequence /\ ~Stranded(led)
  BY <1>3 DEF LitAnswered, Stranded, Answers
<1>4. QED
  BY <1>1, <1>2, <1>3 DEF LedsKeepOrder

-----------------------------------------------------------------------------
(* The steps *)

\* At the start and after a reset every sequence is stopped.
LEMMA StoppedInv ==
  ASSUME LedInit \/ ResetLeds
  PROVE  (LedInit => LedInv) /\ (ResetLeds => LedInv')
<1>1. ASSUME NEW led \in Leds
      PROVE  Highest(led, [s \in Sequence |-> Stop]) = NoSequence
  BY Numbers DEF Highest, Running
<1>2. LedInit => LedInv
  <2> SUFFICES ASSUME LedInit PROVE LedInv
    OBVIOUS
  <2>1. \A t \in Runners : runner[t].at = "idle"
    BY DEF LedInit, Idle
  <2>2. LedTyped
    <3>1. runner \in [Runners -> {Idle} \union Waiting \union Choosing \union Stepping]
      BY DEF LedInit
    <3>2. ledTimer \in [Leds -> [runs : BOOLEAN, commanded : BOOLEAN, lost : BOOLEAN]]
      BY DEF LedInit
    <3>3. lit \in [Leds -> BOOLEAN] /\ activeSeq \in [Leds -> Sequence \union {NoSequence}]
          /\ \A led \in Leds : activeSeq[led] = NoSequence
      BY DEF LedInit
    <3>4. ledState \in [Sequence -> Nat]
      BY DEF LedInit, Stop
    <3>5. ledseqCmdQueue \in Seq(Sequence) /\ ledseqMutex \in Runners \union {"free"}
      BY DEF LedInit
    <3>6. ledseqEnabled \in BOOLEAN /\ overtaken \in BOOLEAN
      BY DEF LedInit
    <3>7. QED
      BY <3>1, <3>2, <3>3, <3>4, <3>5, <3>6 DEF LedTyped
  <2>3. MutexHeld
    BY <2>1 DEF LedInit, MutexHeld, Runners
  <2>4. StatesInRange /\ LitAnswered
    BY <2>1 DEF LedInit, StatesInRange, LitAnswered
  <2>5. OrderKept
    BY <1>1, <2>1 DEF LedInit, OrderKept, Chooses
  <2>6. QED
    BY <2>2, <2>3, <2>4, <2>5 DEF LedInv
<1>3. ResetLeds => LedInv'
  <2> SUFFICES ASSUME ResetLeds PROVE LedInv'
    OBVIOUS
  <2>1. \A t \in Runners : runner'[t].at = "idle"
    BY DEF ResetLeds, Idle
  <2>2. LedTyped'
    <3>1. runner' \in [Runners -> {Idle} \union Waiting \union Choosing \union Stepping]
      BY DEF ResetLeds
    <3>2. ledTimer' \in [Leds -> [runs : BOOLEAN, commanded : BOOLEAN, lost : BOOLEAN]]
      BY DEF ResetLeds
    <3>3. lit' \in [Leds -> BOOLEAN] /\ activeSeq' \in [Leds -> Sequence \union {NoSequence}]
          /\ \A led \in Leds : activeSeq'[led] = NoSequence
      BY DEF ResetLeds
    <3>4. ledState' \in [Sequence -> Nat]
      BY DEF ResetLeds, Stop
    <3>5. ledseqCmdQueue' \in Seq(Sequence) /\ ledseqMutex' \in Runners \union {"free"}
      BY DEF ResetLeds
    <3>6. ledseqEnabled' \in BOOLEAN /\ overtaken' \in BOOLEAN
      BY DEF ResetLeds
    <3>7. QED
      BY <3>1, <3>2, <3>3, <3>4, <3>5, <3>6 DEF LedTyped
  <2>3. MutexHeld'
    BY <2>1 DEF ResetLeds, MutexHeld, Runners
  <2>4. StatesInRange' /\ LitAnswered'
    BY <2>1 DEF ResetLeds, StatesInRange, LitAnswered
  <2>5. OrderKept'
    BY <1>1, <2>1 DEF ResetLeds, OrderKept, Chooses
  <2>6. QED
    BY <2>2, <2>3, <2>4, <2>5 DEF LedInv
<1>4. QED
  BY <1>2, <1>3

\* The queue may change, and the sequences may be enabled.
LEMMA CallersInv ==
  ASSUME LedInv, ledseqCmdQueue' \in Seq(Sequence), ledseqEnabled' \in {ledseqEnabled, TRUE},
         UNCHANGED <<ledState, activeSeq, lit, ledTimer, ledseqMutex, runner, overtaken>>
  PROVE  LedInv'
<1> USE DEF LedInv
<1>0. ledseqEnabled => ledseqEnabled'
  BY Zenon
<1>1. LedTyped'
  BY DEF LedTyped
<1>2. MutexHeld'
  BY <1>0 DEF MutexHeld
<1>3. StatesInRange => StatesInRange'
  BY DEF StatesInRange
<1>4. OrderKept => OrderKept'
  BY DEF OrderKept, Chooses
<1>5. LitAnswered => LitAnswered'
  BY <1>0 DEF LitAnswered, Stranded, Answers
<1>6. QED
  BY <1>1, <1>2, <1>3, <1>4, <1>5

\* A timer that starts or expires keeps its LED answered.
LEMMA TimerInv ==
  ASSUME LedInv, NEW led \in Leds, TimerStep(led)
  PROVE  LedInv'
<1> USE DEF LedInv
<1>1. CASE StartTimer(led)
  <2> USE <1>1 DEF StartTimer
  <2>1. LedTyped'
    BY DEF LedTyped
  <2>2. MutexHeld'
    BY DEF MutexHeld
  <2>3. StatesInRange => StatesInRange'
    BY DEF StatesInRange
  <2>4. OrderKept => OrderKept'
    BY DEF OrderKept, Chooses
  <2>5. LitAnswered => LitAnswered'
    BY DEF LitAnswered, Stranded, Answers, LedTyped
  <2>6. QED
    BY <2>1, <2>2, <2>3, <2>4, <2>5
<1>2. CASE TimerExpires(led)
  <2> USE <1>2 DEF TimerExpires
  <2>0. "timers" \in Runners /\ runner'["timers"] = [at |-> "enter", led |-> led]
        /\ \A u \in Runners : u # "timers" => runner'[u] = runner[u]
    BY DEF LedTyped, Runners
  <2>1. LedTyped'
    BY DEF LedTyped, Waiting
  <2>2. MutexHeld'
    BY <2>0 DEF MutexHeld
  <2>3. StatesInRange => StatesInRange'
    BY <2>0 DEF StatesInRange
  <2>4. ASSUME OrderKept PROVE OrderKept'
    <3>1. \A l \in Leds : Chooses(l)' <=> Chooses(l)
      BY <2>0 DEF Chooses
    <3>2. QED
      BY <2>4, <3>1 DEF OrderKept
  <2>5. ASSUME LitAnswered PROVE LitAnswered'
    <3>1. ASSUME NEW l \in Leds, NEW u \in Runners, Answers(u, l) PROVE Answers(u, l)'
      BY <2>0, <3>1 DEF Answers
    <3>2. Answers("timers", led)'
      BY <2>0 DEF Answers
    <3>3. QED
      BY <2>0, <2>5, <3>1, <3>2 DEF LitAnswered, Stranded, LedTyped
  <2>6. QED
    BY <2>1, <2>2, <2>3, <2>4, <2>5
<1>3. QED
  BY <1>1, <1>2 DEF TimerStep

\* A runner that neither chooses nor advances keeps everything but itself.
LEMMA MoveInv ==
  ASSUME LedInv, NEW t \in Runners, runner[t].at \notin {"choose", "act", "next"},
         UNCHANGED <<ledseqEnabled, ledState, activeSeq, lit, ledTimer, ledseqMutex, overtaken>>,
         ledseqCmdQueue' \in Seq(Sequence),
         NEW r \in {Idle} \union Waiting \union Choosing \union Stepping,
         runner' = [runner EXCEPT ![t] = r],
         r.at \notin {"choose", "act", "next"},
         r.at \in {"reset", "choose", "compare"} => t = "ledseqcmd",
         r.at \notin {"idle", "enter"} => LedOf[r.sequence] = r.led,
         r.at \in {"read", "take"} => ledseqEnabled,
         ~overtaken => \A led \in Leds :
           lit[led] /\ Answers(t, led) => \E u \in Runners : Answers(u, led)' 
  PROVE  LedInv'
<1> USE DEF LedInv
<1>0. runner'[t] = r /\ \A u \in Runners : u # t => runner'[u] = runner[u]
  BY DEF LedTyped
<1>1. LedTyped'
  BY DEF LedTyped
<1>2. MutexHeld'
  <2>1. ASSUME NEW u \in Runners, u # t PROVE
         /\ ledseqMutex' = u <=> runner'[u].at \in {"choose", "act", "next"}
         /\ runner'[u].at \in {"reset", "choose", "compare"} => u = "ledseqcmd"
         /\ runner'[u].at \notin {"idle", "enter"} => LedOf[runner'[u].sequence] = runner'[u].led
         /\ runner'[u].at \in {"read", "take", "act", "next"} => ledseqEnabled'
    BY <1>0, <2>1 DEF MutexHeld
  <2>2. ledseqMutex # t
    BY DEF MutexHeld
  <2>3. QED
    BY <1>0, <2>1, <2>2 DEF MutexHeld
<1>3. StatesInRange => StatesInRange'
  BY <1>0 DEF StatesInRange
<1>4. ASSUME OrderKept PROVE OrderKept'
  <2>1. \A l \in Leds : Chooses(l)' <=> Chooses(l)
    BY <1>0 DEF Chooses
  <2>2. QED
    BY <1>4, <2>1 DEF OrderKept
<1>5. ASSUME ~overtaken, LitAnswered PROVE LitAnswered'
  <2>1. ASSUME NEW l \in Leds, NEW u \in Runners, u # t, Answers(u, l) PROVE Answers(u, l)'
    BY <1>0, <2>1 DEF Answers
  <2>2. QED
    BY <1>5, <2>1 DEF LitAnswered, Stranded
<1>6. QED
  BY <1>1, <1>2, <1>3, <1>4, <1>5

-----------------------------------------------------------------------------
\* Entering, reading and comparing keep the runner of a lit LED.
LEMMA LookInv ==
  ASSUME LedInv, NEW t \in Runners,
         EnterRun(t) \/ ReadStep(t) \/ (t = "ledseqcmd" /\ (TakeCommand \/ CompareActive))
  PROVE  LedInv'
<1> USE DEF LedInv
<1> DEFINE All == {Idle} \union Waiting \union Choosing \union Stepping
<1>1. CASE EnterRun(t)
  <2>0. runner[t] \in Waiting
    BY <1>1, RunnerTyped DEF EnterRun
  <2> DEFINE next == IF ~ledseqEnabled \/ activeSeq[runner[t].led] = NoSequence THEN Idle
                     ELSE [at |-> "read", led |-> runner[t].led, sequence |-> activeSeq[runner[t].led]]
  <2>1. runner' = [runner EXCEPT ![t] = next]
    BY <1>1 DEF EnterRun
  <2>2. UNCHANGED <<ledseqEnabled, ledState, activeSeq, lit, ledTimer, ledseqMutex, overtaken>>
        /\ ledseqCmdQueue' \in Seq(Sequence) /\ runner[t].at = "enter"
    BY <1>1 DEF EnterRun, LedTyped
  <2>3. CASE ~ledseqEnabled \/ activeSeq[runner[t].led] = NoSequence
    <3>1. next = Idle /\ Idle.at = "idle" /\ Idle \in All
      BY <2>3 DEF Idle
    <3>2. ASSUME ~overtaken, NEW led \in Leds, lit[led], Answers(t, led) PROVE FALSE
      BY <2>3, <3>2 DEF Answers, LitAnswered
    <3> HIDE DEF next
    <3>3. QED
      BY <2>1, <2>2, <3>1, <3>2, MoveInv
  <2>4. CASE ledseqEnabled /\ activeSeq[runner[t].led] # NoSequence
    <3>1. activeSeq[runner[t].led] \in Sequence /\ runner[t].led \in Leds
      BY <2>0, <2>4 DEF LedTyped, Waiting
    <3>2. next = [at |-> "read", led |-> runner[t].led, sequence |-> activeSeq[runner[t].led]]
      BY <2>4
    <3>3. next \in Choosing /\ next.at = "read" /\ next.led = runner[t].led
          /\ next.sequence = activeSeq[runner[t].led]
      BY <3>1, <3>2 DEF Choosing
    <3>4. LedOf[next.sequence] = next.led
      BY <3>1, <3>3, LedSeqAssumption DEF LedTyped
    <3>5. ASSUME ~overtaken, NEW led \in Leds, lit[led], Answers(t, led)
          PROVE  Answers(t, led)'
      <4>1. runner[t].led = led
        BY <3>5 DEF Answers
      <4>2. ledState[activeSeq[led]] # Stop
        BY <2>4, <3>5, <4>1, ActiveRuns
      <4>3. runner'[t] = next
        BY <2>1 DEF LedTyped
      <4>4. QED
        BY <2>2, <3>3, <4>1, <4>2, <4>3 DEF Answers
    <3> HIDE DEF next
    <3>6. QED
      BY <2>1, <2>2, <2>4, <3>3, <3>4, <3>5, MoveInv
  <2>5. QED
    BY <2>3, <2>4
<1>2. CASE ReadStep(t)
  <2>0. runner[t] \in Choosing \union Stepping
    BY <1>2, RunnerTyped DEF ReadStep
  <2>1. runner[t].sequence \in Sequence /\ runner[t].led \in Leds
        /\ LedOf[runner[t].sequence] = runner[t].led /\ ledseqEnabled
    <3>1. runner[t].at = "read"
      BY <1>2 DEF ReadStep
    <3>2. QED
      BY <2>0, <3>1 DEF Choosing, Stepping, MutexHeld
  <2>2. UNCHANGED <<ledseqEnabled, ledState, activeSeq, lit, ledTimer, ledseqMutex, overtaken>>
        /\ ledseqCmdQueue' \in Seq(Sequence) /\ runner[t].at = "read"
    BY <1>2 DEF ReadStep, LedTyped
  <2>3. CASE ledState[runner[t].sequence] = Stop
    <3>1. runner' = [runner EXCEPT ![t] = Idle] /\ Idle.at = "idle"
      BY <1>2, <2>3 DEF ReadStep, Idle
    <3>2. ASSUME NEW led \in Leds, Answers(t, led) PROVE FALSE
      BY <2>2, <2>3, <3>2 DEF Answers
    <3>3. QED
      BY <2>2, <3>1, <3>2, MoveInv
  <2>4. CASE ledState[runner[t].sequence] # Stop
    <3> DEFINE next == [at |-> "take", led |-> runner[t].led, sequence |-> runner[t].sequence,
                        step |-> ledState[runner[t].sequence]]
    <3>1. runner' = [runner EXCEPT ![t] = next]
      BY <1>2, <2>4 DEF ReadStep
    <3>2. ledState[runner[t].sequence] \in Nat \ {0}
      BY <2>1, <2>4 DEF LedTyped, Stop
    <3>3. next \in Stepping /\ next.at = "take" /\ next.led = runner[t].led
          /\ next.sequence = runner[t].sequence
      BY <2>1, <3>2 DEF Stepping
    <3>4. ASSUME NEW led \in Leds, Answers(t, led) PROVE Answers(t, led)'
      <4>1. runner'[t] = next
        BY <3>1 DEF LedTyped
      <4>2. QED
        BY <3>3, <3>4, <4>1 DEF Answers
    <3> HIDE DEF next
    <3>5. QED
      BY <2>1, <2>2, <3>1, <3>3, <3>4, MoveInv
  <2>5. QED
    BY <2>3, <2>4
<1>3. CASE t = "ledseqcmd" /\ TakeCommand
  <2>1. Head(ledseqCmdQueue) \in Sequence /\ Tail(ledseqCmdQueue) \in Seq(Sequence)
    BY <1>3 DEF TakeCommand, LedTyped
  <2> DEFINE next == [at |-> "reset", led |-> LedOf[Head(ledseqCmdQueue)],
                      sequence |-> Head(ledseqCmdQueue)]
  <2>2. runner' = [runner EXCEPT ![t] = next] /\ runner[t].at = "idle"
        /\ ledseqCmdQueue' \in Seq(Sequence)
        /\ UNCHANGED <<ledseqEnabled, ledState, activeSeq, lit, ledTimer, ledseqMutex, overtaken>>
    BY <1>3, <2>1 DEF TakeCommand
  <2>3. next \in Choosing /\ next.at = "reset" /\ LedOf[next.sequence] = next.led
    BY <2>1, LedSeqAssumption DEF Choosing
  <2>4. \A led \in Leds : ~Answers(t, led)
    BY <2>2 DEF Answers
  <2> HIDE DEF next
  <2>5. QED
    BY <1>3, <2>2, <2>3, <2>4, MoveInv
<1>4. CASE t = "ledseqcmd" /\ CompareActive
  <2>0. runner[t].at = "compare" /\ runner[t] \in Choosing
    BY <1>4, RunnerTyped DEF CompareActive
  <2> DEFINE next == IF activeSeq[runner[t].led] = runner[t].sequence
                     THEN [at |-> "enter", led |-> runner[t].led] ELSE Idle
  <2>1. runner' = [runner EXCEPT ![t] = next]
        /\ UNCHANGED <<ledseqEnabled, ledState, activeSeq, lit, ledTimer, ledseqMutex, overtaken>>
        /\ ledseqCmdQueue' \in Seq(Sequence)
    BY <1>4 DEF CompareActive, LedTyped
  <2>2. next \in {Idle} \union Waiting /\ next.at \in {"idle", "enter"}
    BY <2>0 DEF Waiting, Choosing, Idle
  <2>3. \A led \in Leds : ~Answers(t, led)
    BY <2>0 DEF Answers
  <2> HIDE DEF next
  <2>4. QED
    BY <2>0, <2>1, <2>2, <2>3, MoveInv
<1>5. QED
  BY <1>1, <1>2, <1>3, <1>4

\* The holder of the mutex is alone behind it.
LEMMA Alone ==
  ASSUME LedInv, NEW t \in Runners, ledseqMutex \in {t, "free"},
         NEW u \in Runners, u # t
  PROVE  runner[u].at \notin {"choose", "act", "next"}
  BY DEF LedInv, MutexHeld, Runners

\* What is known of a runner that works on a sequence.
LEMMA Working ==
  ASSUME LedInv, NEW t \in Runners,
         runner[t].at \in {"reset", "choose", "compare", "read", "take", "act", "next"}
  PROVE  /\ runner[t].sequence \in Sequence /\ runner[t].led \in Leds
         /\ LedOf[runner[t].sequence] = runner[t].led
         /\ runner[t].at \in {"reset", "choose"} => runner[t] \in Choosing
         /\ runner[t].at \in {"take", "act", "next"} =>
              runner[t] \in Stepping /\ runner[t].step \in Nat \ {0} /\ ledseqEnabled
<1>1. LedTyped /\ LedOf[runner[t].sequence] = runner[t].led
      /\ (runner[t].at \in {"take", "act", "next"} => ledseqEnabled)
  BY DEF LedInv, MutexHeld
<1>2. CASE runner[t].at \in {"reset", "choose", "compare"}
  BY <1>1, <1>2, RunnerTyped DEF Choosing
<1>3. CASE runner[t].at = "read"
  BY <1>1, <1>3, RunnerTyped DEF Choosing, Stepping
<1>4. CASE runner[t].at \in {"take", "act", "next"}
  BY <1>1, <1>4, RunnerTyped DEF Stepping
<1>5. QED
  BY <1>2, <1>3, <1>4

\* A runner that takes, keeps or gives the mutex.
LEMMA HolderMoves ==
  ASSUME LedInv, NEW t \in Runners, NEW r \in {Idle} \union Choosing \union Stepping,
         runner' = [runner EXCEPT ![t] = r], UNCHANGED ledseqEnabled,
         ledseqMutex \in {t, "free"}, ledseqMutex' \in {t, "free"},
         ledseqMutex' = t <=> r.at \in {"choose", "act", "next"},
         r.at \in {"reset", "choose", "compare"} => t = "ledseqcmd",
         r.at # "idle" => LedOf[r.sequence] = r.led,
         r.at \in {"read", "take", "act", "next"} => ledseqEnabled
  PROVE  /\ MutexHeld'
         /\ runner' \in [Runners -> {Idle} \union Waiting \union Choosing \union Stepping]
         /\ ledseqMutex' \in Runners \union {"free"}
         /\ runner'[t] = r
         /\ \A u \in Runners : u # t =>
              runner'[u] = runner[u] /\ runner[u].at \notin {"choose", "act", "next"}
<1>1. runner \in [Runners -> {Idle} \union Waiting \union Choosing \union Stepping]
  BY DEF LedInv, LedTyped
<1>2. runner'[t] = r /\ \A u \in Runners : u # t => runner'[u] = runner[u]
  BY <1>1
<1>3. ASSUME NEW u \in Runners, u # t
      PROVE  /\ ledseqMutex' = u <=> runner'[u].at \in {"choose", "act", "next"}
             /\ runner'[u].at \in {"reset", "choose", "compare"} => u = "ledseqcmd"
             /\ runner'[u].at \notin {"idle", "enter"} => LedOf[runner'[u].sequence] = runner'[u].led
             /\ runner'[u].at \in {"read", "take", "act", "next"} => ledseqEnabled'
  <2>1. u # "free" /\ runner[u].at \notin {"choose", "act", "next"}
    BY <1>3, Alone DEF Runners
  <2>2. QED
    BY <1>2, <1>3, <2>1 DEF LedInv, MutexHeld
<1>4. MutexHeld'
  BY <1>2, <1>3 DEF MutexHeld
<1>5. QED
  BY <1>1, <1>2, <1>4, Alone

-----------------------------------------------------------------------------
\* A sequence that is shown starts with its first step.
LEMMA ResetSequenceInv ==
  ASSUME LedInv, ResetSequence
  PROVE  LedInv'
<1> DEFINE t == "ledseqcmd"
           led == runner[t].led
           s == runner[t].sequence
           next == [runner[t] EXCEPT !.at = "choose"]
<1>0. t \in Runners /\ runner[t].at = "reset" /\ ledseqMutex = "free" /\ ledseqMutex' = t
  BY DEF ResetSequence, Runners
<1>1. s \in Sequence /\ led \in Leds /\ LedOf[s] = led /\ runner[t] \in Choosing
  BY <1>0, Working
<1>2. next \in Choosing /\ next.at = "choose" /\ next.led = led /\ next.sequence = s
  BY <1>1 DEF Choosing
<1>3. runner' = [runner EXCEPT ![t] = next] /\ UNCHANGED ledseqEnabled
  BY DEF ResetSequence
<1> DEFINE Held == /\ MutexHeld'
                   /\ runner' \in [Runners -> {Idle} \union Waiting \union Choosing \union Stepping]
                   /\ ledseqMutex' \in Runners \union {"free"}
                   /\ runner'[t] = next
                   /\ \A u \in Runners : u # t =>
                        runner'[u] = runner[u] /\ runner[u].at \notin {"choose", "act", "next"}
<1>4. Held
  <2> HIDE DEF next
  <2>1. QED
    BY <1>0, <1>1, <1>2, <1>3, HolderMoves
<1> HIDE DEF next
<1>5. /\ ledState' = [ledState EXCEPT ![s] = 1]
      /\ activeSeq' = [activeSeq EXCEPT ![led] = NoSequence]
      /\ lit' = [lit EXCEPT ![led] = FALSE]
      /\ UNCHANGED <<ledTimer, ledseqCmdQueue, overtaken>>
  BY DEF ResetSequence, ClearActive
<1> HIDE DEF t
<1>6. LedTyped'
  <2>1. ledState' \in [Sequence -> Nat]
    BY <1>1, <1>5 DEF LedInv, LedTyped
  <2>2. activeSeq' \in [Leds -> Sequence \union {NoSequence}]
        /\ \A l \in Leds : activeSeq'[l] # NoSequence => LedOf[activeSeq'[l]] = l
    BY <1>1, <1>5 DEF LedInv, LedTyped
  <2>3. lit' \in [Leds -> BOOLEAN]
    BY <1>1, <1>5 DEF LedInv, LedTyped
  <2>4. QED
    BY <1>3, <1>4, <1>5, <2>1, <2>2, <2>3 DEF LedInv, LedTyped
<1>7. /\ ledState'[s] = 1 /\ \A o \in Sequence : o # s => ledState'[o] = ledState[o]
      /\ activeSeq'[led] = NoSequence /\ ~lit'[led]
      /\ \A l \in Leds : l # led => activeSeq'[l] = activeSeq[l] /\ lit'[l] = lit[l]
  BY <1>1, <1>5 DEF LedInv, LedTyped
<1>8. ASSUME ~overtaken PROVE StatesInRange'
  <2>1. ledState'[s] \in DOMAIN StepsOf[s]
    BY <1>1, <1>7, LedSeqAssumption
  <2>2. \A u \in Runners : runner[u].at # "act" /\ runner'[u].at # "act"
    BY <1>0, <1>2, <1>4
  <2>3. QED
    BY <1>7, <1>8, <2>1, <2>2 DEF LedInv, StatesInRange
<1>9. ASSUME ~overtaken PROVE OrderKept'
  <2>1. ASSUME NEW l \in Leds, l = led PROVE Chooses(l)'
    BY <1>0, <1>2, <1>4, <2>1 DEF Chooses
  <2>2. ASSUME NEW l \in Leds, l # led PROVE activeSeq'[l] = Highest(l, ledState')
    <3>1. ~Chooses(l)
      BY <1>0, <1>4 DEF Chooses
    <3>2. Highest(l, ledState) = Highest(l, ledState')
      BY <1>1, <1>7, <2>2, HighestSame
    <3>3. QED
      BY <1>7, <1>9, <2>2, <3>1, <3>2 DEF LedInv, OrderKept
  <2>3. ASSUME NEW l \in Leds, l # led PROVE ~Chooses(l)'
    BY <1>0, <1>2, <1>4, <2>3 DEF Chooses
  <2>4. ASSUME NEW l \in Leds
        PROVE  /\ Chooses(l)' => activeSeq'[l] = NoSequence
               /\ ~Chooses(l)' => activeSeq'[l] = Highest(l, ledState')
    <3>1. CASE l = led
      BY <1>7, <2>1, <3>1
    <3>2. CASE l # led
      BY <2>2, <2>3, <3>2
    <3>3. QED
      BY <3>1, <3>2
  <2>5. QED
    BY <2>4 DEF OrderKept
<1>10. ASSUME ~overtaken PROVE LitAnswered'
  <2>1. ASSUME NEW l \in Leds, NEW u \in Runners, Answers(u, l) PROVE Answers(u, l)'
    <3>1. u # t
      BY <1>0, <2>1 DEF Answers
    <3>2. runner[u].at = "read" => runner[u].sequence \in Sequence
      BY Working
    <3>3. QED
      BY <1>4, <1>7, <2>1, <3>1, <3>2 DEF Answers, Stop
  <2>2. QED
    BY <1>3, <1>5, <1>7, <1>10, <2>1 DEF LedInv, LitAnswered, Stranded
<1>11. QED
  BY <1>4, <1>5, <1>6, <1>8, <1>9, <1>10 DEF LedInv

\* The holder that has cleared the active sequence of its LED chooses it.
LEMMA ChooseInv ==
  ASSUME LedInv, NEW t \in Runners, (t = "ledseqcmd" /\ ChooseActive) \/ NextActive(t)
  PROVE  LedInv'
<1> DEFINE led == runner[t].led
<1>0. /\ runner[t].at \in {"choose", "next"} /\ ledseqMutex' = "free"
      /\ activeSeq' = [activeSeq EXCEPT ![led] = Highest(led, ledState)]
      /\ UNCHANGED <<ledseqEnabled, ledState, lit, ledTimer, ledseqCmdQueue, overtaken>>
  BY DEF ChooseActive, NextActive
<1>1. led \in Leds /\ LedOf[runner[t].sequence] = led /\ ledseqMutex = t
  BY <1>0, Working DEF LedInv, MutexHeld
<1>2. PICK r \in Choosing \union Stepping :
        /\ runner' = [runner EXCEPT ![t] = r] /\ r.at \in {"compare", "read"}
        /\ r.sequence = runner[t].sequence /\ r.led = led
        /\ r.at = "compare" => t = "ledseqcmd"
        /\ r.at = "read" => ledseqEnabled
  <2>1. CASE t = "ledseqcmd" /\ ChooseActive
    <3> DEFINE r == [runner[t] EXCEPT !.at = "compare"]
    <3>1. runner[t] \in Choosing
      BY <1>0, <2>1, Working DEF ChooseActive
    <3>2. r \in Choosing /\ r.at = "compare" /\ r.sequence = runner[t].sequence /\ r.led = led
      BY <3>1 DEF Choosing
    <3>3. runner' = [runner EXCEPT ![t] = r]
      BY <2>1 DEF ChooseActive
    <3>4. QED
      BY <2>1, <3>2, <3>3
  <2>2. CASE NextActive(t)
    <3> DEFINE r == [runner[t] EXCEPT !.at = "read"]
    <3>1. runner[t] \in Stepping /\ ledseqEnabled
      BY <2>2, Working DEF NextActive
    <3>2. r \in Stepping /\ r.at = "read" /\ r.sequence = runner[t].sequence /\ r.led = led
      BY <3>1 DEF Stepping
    <3>3. runner' = [runner EXCEPT ![t] = r]
      BY <2>2 DEF NextActive
    <3>4. QED
      BY <3>1, <3>2, <3>3
  <2>3. QED
    BY <2>1, <2>2
<1>3. /\ MutexHeld'
      /\ runner' \in [Runners -> {Idle} \union Waiting \union Choosing \union Stepping]
      /\ runner'[t] = r
      /\ \A u \in Runners : u # t =>
           runner'[u] = runner[u] /\ runner[u].at \notin {"choose", "act", "next"}
  BY <1>0, <1>1, <1>2, HolderMoves DEF Runners
<1>4. /\ Highest(led, ledState) # NoSequence =>
           Highest(led, ledState) \in Sequence /\ LedOf[Highest(led, ledState)] = led
      /\ Highest(led, ledState) \in Sequence \union {NoSequence}
  BY HighestIsFirst, Numbers DEF Running
<1>5. activeSeq'[led] = Highest(led, ledState)
      /\ \A l \in Leds : l # led => activeSeq'[l] = activeSeq[l]
  BY <1>0, <1>1 DEF LedInv, LedTyped
<1>6. LedTyped'
  <2>1. activeSeq' \in [Leds -> Sequence \union {NoSequence}]
    BY <1>0, <1>4 DEF LedInv, LedTyped
  <2>2. \A l \in Leds : activeSeq'[l] # NoSequence => LedOf[activeSeq'[l]] = l
    BY <1>4, <1>5 DEF LedInv, LedTyped
  <2>3. QED
    BY <1>0, <1>3, <2>1, <2>2 DEF LedInv, LedTyped
<1>7. ASSUME ~overtaken PROVE StatesInRange'
  <2>1. \A u \in Runners : runner[u].at # "act" /\ runner'[u].at # "act"
    BY <1>0, <1>2, <1>3
  <2>2. QED
    BY <1>0, <1>7, <2>1 DEF LedInv, StatesInRange
<1>8. ASSUME ~overtaken PROVE OrderKept'
  <2>1. \A l \in Leds : ~Chooses(l)'
    BY <1>2, <1>3 DEF Chooses
  <2>2. \A l \in Leds : l # led => ~Chooses(l)
    BY <1>3 DEF Chooses
  <2>3. QED
    BY <1>0, <1>5, <1>8, <2>1, <2>2 DEF LedInv, OrderKept
<1>9. ASSUME ~overtaken PROVE LitAnswered'
  <2>1. Chooses(led)
    BY <1>0 DEF Chooses
  <2>2. ~lit[led]
    BY <1>1, <1>9, <2>1 DEF LedInv, OrderKept, LitAnswered, Stranded
  <2>3. ASSUME NEW l \in Leds, NEW u \in Runners, Answers(u, l) PROVE Answers(u, l)'
    <3>1. u # t
      BY <1>0, <2>3 DEF Answers
    <3>2. QED
      BY <1>0, <1>3, <2>3, <3>1 DEF Answers
  <2>4. QED
    BY <1>0, <1>5, <1>9, <2>2, <2>3 DEF LedInv, LitAnswered, Stranded
<1>10. QED
  BY <1>0, <1>3, <1>6, <1>7, <1>8, <1>9 DEF LedInv

-----------------------------------------------------------------------------
\* A step that is taken leads behind its sequence only as long as the mutex is held.
LEMMA AdvanceInv ==
  ASSUME LedInv, NEW t \in Runners, Advance(t)
  PROVE  LedInv'
<1> DEFINE s == runner[t].sequence
           next == [runner[t] EXCEPT !.at = "act"]
<1>0. runner[t].at = "take" /\ ledseqMutex = "free" /\ ledseqMutex' = t
  BY DEF Advance
<1>1. /\ s \in Sequence /\ runner[t].led \in Leds /\ LedOf[s] = runner[t].led
      /\ runner[t] \in Stepping /\ runner[t].step \in Nat \ {0} /\ ledseqEnabled
  BY <1>0, Working
<1>2. /\ next \in Stepping /\ next.at = "act" /\ next.led = runner[t].led
      /\ next.sequence = s /\ next.step = runner[t].step
  BY <1>1 DEF Stepping
<1>3. /\ runner' = [runner EXCEPT ![t] = next]
      /\ ledState' = [ledState EXCEPT ![s] = ledState[s] + 1]
      /\ overtaken' = (overtaken \/ ledState[s] # runner[t].step)
      /\ UNCHANGED <<ledseqEnabled, activeSeq, lit, ledTimer, ledseqCmdQueue>>
  BY DEF Advance
<1> HIDE DEF next
<1>4. /\ MutexHeld'
      /\ runner' \in [Runners -> {Idle} \union Waiting \union Choosing \union Stepping]
      /\ ledseqMutex' \in Runners \union {"free"}
      /\ runner'[t] = next
      /\ \A u \in Runners : u # t =>
           runner'[u] = runner[u] /\ runner[u].at \notin {"choose", "act", "next"}
  BY <1>0, <1>1, <1>2, <1>3, HolderMoves
<1>5. ledState'[s] = ledState[s] + 1 /\ ledState[s] \in Nat
      /\ \A o \in Sequence : o # s => ledState'[o] = ledState[o]
  BY <1>1, <1>3 DEF LedInv, LedTyped
<1>6. LedTyped'
  <2>1. ledState' \in [Sequence -> Nat]
    BY <1>1, <1>3, <1>5 DEF LedInv, LedTyped
  <2>2. overtaken' \in BOOLEAN
    BY <1>3
  <2>3. QED
    BY <1>3, <1>4, <2>1, <2>2 DEF LedInv, LedTyped
<1>7. ASSUME ~overtaken' PROVE StatesInRange' /\ OrderKept' /\ LitAnswered'
  <2>1. ~overtaken /\ ledState[s] = runner[t].step
    BY <1>3, <1>7, Zenon
  <2>2. StatesInRange /\ OrderKept /\ LitAnswered
    BY <2>1 DEF LedInv
  <2>3. \A u \in Runners : runner[u].at # "act"
    BY <1>0, <1>4
  <2>4. next.step \in DOMAIN StepsOf[s] /\ ledState'[s] = next.step + 1
    BY <1>1, <1>2, <1>5, <2>1, <2>2, <2>3 DEF StatesInRange, Stop
  <2>5. StatesInRange'
    <3>1. ASSUME NEW o \in Sequence, ledState'[o] # Stop
          PROVE  \/ ledState'[o] \in DOMAIN StepsOf[o]
                 \/ \E u \in Runners : runner'[u].at = "act" /\ runner'[u].sequence = o
      BY <1>2, <1>4, <1>5, <2>2, <2>3, <3>1 DEF StatesInRange
    <3>2. ASSUME NEW u \in Runners, runner'[u].at = "act"
          PROVE  InBounds(runner'[u]) /\ ledState'[runner'[u].sequence] = runner'[u].step + 1
      BY <1>2, <1>4, <2>3, <2>4, <3>2 DEF InBounds
    <3>3. QED
      BY <3>1, <3>2 DEF StatesInRange
  <2>6. OrderKept'
    <3>1. \A l \in Leds : ~Chooses(l) /\ ~Chooses(l)'
      BY <1>0, <1>2, <1>4 DEF Chooses
    <3>2. \A l \in Leds : Highest(l, ledState) = Highest(l, ledState')
      BY <1>1, <1>5, <2>1, HighestSame DEF Stop
    <3>3. QED
      BY <1>3, <2>2, <3>1, <3>2 DEF OrderKept
  <2>7. LitAnswered'
    <3>1. ASSUME NEW l \in Leds, NEW u \in Runners, Answers(u, l) PROVE Answers(u, l)'
      <4>1. runner[u].at = "read" => runner[u].sequence \in Sequence
        BY Working
      <4>2. CASE u = t
        BY <1>2, <1>4, <3>1, <4>2 DEF Answers
      <4>3. CASE u # t
        BY <1>4, <1>5, <3>1, <4>1, <4>3 DEF Answers, Stop
      <4>4. QED
        BY <4>2, <4>3
    <3>2. QED
      BY <1>3, <2>2, <3>1 DEF LitAnswered, Stranded
  <2>8. QED
    BY <2>5, <2>6, <2>7
<1>8. QED
  BY <1>4, <1>6, <1>7 DEF LedInv

\* What is known of the runner that takes a step.
LEMMA Acting ==
  ASSUME LedInv, NEW t \in Runners, runner[t].at = "act"
  PROVE  /\ runner[t].sequence \in Sequence /\ runner[t].led \in Leds
         /\ LedOf[runner[t].sequence] = runner[t].led
         /\ runner[t] \in Stepping /\ ledseqEnabled /\ ledseqMutex = t
         /\ \A led \in Leds : ~Chooses(led)
         /\ ~overtaken =>
              ledState[runner[t].sequence] = runner[t].step + 1 /\ runner[t].step \in Nat \ {0}
<1>1. ledseqMutex = t
  BY DEF LedInv, MutexHeld
<1>2. \A led \in Leds : ~Chooses(led)
  BY <1>1, Alone DEF Chooses
<1>3. QED
  BY <1>1, <1>2, Working DEF LedInv, StatesInRange

\* A runner that gives the mutex back after a step.
LEMMA ActedMoves ==
  ASSUME LedInv, NEW t \in Runners, runner[t].at = "act", NEW at \in {"read", "next"},
         runner' = [runner EXCEPT ![t].at = at], UNCHANGED ledseqEnabled,
         ledseqMutex' = IF at = "next" THEN t ELSE "free"
  PROVE  /\ MutexHeld'
         /\ runner' \in [Runners -> {Idle} \union Waiting \union Choosing \union Stepping]
         /\ ledseqMutex' \in Runners \union {"free"}
         /\ runner'[t].at = at /\ runner'[t].led = runner[t].led
         /\ runner'[t].sequence = runner[t].sequence
         /\ \A u \in Runners : u # t =>
              runner'[u] = runner[u] /\ runner[u].at \notin {"choose", "act", "next"}
<1> DEFINE next == [runner[t] EXCEPT !.at = at]
<1>1. /\ next \in Stepping /\ next.at = at /\ next.led = runner[t].led
      /\ next.sequence = runner[t].sequence
  BY Acting DEF Stepping
<1>2. runner' = [runner EXCEPT ![t] = next]
  OBVIOUS
<1> HIDE DEF next
<1>3. QED
  BY <1>1, <1>2, Acting, HolderMoves DEF Runners

-----------------------------------------------------------------------------
\* A sequence that loops starts with its first step again.
LEMMA LoopInv ==
  ASSUME LedInv, NEW t \in Runners, Loop(t)
  PROVE  LedInv'
<1> DEFINE s == runner[t].sequence
<1>0. /\ runner[t].at = "act" /\ ledseqMutex' = "free"
      /\ runner' = [runner EXCEPT ![t].at = "read"]
      /\ ledState' = [ledState EXCEPT ![s] = 1]
      /\ UNCHANGED <<ledseqEnabled, activeSeq, lit, ledTimer, ledseqCmdQueue, overtaken>>
  BY DEF Loop
<1>1. /\ s \in Sequence /\ runner[t].led \in Leds /\ LedOf[s] = runner[t].led
      /\ \A l \in Leds : ~Chooses(l)
  BY <1>0, Acting
<1>2. /\ MutexHeld'
      /\ runner' \in [Runners -> {Idle} \union Waiting \union Choosing \union Stepping]
      /\ ledseqMutex' \in Runners \union {"free"}
      /\ runner'[t].at = "read" /\ runner'[t].led = runner[t].led /\ runner'[t].sequence = s
      /\ \A u \in Runners : u # t =>
           runner'[u] = runner[u] /\ runner[u].at \notin {"choose", "act", "next"}
  BY <1>0, ActedMoves
<1>3. ledState'[s] = 1 /\ \A o \in Sequence : o # s => ledState'[o] = ledState[o]
  BY <1>0, <1>1 DEF LedInv, LedTyped
<1>4. LedTyped'
  <2>1. ledState' \in [Sequence -> Nat]
    BY <1>0, <1>1 DEF LedInv, LedTyped
  <2>2. QED
    BY <1>0, <1>2, <2>1 DEF LedInv, LedTyped
<1>5. ASSUME ~overtaken PROVE StatesInRange' /\ OrderKept' /\ LitAnswered'
  <2>1. ledState[s] # Stop
    BY <1>0, <1>5, Acting DEF Stop
  <2>2. StatesInRange /\ OrderKept /\ LitAnswered
    BY <1>5 DEF LedInv
  <2>3. StatesInRange'
    <3>1. ASSUME NEW o \in Sequence, ledState'[o] # Stop
          PROVE  ledState'[o] \in DOMAIN StepsOf[o]
      <4>1. CASE o = s
        BY <1>3, <4>1, LedSeqAssumption
      <4>2. CASE o # s
        BY <1>2, <1>3, <2>2, <3>1, <4>2 DEF StatesInRange
      <4>3. QED
        BY <4>1, <4>2
    <3>2. \A u \in Runners : runner'[u].at # "act"
      BY <1>2
    <3>3. QED
      BY <3>1, <3>2 DEF StatesInRange
  <2>4. OrderKept'
    <3>1. \A l \in Leds : ~Chooses(l)'
      BY <1>2 DEF Chooses
    <3>2. \A l \in Leds : Highest(l, ledState) = Highest(l, ledState')
      BY <1>3, <2>1, HighestSame DEF Stop
    <3>3. QED
      BY <1>0, <1>1, <2>2, <3>1, <3>2 DEF OrderKept
  <2>5. LitAnswered'
    <3>1. ASSUME NEW l \in Leds, NEW u \in Runners, Answers(u, l) PROVE Answers(u, l)'
      <4>1. runner[u].at = "read" => runner[u].sequence \in Sequence
        BY Working
      <4>2. CASE u = t
        BY <1>2, <1>3, <3>1, <4>2 DEF Answers, Stop
      <4>3. CASE u # t
        BY <1>2, <1>3, <3>1, <4>1, <4>3 DEF Answers, Stop
      <4>4. QED
        BY <4>2, <4>3
    <3>2. QED
      BY <1>0, <2>2, <3>1 DEF LitAnswered, Stranded
  <2>6. QED
    BY <2>3, <2>4, <2>5
<1>6. QED
  BY <1>0, <1>2, <1>4, <1>5 DEF LedInv

\* A sequence that stops leaves its LED dark and to its runner.
LEMMA StopInv ==
  ASSUME LedInv, NEW t \in Runners, StopSequence(t)
  PROVE  LedInv'
<1> DEFINE s == runner[t].sequence
           led == runner[t].led
<1>0. /\ runner[t].at = "act"
      /\ runner' = [runner EXCEPT ![t].at = "next"]
      /\ ledState' = [ledState EXCEPT ![s] = Stop]
      /\ activeSeq' = [activeSeq EXCEPT ![led] = NoSequence]
      /\ lit' = [lit EXCEPT ![led] = FALSE]
      /\ UNCHANGED <<ledseqEnabled, ledTimer, ledseqMutex, ledseqCmdQueue, overtaken>>
  BY DEF StopSequence, ClearActive
<1>1. /\ s \in Sequence /\ led \in Leds /\ LedOf[s] = led /\ ledseqMutex = t
      /\ \A l \in Leds : ~Chooses(l)
  BY <1>0, Acting
<1>2. /\ MutexHeld'
      /\ runner' \in [Runners -> {Idle} \union Waiting \union Choosing \union Stepping]
      /\ ledseqMutex' \in Runners \union {"free"}
      /\ runner'[t].at = "next" /\ runner'[t].led = led /\ runner'[t].sequence = s
      /\ \A u \in Runners : u # t =>
           runner'[u] = runner[u] /\ runner[u].at \notin {"choose", "act", "next"}
  BY <1>0, <1>1, ActedMoves
<1>3. /\ ledState'[s] = Stop /\ \A o \in Sequence : o # s => ledState'[o] = ledState[o]
      /\ activeSeq'[led] = NoSequence /\ ~lit'[led]
      /\ \A l \in Leds : l # led => activeSeq'[l] = activeSeq[l] /\ lit'[l] = lit[l]
  BY <1>0, <1>1 DEF LedInv, LedTyped
<1>4. LedTyped'
  <2>1. ledState' \in [Sequence -> Nat]
    BY <1>0, <1>1 DEF LedInv, LedTyped, Stop
  <2>2. activeSeq' \in [Leds -> Sequence \union {NoSequence}]
        /\ \A l \in Leds : activeSeq'[l] # NoSequence => LedOf[activeSeq'[l]] = l
    BY <1>0, <1>1 DEF LedInv, LedTyped
  <2>3. lit' \in [Leds -> BOOLEAN]
    BY <1>0, <1>1 DEF LedInv, LedTyped
  <2>4. QED
    BY <1>0, <1>2, <2>1, <2>2, <2>3 DEF LedInv, LedTyped
<1>5. ASSUME ~overtaken PROVE StatesInRange' /\ OrderKept' /\ LitAnswered'
  <2>1. StatesInRange /\ OrderKept /\ LitAnswered
    BY <1>5 DEF LedInv
  <2>2. StatesInRange'
    <3>1. ASSUME NEW o \in Sequence, ledState'[o] # Stop
          PROVE  ledState'[o] \in DOMAIN StepsOf[o]
      BY <1>2, <1>3, <2>1, <3>1 DEF StatesInRange
    <3>2. \A u \in Runners : runner'[u].at # "act"
      BY <1>2
    <3>3. QED
      BY <3>1, <3>2 DEF StatesInRange
  <2>3. ASSUME NEW l \in Leds
        PROVE  /\ Chooses(l)' => activeSeq'[l] = NoSequence
               /\ ~Chooses(l)' => activeSeq'[l] = Highest(l, ledState')
    <3>1. CASE l = led
      <4>1. Chooses(l)'
        BY <1>2, <3>1 DEF Chooses
      <4>2. QED
        BY <1>3, <3>1, <4>1
    <3>2. CASE l # led
      <4>1. ~Chooses(l)'
        BY <1>2, <3>2 DEF Chooses
      <4>2. Highest(l, ledState) = Highest(l, ledState')
        BY <1>1, <1>3, <3>2, HighestSame
      <4>3. QED
        BY <1>1, <1>3, <2>1, <3>2, <4>1, <4>2 DEF OrderKept
    <3>3. QED
      BY <3>1, <3>2
  <2>4. LitAnswered'
    <3>1. ASSUME NEW l \in Leds, l # led, NEW u \in Runners, Answers(u, l) PROVE Answers(u, l)'
      <4>1. u # t
        BY <3>1 DEF Answers
      <4>2. runner[u].at = "read" =>
              runner[u].sequence \in Sequence /\ LedOf[runner[u].sequence] = runner[u].led
        BY Working
      <4>3. QED
        BY <1>1, <1>2, <1>3, <3>1, <4>1, <4>2 DEF Answers, Stop
    <3>2. QED
      BY <1>0, <1>3, <2>1, <3>1 DEF LitAnswered, Stranded
  <2>5. QED
    BY <2>2, <2>3, <2>4 DEF OrderKept
<1>6. QED
  BY <1>0, <1>2, <1>4, <1>5 DEF LedInv

\* A timer that is commanded starts, or else the loss is recorded.
LEMMA CommandTyped ==
  ASSUME NEW led \in Leds, CommandTimer(led),
         ledTimer \in [Leds -> [runs : BOOLEAN, commanded : BOOLEAN, lost : BOOLEAN]]
  PROVE  /\ ledTimer' \in [Leds -> [runs : BOOLEAN, commanded : BOOLEAN, lost : BOOLEAN]]
         /\ ~Stranded(led)'
<1> DEFINE Timer == [runs : BOOLEAN, commanded : BOOLEAN, lost : BOOLEAN]
           old == ledTimer[led]
<1>1. old \in Timer
  OBVIOUS
<1>2. CASE ledTimer' = [ledTimer EXCEPT ![led] = [runs |-> @.runs, commanded |-> TRUE, lost |-> FALSE]]
  <2> DEFINE new == [runs |-> old.runs, commanded |-> TRUE, lost |-> FALSE]
  <2>1. new \in Timer /\ new.commanded
    BY <1>1
  <2>2. ledTimer' \in [Leds -> Timer] /\ ledTimer'[led] = new
    BY <1>2, <2>1
  <2>3. QED
    BY <2>1, <2>2 DEF Stranded
<1>3. CASE ledTimer' = [ledTimer EXCEPT ![led].lost = ~ledTimer[led].runs /\ ~ledTimer[led].commanded]
  <2> DEFINE nothing == ~old.runs /\ ~old.commanded
             new == [old EXCEPT !.lost = nothing]
  <2>1. new = [runs |-> old.runs, commanded |-> old.commanded, lost |-> nothing]
    BY <1>1
  <2>2. new \in Timer /\ new.runs = old.runs /\ new.commanded = old.commanded /\ new.lost = nothing
    BY <1>1, <2>1
  <2>3. ledTimer' \in [Leds -> Timer] /\ ledTimer'[led] = new
    BY <1>3, <2>2
  <2>4. QED
    BY <2>2, <2>3 DEF Stranded
<1>4. QED
  BY <1>2, <1>3 DEF CommandTimer

\* A lit LED gets its timer, or its runner goes on.
LEMMA SwitchInv ==
  ASSUME LedInv, NEW t \in Runners, SwitchLed(t)
  PROVE  LedInv'
<1> DEFINE s == runner[t].sequence
           led == runner[t].led
<1>0. /\ runner[t].at = "act" /\ InBounds(runner[t]) /\ ledseqMutex' = "free"
      /\ StepOf(runner[t]).action \in {"wait", "go_on"}
      /\ lit' = [lit EXCEPT ![led] = StepOf(runner[t]).value]
      /\ UNCHANGED <<ledseqEnabled, ledState, activeSeq, ledseqCmdQueue, overtaken>>
  BY DEF SwitchLed
<1>1. /\ s \in Sequence /\ led \in Leds /\ LedOf[s] = led /\ ledseqEnabled
      /\ \A l \in Leds : ~Chooses(l)
  BY <1>0, Acting
<1>2. \/ /\ runner' = [runner EXCEPT ![t] = Idle]
         /\ CommandTimer(led)
      \/ /\ runner' = [runner EXCEPT ![t].at = "read"]
         /\ ledTimer' = ledTimer
  BY DEF SwitchLed
<1>3. /\ MutexHeld'
      /\ runner' \in [Runners -> {Idle} \union Waiting \union Choosing \union Stepping]
      /\ ledseqMutex' \in Runners \union {"free"}
      /\ runner'[t].at \in {"idle", "read"}
      /\ runner'[t].at = "read" => runner'[t].led = led /\ runner'[t].sequence = s
      /\ \A u \in Runners : u # t =>
           runner'[u] = runner[u] /\ runner[u].at \notin {"choose", "act", "next"}
  <2>1. CASE runner' = [runner EXCEPT ![t] = Idle]
    <3>1. Idle.at = "idle" /\ ledseqMutex = t
      BY <1>0, Acting DEF Idle
    <3>2. QED
      BY <1>0, <2>1, <3>1, HolderMoves DEF Runners
  <2>2. CASE runner' = [runner EXCEPT ![t].at = "read"]
    BY <1>0, <2>2, ActedMoves
  <2>3. QED
    BY <1>2, <2>1, <2>2
<1>4. LedTyped'
  <2>1. StepOf(runner[t]) \in Step
    BY <1>0, <1>1, LedSeqAssumption DEF StepOf, InBounds
  <2>2. lit' \in [Leds -> BOOLEAN]
    BY <1>0, <1>1, <2>1 DEF LedInv, LedTyped, Step
  <2>3. ledTimer' \in [Leds -> [runs : BOOLEAN, commanded : BOOLEAN, lost : BOOLEAN]]
    <3>1. ledTimer \in [Leds -> [runs : BOOLEAN, commanded : BOOLEAN, lost : BOOLEAN]]
      BY DEF LedInv, LedTyped
    <3>2. CASE CommandTimer(led)
      BY <1>1, <3>1, <3>2, CommandTyped
    <3>3. QED
      BY <1>2, <3>1, <3>2
  <2>4. QED
    BY <1>0, <1>3, <2>2, <2>3 DEF LedInv, LedTyped
<1>5. ASSUME ~overtaken PROVE StatesInRange' /\ OrderKept' /\ LitAnswered'
  <2>1. StatesInRange /\ OrderKept /\ LitAnswered
    BY <1>5 DEF LedInv
  <2>2. ledState[s] = runner[t].step + 1 /\ runner[t].step \in Nat \ {0}
    BY <1>0, <1>5, Acting
  <2>3. ledState[s] \in DOMAIN StepsOf[s]
    <3>1. /\ StepsOf[s] \in Seq(Step) /\ runner[t].step \in 1 .. Len(StepsOf[s])
          /\ StepsOf[s][Len(StepsOf[s])].action \in {"loop", "stop"}
          /\ StepsOf[s][runner[t].step].action \in {"wait", "go_on"}
      BY <1>0, <1>1, LedSeqAssumption DEF InBounds, StepOf
    <3>2. runner[t].step # Len(StepsOf[s])
      BY <3>1
    <3>3. QED
      BY <2>2, <3>1, <3>2
  <2>4. StatesInRange'
    <3>1. ASSUME NEW o \in Sequence, ledState'[o] # Stop
          PROVE  ledState'[o] \in DOMAIN StepsOf[o]
      BY <1>0, <1>3, <2>1, <2>3, <3>1 DEF StatesInRange
    <3>2. \A u \in Runners : runner'[u].at # "act"
      BY <1>3
    <3>3. QED
      BY <3>1, <3>2 DEF StatesInRange
  <2>5. OrderKept'
    <3>1. \A l \in Leds : ~Chooses(l)'
      BY <1>3 DEF Chooses
    <3>2. QED
      BY <1>0, <1>1, <2>1, <3>1 DEF OrderKept
  <2>6. ASSUME NEW l \in Leds, l = led
        PROVE  activeSeq[l] # NoSequence
    <3>1. PICK i \in DOMAIN Registered : Registered[i] = s
      BY <1>1, Numbered
    <3>2. i \in Running(l, ledState)
      BY <1>1, <2>2, <2>6, <3>1 DEF Running, Stop
    <3>3. Highest(l, ledState) \in Sequence
      BY <3>2, HighestIsFirst, Numbers DEF Running
    <3>4. QED
      BY <1>1, <2>1, <3>3, LedSeqAssumption DEF OrderKept
  <2>7. ASSUME NEW l \in Leds, l = led
        PROVE  ~Stranded(l)' \/ Answers(t, l)'
    <3>1. CASE CommandTimer(led)
      BY <1>1, <2>7, <3>1, CommandTyped DEF LedInv, LedTyped
    <3>2. CASE runner' = [runner EXCEPT ![t].at = "read"]
      <4>1. runner'[t].at = "read"
        BY <1>0, <3>2, ActedMoves
      <4>2. QED
        BY <1>0, <1>3, <2>2, <2>7, <4>1 DEF Answers, Stop
    <3>3. QED
      BY <1>2, <3>1, <3>2
  <2>8. ASSUME NEW l \in Leds, l # led
        PROVE  lit'[l] = lit[l] /\ ledTimer'[l] = ledTimer[l]
    BY <1>0, <1>1, <1>2, <2>8 DEF LedInv, LedTyped, CommandTimer
  <2>9. ASSUME NEW l \in Leds, l # led, NEW u \in Runners, Answers(u, l) PROVE Answers(u, l)'
    <3>1. u # t
      BY <2>9 DEF Answers
    <3>2. QED
      BY <1>0, <1>3, <2>9, <3>1 DEF Answers
  <2>10. ASSUME NEW l \in Leds, lit'[l]
         PROVE  /\ ledseqEnabled' /\ activeSeq'[l] # NoSequence
                /\ ~Stranded(l)' \/ \E u \in Runners : Answers(u, l)'
    <3>1. ledseqEnabled'
      BY <1>0, <1>1
    <3>2. CASE l = led
      BY <1>0, <2>6, <2>7, <3>1, <3>2
    <3>3. CASE l # led
      BY <1>0, <2>1, <2>8, <2>9, <2>10, <3>1, <3>3 DEF LitAnswered, Stranded
    <3>4. QED
      BY <3>2, <3>3
  <2>11. LitAnswered'
    BY <2>10 DEF LitAnswered, Stranded
  <2>12. QED
    BY <2>4, <2>5, <2>11
<1>6. QED
  BY <1>0, <1>3, <1>4, <1>5 DEF LedInv

-----------------------------------------------------------------------------
(* Every step *)

\* The two runners and the timers keep the invariant.
LEMMA LedStepInv ==
  ASSUME LedInv, LedStep
  PROVE  LedInv'
<1>1. CASE CmdStep
  <2>1. "ledseqcmd" \in Runners
    BY DEF Runners
  <2>2. QED
    BY <1>1, <2>1, LookInv, ResetSequenceInv, ChooseInv DEF CmdStep
<1>2. ASSUME NEW t \in Runners, RunStep(t) PROVE LedInv'
  BY <1>2, LookInv, AdvanceInv, LoopInv, StopInv, ChooseInv, SwitchInv DEF RunStep
<1>3. ASSUME NEW led \in Leds, TimerStep(led) PROVE LedInv'
  BY <1>3, TimerInv
<1>4. QED
  BY <1>1, <1>2, <1>3 DEF LedStep

\* A sequence that is shown is appended to the queue or dropped.
LEMMA ShowInv ==
  ASSUME LedInv, NEW s \in Sequence, Show(s),
         UNCHANGED <<ledseqEnabled, ledState, activeSeq, lit, ledTimer, ledseqMutex, runner, overtaken>>
  PROVE  LedInv'
<1>1. ledseqCmdQueue' \in Seq(Sequence)
  BY DEF Show, LedInv, LedTyped
<1>2. QED
  BY <1>1, CallersInv

-----------------------------------------------------------------------------
(* The crashes *)

AssertTested == {"verdict", "refused"} \union Started
WatchdogTested == {"assertTest"} \union AssertTested

\* The mark of the last crash lasts until its test, and the test's result after it
MarksLast ==
  /\ {pass, snapshot, iwdgFlag} \subseteq BOOLEAN
  /\ crash \in {"none", "assert", "watchdog"}
  /\ crash = "assert" => IF phase \in AssertTested THEN ~pass ELSE snapshot
  /\ crash = "watchdog" => IF phase \in WatchdogTested THEN ~pass ELSE iwdgFlag
  /\ phase \in Started => pass

\* At the start there has been no crash.
LEMMA MarksInit == BootInit => MarksLast
  BY DEF BootInit, MarksLast, Started

\* No step of the system task forgets a mark or a result.
LEMMA MarksSystem ==
  ASSUME MarksLast, SystemStep
  PROVE  MarksLast'
<1> USE DEF MarksLast, WatchdogTested, AssertTested, Started
<1>1. CASE SystemInit \/ SystemTest
  BY <1>1 DEF SystemInit, SystemTest
<1>2. CASE MoreTests
  BY <1>2 DEF MoreTests
<1>3. CASE WatchdogNormalStartTest
  BY <1>3 DEF WatchdogNormalStartTest
<1>4. CASE CfAssertNormalStartTest
  BY <1>4 DEF CfAssertNormalStartTest
<1>5. CASE SystemStart \/ ShowAlive \/ ShowPassed
  BY <1>5 DEF SystemStart, ShowAlive, ShowPassed
<1>6. CASE SystemRefuse \/ ShowFailure
  BY <1>6 DEF SystemRefuse, ShowFailure, bootVars
<1>7. QED
  BY <1>1, <1>2, <1>3, <1>4, <1>5, <1>6 DEF SystemStep

\* A reset records what it came from.
LEMMA MarksReset ==
  ASSUME MarksLast, AssertFail \/ WatchdogBites \/ Restart \/ PowerCycle
  PROVE  MarksLast'
  BY DEF MarksLast, WatchdogTested, AssertTested, Started, AssertFail, WatchdogBites, Restart,
     PowerCycle, Reset

\* A vehicle that a crash has reset does not start before its user resets it.
THEOREM CrashesGround == BootSpec => []CrashGrounds
<1>1. MarksLast /\ [BootNext]_allVars => MarksLast'
  <2>1. ASSUME MarksLast, UNCHANGED bootVars
        PROVE  MarksLast'
    BY <2>1 DEF MarksLast, bootVars
  <2>2. ASSUME MarksLast, NEW s \in LinkSequences, LinkShows(s)
        PROVE  MarksLast'
    BY <2>2 DEF MarksLast, LinkShows
  <2>3. QED
    BY <2>1, <2>2, MarksSystem, MarksReset DEF BootNext, allVars
<1>2. MarksLast => CrashGrounds
  BY DEF MarksLast, CrashGrounds, WatchdogTested, AssertTested
<1>3. QED
  BY <1>1, <1>2, MarksInit, PTL DEF BootSpec

-----------------------------------------------------------------------------
(* The LEDs through boots and crashes *)

\* No step of the system task, of a link or of a crash disturbs the LEDs.
LEMMA LedBootInv ==
  ASSUME LedInv, [BootNext]_allVars
  PROVE  LedInv'
<1>0. {"testPassed", "testFailed", "alive"} \union LinkSequences \subseteq Sequence
  BY BootAssumption
<1>1. ASSUME UNCHANGED ledVars PROVE LedInv'
  <2>1. UNCHANGED <<ledState, activeSeq, lit, ledTimer, ledseqMutex, runner, overtaken>>
        /\ ledseqCmdQueue' = ledseqCmdQueue /\ ledseqEnabled' = ledseqEnabled
    BY <1>1 DEF ledVars
  <2>2. QED
    BY <2>1, CallersInv DEF LedInv, LedTyped
<1>2. CASE SystemStep
  <2>1. CASE SystemInit \/ MoreTests \/ WatchdogNormalStartTest \/ CfAssertNormalStartTest \/ SystemStart
    BY <1>1, <2>1 DEF SystemInit, MoreTests, WatchdogNormalStartTest, CfAssertNormalStartTest,
       SystemStart
  <2>2. CASE SystemTest \/ SystemRefuse
    BY <2>2, CallersInv DEF SystemTest, SystemRefuse, LedInv, LedTyped
  <2>3. CASE ShowAlive \/ ShowPassed \/ ShowFailure
    BY <1>0, <2>3, ShowInv DEF ShowAlive, ShowPassed, ShowFailure, LedUnchangedButQueue
  <2>4. QED
    BY <1>2, <2>1, <2>2, <2>3 DEF SystemStep
<1>3. ASSUME NEW s \in LinkSequences, LinkShows(s) PROVE LedInv'
  BY <1>0, <1>3, ShowInv DEF LinkShows, LedUnchangedButQueue
<1>4. CASE AssertFail \/ WatchdogBites \/ Restart \/ PowerCycle
  BY <1>4, StoppedInv DEF AssertFail, WatchdogBites, Restart, PowerCycle, Reset
<1>5. CASE UNCHANGED allVars
  BY <1>1, <1>5 DEF allVars
<1>6. QED
  BY <1>2, <1>3, <1>4, <1>5, LedStepInv DEF BootNext

\* Unless a state has been overtaken, the LEDs keep the order of their sequences,
\* for any sequences that end in a loop or a stop, and no LED is left lit alone.
THEOREM LedsOrdered == BootSpec => []LedsKeepOrder
<1>1. BootInit => LedInv
  BY StoppedInv DEF BootInit
<1>2. LedInv /\ [BootNext]_allVars => LedInv'
  BY LedBootInv
<1>3. QED
  BY <1>1, <1>2, LedInvOrder, PTL DEF BootSpec
=============================================================================
