-------------------------------- MODULE Boot --------------------------------
(***************************************************************************)
(* The boot of system.cpp, its self-test and its end in a crash, composed  *)
(* with the LED sequences that show its outcome.                           *)
(*                                                                         *)
(* A flag of the clock controller and a snapshot in memory that no start   *)
(* clears tell the next boot of a crash.  The tasks that can fail an       *)
(* assertion run before the system task, so failing is one step.  Of the   *)
(* tests, those that only look whether an initialisation has run are left  *)
(* out, as it has, and so is the show of the LEDs.                         *)
(***************************************************************************)
EXTENDS LedSeq

CONSTANTS
  LinkSequences,    \* the sequences that the links show
  MaxShown,         \* bound on their number
  MaxResets         \* bound on the resets

ASSUME BootAssumption ==
  /\ {"testPassed", "testFailed", "alive"} \subseteq Sequence
  /\ LinkSequences \subseteq Sequence
  /\ MaxShown \in Nat /\ MaxResets \in Nat

VARIABLES
  phase,            \* where the system task is
  pass,             \* no test has failed yet
  watchdog,         \* the independent watchdog runs
  iwdgFlag,         \* the reset flag of the watchdog in the RCC
  snapshot,         \* the magic number is in the snapshot
  crash,            \* what the last reset came from: an assertion, the watchdog, or none
  shown, resets

bootVars == <<phase, pass, watchdog, iwdgFlag, snapshot, crash, shown, resets>>
allVars == <<ledVars, bootVars>>

Started == {"showAlive", "showPassed", "started"}

LedUnchangedButQueue ==
  UNCHANGED <<ledseqEnabled, ledState, activeSeq, lit, ledTimer, ledseqMutex, runner, overtaken>>

-----------------------------------------------------------------------------
(* The system task *)

\* Up to uartslkEnableIncoming(): the queues and the tasks exist
SystemInit ==
  /\ phase = "init"
  /\ phase' = "systemTest"
  /\ UNCHANGED <<ledVars, pass, watchdog, iwdgFlag, snapshot, crash, shown, resets>>

\* systemTest() enables the LED sequences
SystemTest ==
  /\ phase = "systemTest"
  /\ ledseqEnabled' = TRUE
  /\ phase' = "moreTests"
  /\ UNCHANGED <<ledState, activeSeq, lit, ledTimer, ledseqMutex, ledseqCmdQueue, runner, overtaken,
                 pass, watchdog, iwdgFlag, snapshot, crash, shown, resets>>

\* The EEPROM, the storage and the core task may be found unfit
MoreTests ==
  /\ phase = "moreTests"
  /\ pass' \in {pass, FALSE}
  /\ phase' = "watchdogTest"
  /\ UNCHANGED <<ledVars, watchdog, iwdgFlag, snapshot, crash, shown, resets>>

WatchdogNormalStartTest ==
  /\ phase = "watchdogTest"
  /\ pass' = (pass /\ ~iwdgFlag)
  /\ iwdgFlag' = FALSE
  /\ phase' = "assertTest"
  /\ UNCHANGED <<ledVars, watchdog, snapshot, crash, shown, resets>>

\* Fault: the result of the last test is the result of all
OnlyAssertTest ==
  /\ phase = "assertTest"
  /\ pass' = ~snapshot
  /\ snapshot' = FALSE
  /\ phase' = "verdict"
  /\ UNCHANGED <<ledVars, watchdog, iwdgFlag, crash, shown, resets>>

CfAssertNormalStartTest ==
  /\ phase = "assertTest"
  /\ pass' = (pass /\ ~snapshot)
  /\ snapshot' = FALSE
  /\ phase' = "verdict"
  /\ UNCHANGED <<ledVars, watchdog, iwdgFlag, crash, shown, resets>>

\* systemStart() lets the tasks go and starts the watchdog
SystemStart ==
  /\ phase = "verdict" /\ pass
  /\ phase' = "showAlive"
  /\ watchdog' = TRUE
  /\ UNCHANGED <<ledVars, pass, iwdgFlag, snapshot, crash, shown, resets>>

\* ledseqShowSuccess()
ShowAlive ==
  /\ phase = "showAlive"
  /\ Show("alive")
  /\ phase' = "showPassed"
  /\ LedUnchangedButQueue
  /\ UNCHANGED <<pass, watchdog, iwdgFlag, snapshot, crash, shown, resets>>

ShowPassed ==
  /\ phase = "showPassed"
  /\ Show("testPassed")
  /\ phase' = "started"
  /\ LedUnchangedButQueue
  /\ UNCHANGED <<pass, watchdog, iwdgFlag, snapshot, crash, shown, resets>>

\* Fault: the LED sequences are enabled with the result of the tests
RefuseDisablesLeds ==
  /\ phase = "verdict" /\ ~pass
  /\ ledseqEnabled' = pass
  /\ phase' = "refused"
  /\ UNCHANGED <<ledState, activeSeq, lit, ledTimer, ledseqMutex, ledseqCmdQueue, runner, overtaken,
                 pass, watchdog, iwdgFlag, snapshot, crash, shown, resets>>

\* systemTest() once more
SystemRefuse ==
  /\ phase = "verdict" /\ ~pass
  /\ ledseqEnabled' = TRUE
  /\ phase' = "refused"
  /\ UNCHANGED <<ledState, activeSeq, lit, ledTimer, ledseqMutex, ledseqCmdQueue, runner, overtaken,
                 pass, watchdog, iwdgFlag, snapshot, crash, shown, resets>>

\* ledseqShowFailure(), every two seconds: nothing sets selftestPassed
ShowFailure ==
  /\ phase = "refused"
  /\ Show("testFailed")
  /\ LedUnchangedButQueue
  /\ UNCHANGED bootVars

SystemStep ==
  \/ SystemInit \/ SystemTest \/ MoreTests \/ WatchdogNormalStartTest \/ CfAssertNormalStartTest
  \/ SystemStart \/ ShowAlive \/ ShowPassed \/ SystemRefuse \/ ShowFailure

-----------------------------------------------------------------------------
(* The other tasks *)

LinkShows(s) ==
  /\ phase # "init" /\ shown < MaxShown
  /\ shown' = shown + 1
  /\ Show(s)
  /\ LedUnchangedButQueue
  /\ UNCHANGED <<phase, pass, watchdog, iwdgFlag, snapshot, crash, resets>>

-----------------------------------------------------------------------------
(* Crashes and resets *)

Reset ==
  /\ resets < MaxResets /\ resets' = resets + 1
  /\ phase' = "init" /\ pass' = TRUE
  /\ watchdog' = FALSE
  /\ ResetLeds
  /\ UNCHANGED shown

\* assertFail()
AssertFail ==
  /\ snapshot' = TRUE /\ crash' = "assert"
  /\ Reset
  /\ UNCHANGED iwdgFlag

\* The handlers of faults, of a full heap and of a stack's overflow store a
\* snapshot and spin; a task that takes all the time stores none.  The idle task,
\* which feeds the watchdog, starves.  Without the watchdog the vehicle stays as
\* it is until its power is cut.
WatchdogBites ==
  /\ watchdog
  /\ iwdgFlag' = TRUE /\ crash' = "watchdog"
  /\ snapshot' \in {snapshot, TRUE}
  /\ Reset

\* The client has the boot loader entered, which returns with a reset
Restart ==
  /\ crash' = "none"
  /\ Reset
  /\ UNCHANGED <<iwdgFlag, snapshot>>

PowerCycle ==
  /\ iwdgFlag' = FALSE /\ snapshot' = FALSE /\ crash' = "none"
  /\ Reset

-----------------------------------------------------------------------------
(* The specification *)

BootInit ==
  /\ LedInit
  /\ phase = "init" /\ pass = TRUE
  /\ watchdog = FALSE
  /\ iwdgFlag = FALSE /\ snapshot = FALSE /\ crash = "none"
  /\ shown = 0 /\ resets = 0

BootNext ==
  \/ SystemStep
  \/ \E s \in LinkSequences : LinkShows(s)
  \/ LedStep /\ UNCHANGED bootVars
  \/ AssertFail \/ WatchdogBites \/ Restart \/ PowerCycle

BootSpec == BootInit /\ [][BootNext]_allVars

\* Every task gets its turn while none spins and no reset comes, the mutex goes to whoever waits for
\* it, and the timer task takes the timers in the order in which they expire
BootFairSpec ==
  /\ BootSpec
  /\ WF_allVars(SystemStep)
  /\ SF_allVars(CmdStep /\ UNCHANGED bootVars)
  /\ \A t \in Runners : SF_allVars(RunStep(t) /\ UNCHANGED bootVars)
  /\ \A led \in Leds : SF_allVars(TimerStep(led) /\ UNCHANGED bootVars)

-----------------------------------------------------------------------------
(* Properties *)

\* A vehicle whose last reset came from a failed assertion or from the watchdog
\* does not start, however its crashes and boots have followed one another: it
\* takes a reset by its user.
CrashGrounds == phase \in Started => crash = "none"

\* As long as the boot is refused, the LED of the failure lights up again and
\* again, though a full queue drops the sequence and the links show theirs.
RefusalIsShown ==
  phase = "refused" ~> lit[LedOf["testFailed"]] \/ overtaken \/ phase # "refused"

\* No sequence leaves its LED lit: each switches it off again, through its timer,
\* whatever other sequences the system and the links show meanwhile, unless the
\* command to that timer was lost.
LedsGoDark ==
  \A led \in Leds : lit[led] ~> ~lit[led] \/ overtaken \/ ledTimer[led].lost
=============================================================================
