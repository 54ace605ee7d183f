------------------------------ MODULE Syslink ------------------------------
(***************************************************************************)
(* The serial link to the nRF51: syslinkSendPacket() and the SYSLINK task  *)
(* of tasks/syslink.cpp over hal/uart_syslink.cpp, whose transmit stream   *)
(* the nRF51 pauses with a pin.                                            *)
(*                                                                         *)
(* The pin's interrupt preempts everything, even the stream's interrupt    *)
(* and critical sections; every interrupt preempts the tasks.  The stream  *)
(* and the pin go on by themselves, also between two instructions of the   *)
(* pin's interrupt.  Packets are numbered in the order of their sends.     *)
(***************************************************************************)
EXTENDS Integers, FiniteSets

CONSTANTS
  SyslinkTask,      \* the task that receives packets and answers them
  OtherSenders,     \* the other tasks that call syslinkSendPacket()
  MaxPackets,       \* bound on the packets that are sent
  SizeOf,           \* their sizes
  RxQueueSize,      \* the length of the receive queue
  MaxReceived,      \* bound on the packets that come in
  MaxPauses         \* bound on the times that the nRF51 asks for a pause

ASSUME SyslinkAssumption ==
  /\ {MaxPackets, MaxReceived, MaxPauses} \subseteq Nat
  /\ SizeOf \in [1 .. MaxPackets -> Nat \ {0}]
  /\ RxQueueSize \in Nat \ {0}
  /\ SyslinkTask \notin OtherSenders /\ IsFiniteSet(OtherSenders)

Senders == OtherSenders \union {SyslinkTask}

VARIABLES
  at,                             \* where each sender is
  syslinkAccess, uartBusy,        \* the binary semaphores: TRUE when free
  waitUntilSendDone,
  sendBuffer, dmaTXBuffer,        \* the packets whose bytes they hold
  initialDMACount, remainingDMACount, dmaIsPaused,
  dmaNrfFlowControlBufferFull,
  flowIsr,                        \* where the pin's interrupt handler is
  rxQueue,                        \* the number of packets in the receive queue
  queueReadyToReceive,
  halted                          \* an ASSERT has failed

\* The hardware
VARIABLES
  stream,                         \* DMA2 stream 7: EN, TCIE, TCIF, NDTR, and the
                                  \* place in dmaTXBuffer of the next byte
  dmaRequests,                    \* the UART asks the stream for bytes
  dmaIrq,                         \* the stream's interrupt is pending
  txen,                           \* the pin's level
  edge,                           \* the pin's interrupt is pending
  line                            \* the last byte on the line: its packet and place

\* What has happened
VARIABLES
  sent, received, pauses,
  raced                           \* the stream has ended under the pin's handler

taskVars     == <<at, syslinkAccess, uartBusy, sendBuffer>>
bufferVars   == <<dmaTXBuffer, initialDMACount>>
flowVars     == <<remainingDMACount, dmaIsPaused, dmaNrfFlowControlBufferFull, flowIsr>>
rxVars       == <<rxQueue, queueReadyToReceive, halted, received>>
streamVars   == <<stream, dmaRequests, dmaIrq, line>>
pinVars      == <<txen, edge, pauses>>
syslinkVars  == <<taskVars, waitUntilSendDone, bufferVars, flowVars, rxVars, streamVars,
                  pinVars, sent, raced>>

InterruptsDone == ~halted /\ flowIsr = "idle" /\ ~edge
TasksRun == InterruptsDone /\ ~dmaIrq

\* The stream's interrupt is raised when both its flag and its enable bit are set
Raises(s) == s.tcif /\ s.tcie

-----------------------------------------------------------------------------
(* The hardware *)

\* A byte goes to the UART; the last one ends the stream
DmaByte ==
  /\ ~halted /\ stream.enabled /\ dmaRequests /\ stream.count > 0
  /\ line' = <<dmaTXBuffer, stream.next>>
  /\ stream' = [stream EXCEPT !.count = @ - 1, !.next = @ + 1,
                              !.enabled = stream.count > 1, !.tcif = stream.count = 1]
  /\ dmaIrq' = (dmaIrq \/ Raises(stream'))
  /\ UNCHANGED <<taskVars, waitUntilSendDone, bufferVars, flowVars, rxVars, dmaRequests,
                 pinVars, sent, raced>>

\* The nRF51's buffer is full, or has room again
PinRises ==
  /\ ~halted /\ ~txen /\ pauses < MaxPauses
  /\ txen' = TRUE /\ edge' = TRUE /\ pauses' = pauses + 1
  /\ UNCHANGED <<taskVars, waitUntilSendDone, bufferVars, flowVars, rxVars, streamVars,
                 sent, raced>>

PinFalls ==
  /\ ~halted /\ txen
  /\ txen' = FALSE /\ edge' = TRUE
  /\ UNCHANGED <<taskVars, waitUntilSendDone, bufferVars, flowVars, rxVars, streamVars,
                 pauses, sent, raced>>

-----------------------------------------------------------------------------
(* The pin's interrupt: uartslkTxenFlowctrlIsr() *)

FlowctrlIsr ==
  /\ ~halted /\ flowIsr = "idle" /\ edge
  /\ edge' = FALSE
  /\ flowIsr' = "entered"
  /\ UNCHANGED <<taskVars, waitUntilSendDone, bufferVars, remainingDMACount, dmaIsPaused,
                 dmaNrfFlowControlBufferFull, rxVars, streamVars, txen, pauses, sent, raced>>

ReadPin ==
  /\ ~halted /\ flowIsr = "entered"
  /\ flowIsr' = IF txen THEN "pause" ELSE "resume"
  /\ UNCHANGED <<taskVars, waitUntilSendDone, bufferVars, remainingDMACount, dmaIsPaused,
                 dmaNrfFlowControlBufferFull, rxVars, streamVars, pinVars, sent, raced>>

\* Fault: the interrupt's flag is cleared after the pin has been read
PauseClearsEdge ==
  /\ ~halted /\ flowIsr = "pause"
  /\ dmaNrfFlowControlBufferFull' = TRUE
  /\ flowIsr' = IF stream.enabled THEN "quiet" ELSE "idle"
  /\ edge' = FALSE
  /\ UNCHANGED <<taskVars, waitUntilSendDone, bufferVars, remainingDMACount, dmaIsPaused,
                 rxVars, streamVars, txen, pauses, sent, raced>>

\* uartslkPauseDma() does nothing to a stream that is not enabled
PauseDma ==
  /\ ~halted /\ flowIsr = "pause"
  /\ dmaNrfFlowControlBufferFull' = TRUE
  /\ flowIsr' = IF stream.enabled THEN "quiet" ELSE "idle"
  /\ UNCHANGED <<taskVars, waitUntilSendDone, bufferVars, remainingDMACount, dmaIsPaused,
                 rxVars, streamVars, pinVars, sent, raced>>

\* ... disables the interrupt of its completion
PauseQuiet ==
  /\ ~halted /\ flowIsr = "quiet"
  /\ stream' = [stream EXCEPT !.tcie = FALSE]
  /\ flowIsr' = "stop"
  /\ UNCHANGED <<taskVars, waitUntilSendDone, bufferVars, remainingDMACount, dmaIsPaused,
                 dmaNrfFlowControlBufferFull, rxVars, dmaRequests, dmaIrq, line, pinVars,
                 sent, raced>>

\* Fault: the stream is not disabled
PauseLeavesStream ==
  /\ ~halted /\ flowIsr = "stop"
  /\ stream' = [stream EXCEPT !.tcif = FALSE]
  /\ remainingDMACount' = stream.count
  /\ dmaIsPaused' = TRUE
  /\ raced' = (raced \/ stream.count = 0)
  /\ flowIsr' = "idle"
  /\ UNCHANGED <<taskVars, waitUntilSendDone, bufferVars, dmaNrfFlowControlBufferFull, rxVars,
                 dmaRequests, dmaIrq, line, pinVars, sent>>

\* ... and stops the stream.  Stopping it sets its flag, which is cleared, and
\* with it the flag of a transfer that has just ended.
PauseStop ==
  /\ ~halted /\ flowIsr = "stop"
  /\ stream' = [stream EXCEPT !.enabled = FALSE, !.tcif = FALSE]
  /\ remainingDMACount' = stream.count
  /\ dmaIsPaused' = TRUE
  /\ raced' = (raced \/ stream.count = 0)
  /\ flowIsr' = "idle"
  /\ UNCHANGED <<taskVars, waitUntilSendDone, bufferVars, dmaNrfFlowControlBufferFull, rxVars,
                 dmaRequests, dmaIrq, line, pinVars, sent>>

\* Fault: the interrupt of the completion stays disabled
ResumeQuiet ==
  /\ ~halted /\ flowIsr = "resume"
  /\ dmaNrfFlowControlBufferFull' = FALSE
  /\ stream' =
       IF ~dmaIsPaused THEN stream
       ELSE IF stream.enabled THEN stream
       ELSE [stream EXCEPT !.enabled = TRUE, !.count = remainingDMACount,
                           !.next = initialDMACount - remainingDMACount + 1]
  /\ dmaIsPaused' = FALSE
  /\ flowIsr' = "idle"
  /\ UNCHANGED <<taskVars, waitUntilSendDone, bufferVars, remainingDMACount, rxVars,
                 dmaRequests, dmaIrq, line, pinVars, sent, raced>>

\* Fault: the stream starts again at the head of the buffer
ResumeAtHead ==
  /\ ~halted /\ flowIsr = "resume"
  /\ dmaNrfFlowControlBufferFull' = FALSE
  /\ stream' =
       IF ~dmaIsPaused THEN stream
       ELSE IF stream.enabled THEN [stream EXCEPT !.tcie = TRUE]
       ELSE [stream EXCEPT !.tcie = TRUE, !.enabled = TRUE, !.count = remainingDMACount,
                           !.next = 1]
  /\ dmaIrq' = (dmaIrq \/ Raises(stream'))
  /\ dmaIsPaused' = FALSE
  /\ flowIsr' = "idle"
  /\ UNCHANGED <<taskVars, waitUntilSendDone, bufferVars, remainingDMACount, rxVars,
                 dmaRequests, line, pinVars, sent, raced>>

\* uartslkResumeDma(); a stream that is enabled ignores a new count and address
ResumeDma ==
  /\ ~halted /\ flowIsr = "resume"
  /\ dmaNrfFlowControlBufferFull' = FALSE
  /\ stream' =
       IF ~dmaIsPaused THEN stream
       ELSE IF stream.enabled THEN [stream EXCEPT !.tcie = TRUE]
       ELSE [stream EXCEPT !.tcie = TRUE, !.enabled = TRUE, !.count = remainingDMACount,
                           !.next = initialDMACount - remainingDMACount + 1]
  /\ dmaIrq' = (dmaIrq \/ Raises(stream'))
  /\ dmaIsPaused' = FALSE
  /\ flowIsr' = "idle"
  /\ UNCHANGED <<taskVars, waitUntilSendDone, bufferVars, remainingDMACount, rxVars,
                 dmaRequests, line, pinVars, sent, raced>>

-----------------------------------------------------------------------------
(* The other interrupts *)

\* uartslkDmaTXIsr()
DmaTXIsr ==
  /\ InterruptsDone /\ dmaIrq
  /\ dmaIrq' = FALSE
  /\ stream' = [stream EXCEPT !.tcie = FALSE, !.tcif = FALSE, !.enabled = FALSE]
  /\ dmaRequests' = FALSE
  /\ remainingDMACount' = 0
  /\ waitUntilSendDone' = TRUE
  /\ UNCHANGED <<taskVars, bufferVars, dmaIsPaused, dmaNrfFlowControlBufferFull, flowIsr,
                 rxVars, line, pinVars, sent, raced>>

\* The last byte of a packet has come in: uartslkHandleDataFromISR()
PacketReceived ==
  /\ InterruptsDone /\ received < MaxReceived
  /\ received' = received + 1
  /\ halted' = (rxQueue = RxQueueSize)
  /\ rxQueue' = IF rxQueue < RxQueueSize /\ queueReadyToReceive THEN rxQueue + 1 ELSE rxQueue
  /\ UNCHANGED <<taskVars, waitUntilSendDone, bufferVars, flowVars, queueReadyToReceive,
                 streamVars, pinVars, sent, raced>>

-----------------------------------------------------------------------------
(* The tasks *)

\* The system task: uartslkEnableIncoming()
EnableIncoming ==
  /\ TasksRun /\ ~queueReadyToReceive
  /\ queueReadyToReceive' = TRUE
  /\ UNCHANGED <<taskVars, waitUntilSendDone, bufferVars, flowVars, rxQueue, halted, received,
                 streamVars, pinVars, sent, raced>>

Waiting == {t \in Senders : at[t] = "access"}
MaySend == sent + Cardinality(Waiting) < MaxPackets

\* The SYSLINK task takes a packet; radio packets are answered if an answer waits
ReceivePacket ==
  /\ TasksRun /\ at[SyslinkTask] = "idle" /\ rxQueue > 0
  /\ rxQueue' = rxQueue - 1
  /\ \/ UNCHANGED at
     \/ MaySend /\ at' = [at EXCEPT ![SyslinkTask] = "access"]
  /\ UNCHANGED <<syslinkAccess, uartBusy, sendBuffer, waitUntilSendDone, bufferVars, flowVars,
                 queueReadyToReceive, halted, received, streamVars, pinVars, sent, raced>>

\* The power monitor, the parameters of the radio, the debug timer, ...
RequestSend(t) ==
  /\ TasksRun /\ at[t] = "idle" /\ MaySend
  /\ at' = [at EXCEPT ![t] = "access"]
  /\ UNCHANGED <<syslinkAccess, uartBusy, sendBuffer, waitUntilSendDone, bufferVars, flowVars,
                 rxVars, streamVars, pinVars, sent, raced>>

\* syslinkSendPacket() puts the packet together once it has the semaphore
TakeAccess(t) ==
  /\ TasksRun /\ at[t] = "access" /\ syslinkAccess
  /\ syslinkAccess' = FALSE
  /\ sent' = sent + 1
  /\ sendBuffer' = sent + 1
  /\ at' = [at EXCEPT ![t] = "uart"]
  /\ UNCHANGED <<uartBusy, waitUntilSendDone, bufferVars, flowVars, rxVars, streamVars,
                 pinVars, raced>>

\* uartslkSendDataDmaBlocking()
TakeUart(t) ==
  /\ TasksRun /\ at[t] = "uart" /\ uartBusy
  /\ uartBusy' = FALSE
  /\ at' = [at EXCEPT ![t] = "copy"]
  /\ UNCHANGED <<syslinkAccess, sendBuffer, waitUntilSendDone, bufferVars, flowVars, rxVars,
                 streamVars, pinVars, sent, raced>>

\* ... once the stream is free
CopyData(t) ==
  /\ TasksRun /\ at[t] = "copy" /\ ~stream.enabled
  /\ dmaTXBuffer' = sendBuffer
  /\ initialDMACount' = SizeOf[sendBuffer]
  /\ at' = [at EXCEPT ![t] = "init"]
  /\ UNCHANGED <<syslinkAccess, uartBusy, sendBuffer, waitUntilSendDone, flowVars, rxVars,
                 streamVars, pinVars, sent, raced>>

\* DMA_Init(); the registers of an enabled stream cannot be written
InitStream(t) ==
  /\ TasksRun /\ at[t] = "init"
  /\ stream' = IF stream.enabled THEN stream
               ELSE [stream EXCEPT !.count = initialDMACount, !.next = 1]
  /\ at' = [at EXCEPT ![t] = "arm"]
  /\ UNCHANGED <<syslinkAccess, uartBusy, sendBuffer, waitUntilSendDone, bufferVars, flowVars,
                 rxVars, dmaRequests, dmaIrq, line, pinVars, sent, raced>>

ArmStream(t) ==
  /\ TasksRun /\ at[t] = "arm"
  /\ stream' = [stream EXCEPT !.tcie = TRUE]
  /\ dmaIrq' = (dmaIrq \/ Raises(stream'))
  /\ dmaRequests' = TRUE
  /\ at' = [at EXCEPT ![t] = "start"]
  /\ UNCHANGED <<syslinkAccess, uartBusy, sendBuffer, waitUntilSendDone, bufferVars, flowVars,
                 rxVars, line, pinVars, sent, raced>>

StartStream(t) ==
  /\ TasksRun /\ at[t] = "start"
  /\ stream' = [stream EXCEPT !.enabled = TRUE]
  /\ at' = [at EXCEPT ![t] = "sleep"]
  /\ UNCHANGED <<syslinkAccess, uartBusy, sendBuffer, waitUntilSendDone, bufferVars, flowVars,
                 rxVars, dmaRequests, dmaIrq, line, pinVars, sent, raced>>

SendDone(t) ==
  /\ TasksRun /\ at[t] = "sleep" /\ waitUntilSendDone
  /\ waitUntilSendDone' = FALSE
  /\ uartBusy' = TRUE /\ syslinkAccess' = TRUE
  /\ at' = [at EXCEPT ![t] = "idle"]
  /\ UNCHANGED <<sendBuffer, bufferVars, flowVars, rxVars, streamVars, pinVars, sent, raced>>

-----------------------------------------------------------------------------
(* The specification *)

\* The pin may be high at the start, without an edge
SyslinkInit ==
  /\ at = [t \in Senders |-> "idle"]
  /\ syslinkAccess = TRUE /\ uartBusy = TRUE /\ waitUntilSendDone = FALSE
  /\ sendBuffer = 0 /\ dmaTXBuffer = 0
  /\ initialDMACount = 0 /\ remainingDMACount = 0
  /\ dmaIsPaused = FALSE /\ dmaNrfFlowControlBufferFull = FALSE
  /\ flowIsr = "idle"
  /\ rxQueue = 0 /\ queueReadyToReceive = FALSE /\ halted = FALSE
  /\ stream = [enabled |-> FALSE, tcie |-> FALSE, tcif |-> FALSE, count |-> 0, next |-> 1]
  /\ dmaRequests = FALSE /\ dmaIrq = FALSE
  /\ txen \in BOOLEAN /\ edge = FALSE
  /\ line = <<0, 0>>
  /\ sent = 0 /\ received = 0 /\ pauses = 0 /\ raced = FALSE

SendStep(t) ==
  \/ TakeAccess(t) \/ TakeUart(t) \/ CopyData(t)
  \/ InitStream(t) \/ ArmStream(t) \/ StartStream(t) \/ SendDone(t)

FlowStep == FlowctrlIsr \/ ReadPin \/ PauseDma \/ PauseQuiet \/ PauseStop \/ ResumeDma

SyslinkNext ==
  \/ DmaByte \/ PinRises \/ PinFalls
  \/ FlowStep
  \/ DmaTXIsr \/ PacketReceived
  \/ EnableIncoming \/ ReceivePacket
  \/ \E t \in OtherSenders : RequestSend(t)
  \/ \E t \in Senders : SendStep(t)

SyslinkSpec == SyslinkInit /\ [][SyslinkNext]_syslinkVars

\* The processor and the stream go on, and the nRF51 empties its buffer.  Nobody
\* has to send.
SyslinkFairness ==
  /\ WF_syslinkVars(FlowStep) /\ WF_syslinkVars(DmaTXIsr) /\ WF_syslinkVars(DmaByte)
  /\ WF_syslinkVars(PinFalls) /\ WF_syslinkVars(ReceivePacket)
  /\ \A t \in Senders : WF_syslinkVars(SendStep(t))

SyslinkFairSpec == SyslinkSpec /\ SyslinkFairness

-----------------------------------------------------------------------------
(* Properties *)

\* Whatever the pin does and whoever sends, packets reach the line whole, one
\* after the other, and a send returns only when its last byte has left the
\* stream: the semaphores and the flow control implement the serial line.
Line == INSTANCE SerialLine WITH packet <- IF syslinkAccess THEN 0 ELSE sendBuffer
PacketsGoOutWhole == Line!LineSpec

\* A transfer that the nRF51 has paused puts out no byte until the pin falls,
\* unless the stream had ended while the pause was being made.
PausedLineIsQuiet ==
  [][dmaIsPaused /\ txen /\ ~edge /\ flowIsr = "idle" /\ ~raced => UNCHANGED line]_syslinkVars

\* Once the handler has dealt with the edges, what the firmware believes of the
\* nRF51's buffer is what the pin says, however fast the pin moved.
FlowControlIsKnown ==
  flowIsr = "idle" /\ ~edge /\ pauses > 0 => (dmaNrfFlowControlBufferFull <=> txen)

\* Every send ends, and every packet received is handled, for any number of pauses
\* of any length, as long as no pause hits the very end of a transfer.
SendsEnd ==
  /\ \A t \in Senders : at[t] # "idle" ~> at[t] = "idle" \/ raced \/ halted
  /\ rxQueue > 0 ~> rxQueue = 0 \/ raced \/ halted
=============================================================================
