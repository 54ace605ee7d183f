--------------------------- MODULE SyslinkProofs ---------------------------
(***************************************************************************)
(* The serial link puts packets out whole, for any number of senders, any  *)
(* sizes of packets and any play of the nRF51's pin.                       *)
(***************************************************************************)
EXTENDS Syslink, FiniteSetTheorems, TLAPS

Places == {"idle", "access", "uart", "copy", "init", "arm", "start", "sleep"}
Holding == {"uart", "copy", "init", "arm", "start", "sleep"}
Preparing == Holding \ {"sleep"}

SyslinkTypeOK ==
  /\ at \in [Senders -> Places]
  /\ DOMAIN stream = {"enabled", "tcie", "tcif", "count", "next"}
  /\ stream.count \in Nat /\ stream.next \in Int
  /\ sent \in Nat /\ initialDMACount \in Nat /\ remainingDMACount \in Nat

\* At most one sender is between the taking and the giving of syslinkAccess
Exclusion ==
  /\ \A t, u \in Senders : at[t] \in Holding /\ at[u] \in Holding => t = u
  /\ syslinkAccess <=> \A t \in Senders : at[t] \notin Holding

SendsBounded == sent + Cardinality(Waiting) <= MaxPackets

\* The stream has not ended since the last send began
NoEnd == ~stream.tcif /\ ~dmaIrq /\ ~waitUntilSendDone
Before == line[1] = sent - 1
Over == line = <<sent, SizeOf[sent]>>

\* No byte goes out, and a stale pause has none to go on with
Still ==
  /\ NoEnd
  /\ stream.enabled => stream.count = 0
  /\ dmaIsPaused => remainingDMACount = 0

\* The stream's place in the packet is that of the line
InStep ==
  /\ NoEnd
  /\ stream.count <= SizeOf[sent]
  /\ stream.next = SizeOf[sent] - stream.count + 1
  /\ IF stream.next = 1 THEN Before ELSE line = <<sent, stream.next - 1>>

Ordered ==
  /\ sendBuffer = sent
  /\ syslinkAccess => Still /\ line[1] = sent
  /\ waitUntilSendDone => ~stream.tcif /\ ~dmaIrq
  /\ \A t \in Senders :
       /\ at[t] \in Holding => sent \in 1 .. MaxPackets /\ ~syslinkAccess
       /\ at[t] \in Preparing => Still /\ Before
       /\ at[t] \in {"init", "arm", "start", "sleep"} =>
            dmaTXBuffer = sent /\ initialDMACount = SizeOf[sent]
       /\ at[t] \in {"arm", "start"} =>
            stream.count = 0 \/ (stream.count = SizeOf[sent] /\ stream.next = 1)
       /\ at[t] = "sleep" =>
            /\ stream.count > 0 => InStep
            /\ ~NoEnd => Over
            /\ dmaIsPaused =>
                 remainingDMACount = 0 \/ (~stream.enabled /\ remainingDMACount = stream.count)

\* The handler stops a stream that it found enabled; only the stream's end can
\* come in between.
Stopping == flowIsr \in {"quiet", "stop"} => stream.enabled \/ stream.count = 0

SyslinkInv == SyslinkTypeOK /\ Exclusion /\ SendsBounded /\ Ordered /\ Stopping

-----------------------------------------------------------------------------
(* The parts of the invariant that do not depend on the line *)

\* The sizes of the packets and the set of the senders.
LEMMA SizeTypes ==
  /\ MaxPackets \in Nat /\ SizeOf \in [1 .. MaxPackets -> Nat \ {0}]
  /\ SyslinkTask \in Senders /\ OtherSenders \subseteq Senders /\ IsFiniteSet(Senders)
<1>1. IsFiniteSet(OtherSenders \union {SyslinkTask})
  BY SyslinkAssumption, FS_AddElement
<1>2. QED
  BY <1>1, SyslinkAssumption DEF Senders

\* At the start nobody sends and the stream stands.
LEMMA InvInit == SyslinkInit => SyslinkInv
<1> SUFFICES ASSUME SyslinkInit PROVE SyslinkInv
  OBVIOUS
<1>1. SyslinkTypeOK
  BY DEF SyslinkInit, SyslinkTypeOK, Places
<1>2. Exclusion
  BY DEF SyslinkInit, Exclusion, Holding
<1>3. SendsBounded
  <2>1. Waiting = {}
    BY DEF SyslinkInit, Waiting
  <2>2. QED
    BY <2>1, SizeTypes, FS_EmptySet DEF SyslinkInit, SendsBounded
<1>4. Ordered /\ Stopping
  BY DEF SyslinkInit, Ordered, Stopping, Still, NoEnd, Holding, Preparing
<1>5. QED
  BY <1>1, <1>2, <1>3, <1>4 DEF SyslinkInv

\* Every step keeps the types.
LEMMA TypesKept ==
  ASSUME SyslinkInv, SyslinkNext
  PROVE  SyslinkTypeOK'
<1> USE SizeTypes DEF SyslinkInv, SyslinkTypeOK, Places
<1>1. CASE DmaByte
  BY <1>1 DEF DmaByte, Raises, taskVars, bufferVars, flowVars, rxVars, pinVars
<1>2. CASE PinRises \/ PinFalls
  BY <1>2 DEF PinRises, PinFalls, taskVars, bufferVars, flowVars, rxVars, streamVars
<1>3. CASE FlowctrlIsr \/ ReadPin \/ PauseDma
  BY <1>3 DEF FlowctrlIsr, ReadPin, PauseDma, taskVars, bufferVars, rxVars, streamVars, pinVars
<1>4. CASE PauseQuiet \/ PauseStop
  BY <1>4 DEF PauseQuiet, PauseStop, taskVars, bufferVars, rxVars, pinVars
<1>5. CASE ResumeDma
  BY <1>5 DEF ResumeDma, Raises, taskVars, bufferVars, rxVars, pinVars
<1>6. CASE DmaTXIsr
  BY <1>6 DEF DmaTXIsr, taskVars, bufferVars, rxVars, pinVars
<1>7. CASE PacketReceived \/ EnableIncoming
  BY <1>7 DEF PacketReceived, EnableIncoming, taskVars, bufferVars, flowVars, streamVars, pinVars
<1>8. CASE ReceivePacket \/ \E t \in OtherSenders : RequestSend(t)
  BY <1>8 DEF ReceivePacket, RequestSend, bufferVars, flowVars, rxVars, streamVars, pinVars
<1>9. ASSUME NEW t \in Senders, TakeAccess(t) \/ TakeUart(t) \/ SendDone(t)
      PROVE  SyslinkTypeOK'
  BY <1>9 DEF TakeAccess, TakeUart, SendDone, bufferVars, flowVars, rxVars, streamVars, pinVars
<1>10. ASSUME NEW t \in Senders, CopyData(t)
       PROVE  SyslinkTypeOK'
  <2>1. sendBuffer \in 1 .. MaxPackets
    BY <1>10 DEF CopyData, Ordered, Holding
  <2>2. QED
    BY <1>10, <2>1 DEF CopyData, flowVars, rxVars, streamVars, pinVars
<1>11. ASSUME NEW t \in Senders, InitStream(t)
       PROVE  SyslinkTypeOK'
  BY <1>11 DEF InitStream, bufferVars, flowVars, rxVars, pinVars
<1>12. ASSUME NEW t \in Senders, ArmStream(t) \/ StartStream(t)
       PROVE  SyslinkTypeOK'
  BY <1>12 DEF ArmStream, StartStream, bufferVars, flowVars, rxVars, pinVars
<1>13. QED
  BY <1>1, <1>2, <1>3, <1>4, <1>5, <1>6, <1>7, <1>8, <1>9, <1>10, <1>11, <1>12
     DEF SyslinkNext, FlowStep, SendStep

\* What a byte does to the stream
LEMMA ByteSent ==
  ASSUME SyslinkTypeOK, DmaByte
  PROVE  /\ stream.count > 0 /\ stream.enabled
         /\ stream'.count = stream.count - 1 /\ stream'.next = stream.next + 1
         /\ stream'.enabled <=> stream.count > 1
         /\ stream'.tcif <=> stream.count = 1
         /\ dmaIrq' => dmaIrq \/ stream'.tcif
         /\ line' = <<dmaTXBuffer, stream.next>>
  BY DEF SyslinkTypeOK, DmaByte, Raises

\* Neither the hardware nor an interrupt moves a task or touches its packet.
TaskStep == ReceivePacket \/ (\E t \in OtherSenders : RequestSend(t)) \/ (\E t \in Senders : SendStep(t))

\* A step that is no task's leaves the tasks, the semaphore and the buffers.
LEMMA TasksStand ==
  ASSUME SyslinkNext, ~TaskStep
  PROVE  UNCHANGED <<at, syslinkAccess, sendBuffer, sent, dmaTXBuffer, initialDMACount>>
<1>1. CASE DmaByte \/ PinRises \/ PinFalls
  BY <1>1 DEF DmaByte, PinRises, PinFalls, taskVars, bufferVars
<1>2. CASE FlowStep
  BY <1>2 DEF FlowStep, FlowctrlIsr, ReadPin, PauseDma, PauseQuiet, PauseStop, ResumeDma,
     taskVars, bufferVars
<1>3. CASE DmaTXIsr \/ PacketReceived \/ EnableIncoming
  BY <1>3 DEF DmaTXIsr, PacketReceived, EnableIncoming, taskVars, bufferVars
<1>4. QED
  BY <1>1, <1>2, <1>3 DEF SyslinkNext, TaskStep

\* At most one task is behind syslinkAccess, and the semaphore says so.
LEMMA ExclusionKept ==
  ASSUME SyslinkInv, SyslinkNext
  PROVE  Exclusion'
<1> USE DEF SyslinkInv, Exclusion, Holding, SyslinkTypeOK, Places
<1>1. CASE ~TaskStep
  BY <1>1, TasksStand
<1>2. CASE ReceivePacket
  BY <1>2, SizeTypes DEF ReceivePacket
<1>3. ASSUME NEW t \in OtherSenders, RequestSend(t)
      PROVE  Exclusion'
  BY <1>3, SizeTypes DEF RequestSend
<1>4. ASSUME NEW t \in Senders, TakeAccess(t)
      PROVE  Exclusion'
  BY <1>4 DEF TakeAccess
<1>5. ASSUME NEW t \in Senders, TakeUart(t) \/ CopyData(t) \/ InitStream(t)
      PROVE  Exclusion'
  BY <1>5 DEF TakeUart, CopyData, InitStream
<1>6. ASSUME NEW t \in Senders, ArmStream(t) \/ StartStream(t)
      PROVE  Exclusion'
  BY <1>6 DEF ArmStream, StartStream
<1>7. ASSUME NEW t \in Senders, SendDone(t)
      PROVE  Exclusion'
  BY <1>7 DEF SendDone
<1>8. QED
  BY <1>1, <1>2, <1>3, <1>4, <1>5, <1>6, <1>7 DEF TaskStep, SendStep

\* Every send that has begun is one of the packets allowed for.
LEMMA SendsKept ==
  ASSUME SyslinkInv, SyslinkNext
  PROVE  SendsBounded'
<1>1. IsFiniteSet(Waiting) /\ Cardinality(Waiting) \in Nat
  BY SizeTypes, FS_Subset, FS_CardinalityType DEF Waiting
<1>2. \A t : Cardinality(Waiting \union {t}) \in {Cardinality(Waiting), Cardinality(Waiting) + 1}
  BY <1>1, FS_AddElement
<1>3. \A t \in Waiting : Cardinality(Waiting \ {t}) = Cardinality(Waiting) - 1
  BY <1>1, FS_RemoveElement
<1> USE SizeTypes DEF SyslinkInv, SendsBounded, SyslinkTypeOK, Places
<1>4. CASE ~TaskStep
  BY <1>4, TasksStand DEF Waiting
<1>5. ASSUME UNCHANGED sent, MaySend, NEW t \in Senders, at[t] = "idle",
             at' = [at EXCEPT ![t] = "access"]
      PROVE  SendsBounded'
  <2>1. Waiting' = Waiting \union {t}
    BY <1>5 DEF Waiting
  <2>2. Cardinality(Waiting)' \in {Cardinality(Waiting), Cardinality(Waiting) + 1}
    BY <1>2, <2>1
  <2>3. sent' = sent /\ sent + Cardinality(Waiting) + 1 <= MaxPackets
    BY <1>1, <1>5 DEF MaySend
  <2>4. QED
    BY <1>1, <2>2, <2>3
<1>6. CASE ReceivePacket
  BY <1>5, <1>6 DEF ReceivePacket, Waiting
<1>7. ASSUME NEW t \in OtherSenders, RequestSend(t)
      PROVE  SendsBounded'
  BY <1>5, <1>7 DEF RequestSend
<1>8. ASSUME NEW t \in Senders, TakeAccess(t)
      PROVE  SendsBounded'
  <2>1. Waiting' = Waiting \ {t} /\ t \in Waiting
    BY <1>8 DEF TakeAccess, Waiting
  <2>2. QED
    BY <1>1, <1>3, <1>8, <2>1 DEF TakeAccess
<1>9. ASSUME NEW t \in Senders, SendStep(t), ~TakeAccess(t)
      PROVE  SendsBounded'
  <2>1. Waiting' = Waiting /\ sent' = sent
    BY <1>9 DEF SendStep, TakeUart, CopyData, InitStream, ArmStream, StartStream, SendDone, Waiting
  <2>2. QED
    BY <2>1
<1>10. QED
  BY <1>4, <1>6, <1>7, <1>8, <1>9 DEF TaskStep

\* The handler that is stopping the stream knows its state.
LEMMA StoppingKept ==
  ASSUME SyslinkInv, SyslinkNext
  PROVE  Stopping'
<1> USE DEF SyslinkInv, Stopping, SyslinkTypeOK
<1>1. CASE DmaByte
  <2>1. stream'.count = 0 \/ stream'.enabled
    BY <1>1, ByteSent
  <2>2. QED
    BY <1>1, <2>1 DEF DmaByte, flowVars
<1>2. CASE FlowStep
  BY <1>2 DEF FlowStep, FlowctrlIsr, ReadPin, PauseDma, PauseQuiet, PauseStop, ResumeDma, streamVars
<1>3. CASE PinRises \/ PinFalls \/ PacketReceived
  BY <1>3 DEF PinRises, PinFalls, PacketReceived, flowVars, streamVars
<1>4. CASE InterruptsDone /\ UNCHANGED flowIsr
  BY <1>4 DEF InterruptsDone
<1>5. CASE DmaTXIsr \/ EnableIncoming \/ TaskStep
  BY <1>4, <1>5 DEF DmaTXIsr, EnableIncoming, TaskStep, ReceivePacket, RequestSend, SendStep,
     TakeAccess, TakeUart, CopyData, InitStream, ArmStream, StartStream, SendDone, TasksRun, flowVars
<1>6. QED
  BY <1>1, <1>2, <1>3, <1>5 DEF SyslinkNext, TaskStep

-----------------------------------------------------------------------------
(* The packets on the line *)

OrderVars == <<sendBuffer, sent, syslinkAccess, at, stream, dmaIrq, waitUntilSendDone,
               dmaIsPaused, remainingDMACount, dmaTXBuffer, initialDMACount, line>>

\* The order of the bytes rests on these variables alone.
LEMMA OrderUnchanged ==
  ASSUME Ordered, UNCHANGED OrderVars
  PROVE  Ordered'
  BY DEF Ordered, OrderVars, Still, NoEnd, Before, Over, InStep

\* While the stream puts out bytes, a sender sleeps.
LEMMA Sleeper ==
  ASSUME SyslinkInv, stream.enabled, stream.count > 0
  PROVE  \E t \in Senders : /\ at[t] = "sleep" /\ ~syslinkAccess
                            /\ \A u \in Senders : at[u] \in Holding => u = t
<1>1. ~Still
  BY DEF SyslinkInv, SyslinkTypeOK, Still
<1>2. ~syslinkAccess
  BY <1>1 DEF SyslinkInv, Ordered
<1>3. PICK t \in Senders : at[t] \in Holding
  BY <1>2 DEF SyslinkInv, Exclusion
<1>4. at[t] = "sleep"
  BY <1>1, <1>3 DEF SyslinkInv, Ordered, Holding, Preparing
<1>5. QED
  BY <1>2, <1>3, <1>4 DEF SyslinkInv, Exclusion

\* A byte of the stream is the next of the packet that is on the line.
LEMMA ByteOrdered ==
  ASSUME SyslinkInv, DmaByte
  PROVE  Ordered'
<1>1. stream.count > 0 /\ stream.enabled
  BY ByteSent DEF SyslinkInv
<1>2. PICK t \in Senders : /\ at[t] = "sleep" /\ ~syslinkAccess
                           /\ \A u \in Senders : at[u] \in Holding => u = t
  BY <1>1, Sleeper
<1>3. /\ InStep /\ sent \in 1 .. MaxPackets
      /\ dmaTXBuffer = sent /\ initialDMACount = SizeOf[sent]
      /\ dmaIsPaused => remainingDMACount = 0
  BY <1>1, <1>2 DEF SyslinkInv, Ordered, Holding, SyslinkTypeOK
<1>4. SizeOf[sent] \in Nat /\ stream.count \in Nat
  BY <1>3, SizeTypes DEF SyslinkInv, SyslinkTypeOK
<1>5. UNCHANGED <<at, syslinkAccess, sendBuffer, sent, dmaTXBuffer, initialDMACount,
                  waitUntilSendDone, dmaIsPaused, remainingDMACount>>
  BY DEF DmaByte, taskVars, bufferVars, flowVars
<1>6. /\ stream'.next = SizeOf[sent] - stream'.count + 1
      /\ stream'.next # 1 /\ line' = <<sent, stream'.next - 1>>
      /\ stream'.count <= SizeOf[sent]
  BY <1>3, <1>4, ByteSent DEF SyslinkInv, InStep
<1>7. stream'.count > 0 => NoEnd'
  BY <1>3, <1>4, <1>5, ByteSent DEF SyslinkInv, InStep, NoEnd
<1>8. stream'.count > 0 => InStep'
  BY <1>5, <1>6, <1>7 DEF InStep
<1>9. ~NoEnd' => Over'
  <2>1. stream'.count = 0 => line' = <<sent, SizeOf[sent]>>
    BY <1>4, <1>6
  <2>2. stream'.count \in Nat
    BY <1>1, <1>4, ByteSent DEF SyslinkInv
  <2>3. QED
    BY <1>5, <1>7, <2>1, <2>2 DEF Over
<1>10. ~waitUntilSendDone'
  BY <1>3, <1>5 DEF InStep, NoEnd
<1>11. QED
  BY <1>2, <1>3, <1>5, <1>8, <1>9, <1>10 DEF SyslinkInv, Ordered, Holding, Preparing

\* The pin's handler pauses the stream in step with the line, and it goes on there.
LEMMA FlowOrdered ==
  ASSUME SyslinkInv, FlowStep
  PROVE  Ordered'
<1>1. CASE FlowctrlIsr \/ ReadPin \/ PauseDma
  <2>1. UNCHANGED OrderVars
    BY <1>1 DEF OrderVars, FlowctrlIsr, ReadPin, PauseDma, taskVars, bufferVars, streamVars
  <2>2. QED
    BY <2>1, OrderUnchanged DEF SyslinkInv
<1> USE DEF SyslinkInv, SyslinkTypeOK, NoEnd, Before, Over
<1>2. CASE PauseQuiet
  <2>1. /\ stream'.count = stream.count /\ stream'.next = stream.next
        /\ stream'.enabled = stream.enabled /\ stream'.tcif = stream.tcif
    BY <1>2 DEF PauseQuiet
  <2>2. UNCHANGED <<sendBuffer, sent, syslinkAccess, at, dmaIrq, waitUntilSendDone,
                    dmaIsPaused, remainingDMACount, dmaTXBuffer, initialDMACount, line>>
    BY <1>2 DEF PauseQuiet, taskVars, bufferVars
  <2>3. QED
    BY <2>1, <2>2 DEF Ordered, Still, InStep
<1>3. CASE PauseStop
  <2>1. /\ stream'.count = stream.count /\ stream'.next = stream.next
        /\ ~stream'.enabled /\ ~stream'.tcif
    BY <1>3 DEF PauseStop
  <2>2. /\ UNCHANGED <<sendBuffer, sent, syslinkAccess, at, dmaIrq, waitUntilSendDone,
                       dmaTXBuffer, initialDMACount, line>>
        /\ remainingDMACount' = stream.count
    BY <1>3 DEF PauseStop, taskVars, bufferVars
  <2>3. stream.enabled \/ stream.count = 0
    BY <1>3 DEF PauseStop, Stopping
  <2>4. Still => Still'
    BY <2>1, <2>2, <2>3 DEF Still
  <2>5. InStep => InStep'
    BY <2>1, <2>2 DEF InStep
  <2>6. QED
    BY <2>1, <2>2, <2>4, <2>5 DEF Ordered
<1>4. CASE ResumeDma
  <2>1. /\ UNCHANGED <<sendBuffer, sent, syslinkAccess, at, waitUntilSendDone,
                       dmaTXBuffer, initialDMACount, remainingDMACount, line>>
        /\ ~dmaIsPaused'
    BY <1>4 DEF ResumeDma, taskVars, bufferVars
  <2>2. stream'.tcif = stream.tcif /\ (dmaIrq' => dmaIrq \/ stream.tcif)
    BY <1>4 DEF ResumeDma, Raises
  <2>3. \/ /\ stream'.enabled = stream.enabled
           /\ stream'.count = stream.count /\ stream'.next = stream.next
        \/ /\ dmaIsPaused /\ ~stream.enabled
           /\ stream'.count = remainingDMACount
           /\ stream'.next = initialDMACount - remainingDMACount + 1
    BY <1>4 DEF ResumeDma
  <2>4. CASE /\ stream'.enabled = stream.enabled
             /\ stream'.count = stream.count /\ stream'.next = stream.next
    <3>1. (Still => Still') /\ (InStep => InStep')
      BY <2>1, <2>2, <2>4 DEF Still, InStep
    <3>2. NoEnd => NoEnd'
      BY <2>1, <2>2
    <3>3. QED
      BY <2>1, <2>2, <2>4, <3>1, <3>2 DEF Ordered
  <2>5. CASE /\ dmaIsPaused /\ ~stream.enabled
             /\ stream'.count = remainingDMACount
             /\ stream'.next = initialDMACount - remainingDMACount + 1
    <3>1. NoEnd => NoEnd'
      BY <2>1, <2>2
    <3>2. Still => Still' /\ stream'.count = 0
      BY <2>1, <2>5, <3>1 DEF Still
    <3>3. ASSUME NEW t \in Senders, at[t] = "sleep", remainingDMACount > 0
          PROVE  InStep'
      <4>1. remainingDMACount = stream.count /\ initialDMACount = SizeOf[sent] /\ InStep
        BY <2>5, <3>3 DEF Ordered
      <4>2. QED
        BY <2>1, <2>5, <3>1, <4>1 DEF InStep
    <3>4. waitUntilSendDone' => ~stream'.tcif /\ ~dmaIrq'
      BY <2>1, <2>2 DEF Ordered
    <3>5. QED
      BY <2>1, <2>5, <3>1, <3>2, <3>3, <3>4 DEF Ordered, Preparing, Holding
  <2>6. QED
    BY <2>3, <2>4, <2>5
<1>5. QED
  BY <1>1, <1>2, <1>3, <1>4 DEF FlowStep

\* The interrupt of the stream's end finds the packet over.
LEMMA EndOrdered ==
  ASSUME SyslinkInv, DmaTXIsr
  PROVE  Ordered'
<1> USE DEF SyslinkInv, SyslinkTypeOK, NoEnd, Before, Over
<1>1. ~NoEnd /\ ~syslinkAccess
  BY DEF DmaTXIsr, Ordered, Still
<1>2. \A t \in Senders : at[t] \in Holding => at[t] = "sleep"
  BY <1>1 DEF Ordered, Still, Preparing
<1>3. /\ UNCHANGED <<sendBuffer, sent, syslinkAccess, at, dmaIsPaused, dmaTXBuffer,
                     initialDMACount, line>>
      /\ waitUntilSendDone' /\ ~dmaIrq' /\ remainingDMACount' = 0
      /\ ~stream'.tcif /\ stream'.count = stream.count
  BY DEF DmaTXIsr, taskVars, bufferVars
<1>4. QED
  BY <1>1, <1>2, <1>3 DEF Ordered, Preparing, Holding, InStep

\* A step of a sender keeps the stream in step with its packet.
LEMMA TaskOrdered ==
  ASSUME SyslinkInv, TaskStep
  PROVE  Ordered'
<1> USE DEF SyslinkInv, SyslinkTypeOK, Places
<1>1. CASE ReceivePacket
  <2>1. /\ UNCHANGED <<sendBuffer, sent, syslinkAccess, stream, dmaIrq, waitUntilSendDone,
                       dmaIsPaused, remainingDMACount, dmaTXBuffer, initialDMACount, line>>
        /\ \A t \in Senders : at'[t] = at[t] \/ at'[t] = "access"
    BY <1>1, SizeTypes DEF ReceivePacket, bufferVars, flowVars, streamVars
  <2>2. QED
    BY <2>1 DEF Ordered, Still, NoEnd, Before, Over, InStep, Holding, Preparing
<1>2. ASSUME NEW t \in OtherSenders, RequestSend(t)
      PROVE  Ordered'
  <2>1. /\ UNCHANGED <<sendBuffer, sent, syslinkAccess, stream, dmaIrq, waitUntilSendDone,
                       dmaIsPaused, remainingDMACount, dmaTXBuffer, initialDMACount, line>>
        /\ \A u \in Senders : at'[u] = at[u] \/ at'[u] = "access"
    BY <1>2, SizeTypes DEF RequestSend, bufferVars, flowVars, streamVars
  <2>2. QED
    BY <2>1 DEF Ordered, Still, NoEnd, Before, Over, InStep, Holding, Preparing
<1>3. ASSUME NEW t \in Senders, TakeAccess(t)
      PROVE  Ordered'
  <2>1. /\ sent' = sent + 1 /\ sendBuffer' = sent + 1 /\ ~syslinkAccess' /\ syslinkAccess
        /\ UNCHANGED <<stream, dmaIrq, waitUntilSendDone, dmaIsPaused, remainingDMACount, line>>
        /\ \A u \in Senders : at'[u] = IF u = t THEN "uart" ELSE at[u]
    BY <1>3 DEF TakeAccess, bufferVars, flowVars, streamVars
  <2>2. \A u \in Senders : at'[u] \in Holding => u = t
    BY <2>1 DEF Exclusion
  <2>3. sent + 1 \in 1 .. MaxPackets
    <3>1. t \in Waiting /\ IsFiniteSet(Waiting)
      BY <1>3, SizeTypes, FS_Subset DEF TakeAccess, Waiting
    <3>2. Cardinality(Waiting) \in Nat /\ Cardinality(Waiting) # 0
      BY <3>1, FS_CardinalityType, FS_EmptySet
    <3>3. QED
      BY <3>2, SizeTypes DEF SendsBounded
  <2>4. Still' /\ Before' /\ ~waitUntilSendDone'
    BY <2>1 DEF Ordered, Still, NoEnd, Before
  <2>5. QED
    BY <2>1, <2>2, <2>3, <2>4 DEF Ordered, Holding, Preparing
<1>4. ASSUME NEW t \in Senders, TakeUart(t) \/ CopyData(t)
      PROVE  Ordered'
  <2>1. at[t] \in Preparing /\ at[t] \in Holding
    BY <1>4 DEF TakeUart, CopyData, Preparing, Holding
  <2>2. UNCHANGED <<sendBuffer, sent, syslinkAccess, stream, dmaIrq, waitUntilSendDone,
                    dmaIsPaused, remainingDMACount, line>>
    BY <1>4 DEF TakeUart, CopyData, flowVars, streamVars
  <2>3. \A u \in Senders : at'[u] \in Holding => u = t
    BY <1>4, <2>1 DEF TakeUart, CopyData, Exclusion
  <2>4. \/ at'[t] = "copy"
        \/ at'[t] = "init" /\ dmaTXBuffer' = sent /\ initialDMACount' = SizeOf[sent]
    BY <1>4 DEF TakeUart, CopyData, Ordered
  <2>5. Still' /\ Before' /\ sent \in 1 .. MaxPackets /\ ~syslinkAccess /\ sendBuffer = sent
    BY <2>1, <2>2 DEF Ordered, Still, NoEnd, Before
  <2>6. QED
    BY <2>2, <2>3, <2>4, <2>5 DEF Ordered, Holding, Preparing, Still, NoEnd
<1>5. ASSUME NEW t \in Senders, InitStream(t) \/ ArmStream(t) \/ StartStream(t)
      PROVE  Ordered'
  <2>1. at[t] \in Preparing /\ at[t] \in Holding
    BY <1>5 DEF InitStream, ArmStream, StartStream, Preparing, Holding
  <2>2. UNCHANGED <<sendBuffer, sent, syslinkAccess, waitUntilSendDone, dmaIsPaused,
                    remainingDMACount, dmaTXBuffer, initialDMACount, line>>
    BY <1>5 DEF InitStream, ArmStream, StartStream, bufferVars, flowVars
  <2>3. \A u \in Senders : at'[u] \in Holding => u = t
    BY <1>5, <2>1 DEF InitStream, ArmStream, StartStream, Exclusion
  <2>4. /\ Still /\ Before /\ sent \in 1 .. MaxPackets /\ ~syslinkAccess /\ sendBuffer = sent
        /\ dmaTXBuffer = sent /\ initialDMACount = SizeOf[sent] /\ SizeOf[sent] \in Nat
    BY <1>5, <2>1, SizeTypes DEF Ordered, InitStream, ArmStream, StartStream
  <2>5. NoEnd' /\ Before'
    <3>1. stream'.tcif = stream.tcif
      BY <1>5 DEF InitStream, ArmStream, StartStream
    <3>2. dmaIrq' => dmaIrq \/ stream'.tcif
      BY <1>5 DEF InitStream, ArmStream, StartStream, Raises
    <3>3. QED
      BY <2>2, <2>4, <3>1, <3>2 DEF Still, NoEnd, Before
  <2>6. CASE InitStream(t)
    <3>1. /\ at'[t] = "arm" /\ stream'.enabled = stream.enabled
          /\ stream'.count = 0 \/ (stream'.count = SizeOf[sent] /\ stream'.next = 1)
          /\ stream'.enabled => stream'.count = 0
      BY <2>4, <2>6 DEF InitStream, Still
    <3>2. QED
      BY <2>2, <2>3, <2>4, <2>5, <3>1 DEF Ordered, Holding, Preparing, Still, NoEnd
  <2>7. CASE ArmStream(t)
    <3>1. /\ at'[t] = "start" /\ at[t] = "arm" /\ stream'.enabled = stream.enabled
          /\ stream'.count = stream.count /\ stream'.next = stream.next
      BY <2>7 DEF ArmStream
    <3>2. QED
      BY <2>2, <2>3, <2>4, <2>5, <3>1 DEF Ordered, Holding, Preparing, Still, NoEnd
  <2>8. CASE StartStream(t)
    <3>1. /\ at'[t] = "sleep" /\ at[t] = "start"
          /\ stream'.count = stream.count /\ stream'.next = stream.next
      BY <2>8 DEF StartStream
    <3>2. stream'.count > 0 => InStep'
      BY <2>2, <2>4, <2>5, <3>1 DEF Ordered, InStep
    <3>3. QED
      BY <2>2, <2>3, <2>4, <2>5, <3>1, <3>2 DEF Ordered, Holding, Preparing, Still, NoEnd
  <2>9. QED
    BY <1>5, <2>6, <2>7, <2>8
<1>6. ASSUME NEW t \in Senders, SendDone(t)
      PROVE  Ordered'
  <2>1. /\ UNCHANGED <<sendBuffer, sent, stream, dmaIrq, dmaIsPaused, remainingDMACount, line>>
        /\ at[t] = "sleep" /\ at'[t] = "idle" /\ syslinkAccess' /\ ~waitUntilSendDone'
        /\ waitUntilSendDone
    BY <1>6 DEF SendDone, bufferVars, flowVars, streamVars
  <2>2. \A u \in Senders : at'[u] \notin Holding
    BY <1>6, <2>1 DEF SendDone, Exclusion, Holding
  <2>3. Over /\ stream.count = 0 /\ sendBuffer = sent
    BY <2>1 DEF Ordered, NoEnd, InStep
  <2>4. Still'
    BY <2>1, <2>3 DEF Ordered, Still, NoEnd
  <2>5. QED
    BY <2>1, <2>2, <2>3, <2>4 DEF Ordered, Over, Holding, Preparing
<1>7. QED
  BY <1>1, <1>2, <1>3, <1>4, <1>5, <1>6 DEF TaskStep, SendStep

\* The invariant holds for every number of senders and pauses and all sizes.
THEOREM InvHolds == SyslinkSpec => []SyslinkInv
<1>1. SyslinkInv /\ [SyslinkNext]_syslinkVars => SyslinkInv'
  <2>1. ASSUME SyslinkInv, SyslinkNext
        PROVE  Ordered'
    <3>1. CASE PinRises \/ PinFalls \/ PacketReceived \/ EnableIncoming
      <4>1. UNCHANGED OrderVars
        BY <3>1 DEF OrderVars, PinRises, PinFalls, PacketReceived, EnableIncoming, taskVars,
           bufferVars, flowVars, streamVars
      <4>2. QED
        BY <2>1, <4>1, OrderUnchanged DEF SyslinkInv
    <3>2. QED
      BY <2>1, <3>1, ByteOrdered, FlowOrdered, EndOrdered, TaskOrdered DEF SyslinkNext, TaskStep
  <2>2. ASSUME SyslinkInv, UNCHANGED syslinkVars
        PROVE  SyslinkInv'
    <3>1. UNCHANGED OrderVars /\ UNCHANGED flowIsr
      BY <2>2 DEF OrderVars, syslinkVars, taskVars, bufferVars, flowVars, streamVars
    <3>2. Ordered'
      BY <2>2, <3>1, OrderUnchanged DEF SyslinkInv
    <3>3. QED
      BY <2>2, <3>1, <3>2 DEF OrderVars, SyslinkInv, SyslinkTypeOK, Exclusion, SendsBounded, Waiting,
         Stopping
  <2>3. QED
    BY <2>1, <2>2, TypesKept, ExclusionKept, SendsKept, StoppingKept DEF SyslinkInv
<1>2. QED
  BY <1>1, InvInit, PTL DEF SyslinkSpec

-----------------------------------------------------------------------------
(* The serial line, and what the pin does to it *)

\* The serial link implements the serial line: packets go out whole, one after the
\* other, and a send is over when its last byte has gone.
THEOREM LineImplemented == SyslinkSpec => PacketsGoOutWhole
<1>1. SyslinkInit => Line!LineInit
  BY DEF SyslinkInit, Line!LineInit
<1>2. SyslinkInv /\ [SyslinkNext]_syslinkVars => [Line!LineNext]_Line!lineVars
  <2> SUFFICES ASSUME SyslinkInv, [SyslinkNext]_syslinkVars
               PROVE  [Line!LineNext]_Line!lineVars
    OBVIOUS
  <2> USE DEF SyslinkInv, SyslinkTypeOK, Places, Line!LineNext, Line!lineVars
  <2>1. CASE UNCHANGED syslinkVars
    BY <2>1 DEF syslinkVars, taskVars, streamVars
  <2>2. CASE DmaByte
    <3>1. PICK t \in Senders : at[t] = "sleep" /\ ~syslinkAccess
      BY ByteSent, Sleeper, <2>2
    <3>2. /\ InStep /\ sent \in 1 .. MaxPackets /\ sendBuffer = sent /\ dmaTXBuffer = sent
          /\ stream.count > 0
      BY <2>2, <3>1, ByteSent DEF Ordered, Holding
    <3>3. SizeOf[sent] \in Nat /\ stream.count \in Nat /\ sent # 0 /\ sent - 1 # sent
      BY <3>2, SizeTypes
    <3>4. Line!Gone = stream.next - 1
      BY <3>1, <3>2, <3>3 DEF Line!Gone, InStep, Before
    <3>5. stream.next - 1 < SizeOf[sent]
      BY <3>2, <3>3 DEF InStep
    <3>6. line' = <<sent, stream.next>> /\ UNCHANGED <<syslinkAccess, sendBuffer>>
      BY <2>2, <3>2, ByteSent DEF DmaByte, taskVars
    <3>7. Line!PutOut
      BY <3>1, <3>2, <3>3, <3>4, <3>5, <3>6 DEF Line!PutOut
    <3>8. QED
      BY <3>7
  <2>3. ASSUME NEW t \in Senders, TakeAccess(t)
        PROVE  Line!Begin
    <3>1. Ordered'
      BY <2>3, TaskOrdered DEF TaskStep, SendStep
    <3>2. sent + 1 \in 1 .. MaxPackets
      <4>1. sent' = sent + 1 /\ at'[t] = "uart"
        BY <2>3 DEF TakeAccess
      <4>2. QED
        BY <3>1, <4>1 DEF Ordered, Holding
    <3>3. syslinkAccess /\ line[1] = sent
      BY <2>3 DEF TakeAccess, Ordered
    <3>4. DOMAIN SizeOf = 1 .. MaxPackets
      BY SizeTypes
    <3>5. sendBuffer' = sent + 1 /\ ~syslinkAccess' /\ UNCHANGED line
      BY <2>3 DEF TakeAccess, streamVars
    <3>6. QED
      BY <3>2, <3>3, <3>4, <3>5 DEF Line!Begin
  <2>4. ASSUME NEW t \in Senders, SendDone(t)
        PROVE  Line!Finish
    <3>1. /\ at[t] = "sleep" /\ waitUntilSendDone
          /\ syslinkAccess' /\ UNCHANGED line
      BY <2>4 DEF SendDone, streamVars
    <3>2. /\ Over /\ ~syslinkAccess /\ sendBuffer = sent /\ sent \in 1 .. MaxPackets
      BY <3>1 DEF Ordered, NoEnd, Holding
    <3>3. QED
      BY <3>1, <3>2 DEF Line!Finish, Line!Gone, Over
  <2>5. ASSUME NEW t \in Senders, SendStep(t), ~TakeAccess(t), ~SendDone(t)
        PROVE  UNCHANGED Line!lineVars
    BY <2>5 DEF SendStep, TakeUart, CopyData, InitStream, ArmStream, StartStream, streamVars
  <2>6. CASE ReceivePacket \/ \E t \in OtherSenders : RequestSend(t)
    BY <2>6 DEF ReceivePacket, RequestSend, streamVars
  <2>7. CASE PinRises \/ PinFalls \/ DmaTXIsr \/ PacketReceived \/ EnableIncoming
    BY <2>7 DEF PinRises, PinFalls, DmaTXIsr, PacketReceived, EnableIncoming, taskVars, streamVars
  <2>8. CASE FlowStep
    BY <2>8 DEF FlowStep, FlowctrlIsr, ReadPin, PauseDma, PauseQuiet, PauseStop, ResumeDma,
       taskVars, streamVars
  <2>9. QED
    BY <2>1, <2>2, <2>3, <2>4, <2>5, <2>6, <2>7, <2>8 DEF SyslinkNext
<1>3. QED
  BY <1>1, <1>2, InvHolds, PTL DEF SyslinkSpec, PacketsGoOutWhole, Line!LineSpec

\* A pause that did not come at the stream's end has bytes left to send.
PauseHasRest == dmaIsPaused /\ ~raced => remainingDMACount > 0

\* This holds in every state that the link reaches.
LEMMA RestKept == SyslinkSpec => []PauseHasRest
<1>1. SyslinkInit => PauseHasRest
  BY DEF SyslinkInit, PauseHasRest
<1>2. SyslinkInv /\ PauseHasRest /\ [SyslinkNext]_syslinkVars => PauseHasRest'
  <2> SUFFICES ASSUME SyslinkInv, PauseHasRest, [SyslinkNext]_syslinkVars
               PROVE  PauseHasRest'
    OBVIOUS
  <2> USE DEF PauseHasRest, SyslinkInv, SyslinkTypeOK
  <2>1. CASE PauseStop
    <3>1. remainingDMACount' = stream.count /\ (~raced' => stream.count # 0)
      BY <2>1, Zenon DEF PauseStop
    <3>2. QED
      BY <3>1
  <2>2. CASE ResumeDma
    BY <2>2 DEF ResumeDma
  <2>3. CASE DmaTXIsr
    <3>1. ~NoEnd /\ ~Still
      BY <2>3 DEF DmaTXIsr, NoEnd, Still
    <3>2. PICK t \in Senders : at[t] \in Holding
      BY <3>1 DEF Ordered, Exclusion
    <3>3. at[t] = "sleep" /\ stream.count = 0
      BY <3>1, <3>2 DEF Ordered, Holding, Preparing, InStep
    <3>4. dmaIsPaused => raced
      BY <3>3 DEF Ordered
    <3>5. QED
      BY <2>3, <3>4 DEF DmaTXIsr
  <2>4. CASE UNCHANGED <<dmaIsPaused, raced, remainingDMACount>>
    BY <2>4
  <2>5. SyslinkNext /\ ~PauseStop /\ ~ResumeDma /\ ~DmaTXIsr =>
          UNCHANGED <<dmaIsPaused, raced, remainingDMACount>>
    BY DEF SyslinkNext, FlowStep, SendStep, DmaByte, PinRises, PinFalls, FlowctrlIsr, ReadPin,
       PauseDma, PauseQuiet, PacketReceived, EnableIncoming, ReceivePacket, RequestSend, TakeAccess,
       TakeUart, CopyData, InitStream, ArmStream, StartStream, SendDone, flowVars
  <2>6. QED
    BY <2>1, <2>2, <2>3, <2>4, <2>5 DEF syslinkVars, flowVars
<1>3. QED
  BY <1>1, <1>2, InvHolds, PTL DEF SyslinkSpec

\* A paused transfer puts out no byte.
THEOREM PausedIsQuiet == SyslinkSpec => PausedLineIsQuiet
<1>1. SyslinkInv /\ PauseHasRest /\ [SyslinkNext]_syslinkVars =>
        [dmaIsPaused /\ txen /\ ~edge /\ flowIsr = "idle" /\ ~raced => UNCHANGED line]_syslinkVars
  <2>1. ASSUME SyslinkInv, PauseHasRest, dmaIsPaused, ~raced, DmaByte
        PROVE  FALSE
    <3>1. stream.enabled /\ stream.count > 0
      BY <2>1, ByteSent DEF SyslinkInv
    <3>2. PICK t \in Senders : at[t] = "sleep"
      BY <2>1, <3>1, Sleeper
    <3>3. QED
      BY <2>1, <3>1, <3>2 DEF SyslinkInv, SyslinkTypeOK, Ordered, PauseHasRest
  <2>2. SyslinkNext /\ ~DmaByte => UNCHANGED line
    BY DEF SyslinkNext, FlowStep, SendStep, DmaTXIsr, PinRises, PinFalls, FlowctrlIsr, ReadPin,
       PauseDma, PauseQuiet, PauseStop, ResumeDma, PacketReceived, EnableIncoming, ReceivePacket,
       RequestSend, TakeAccess, TakeUart, CopyData, InitStream, ArmStream, StartStream, SendDone,
       streamVars
  <2>3. QED
    BY <2>1, <2>2 DEF syslinkVars, streamVars
<1>2. QED
  BY <1>1, InvHolds, RestKept, PTL DEF SyslinkSpec, PausedLineIsQuiet

\* What the handler has read of the pin is true until the next edge.
PinKnown ==
  /\ pauses \in Nat
  /\ flowIsr = "pause" => edge \/ txen
  /\ flowIsr = "resume" => edge \/ ~txen
  /\ flowIsr \in {"quiet", "stop"} => dmaNrfFlowControlBufferFull /\ (edge \/ txen)
  /\ FlowControlIsKnown

\* The firmware knows the pin's level.
THEOREM FlowKnown == SyslinkSpec => []FlowControlIsKnown
<1>1. SyslinkInit => PinKnown
  BY DEF SyslinkInit, PinKnown, FlowControlIsKnown
<1>2. PinKnown /\ [SyslinkNext]_syslinkVars => PinKnown'
  <2> SUFFICES ASSUME PinKnown, [SyslinkNext]_syslinkVars
               PROVE  PinKnown'
    OBVIOUS
  <2> USE DEF PinKnown, FlowControlIsKnown
  <2>1. CASE PinRises \/ PinFalls
    BY <2>1 DEF PinRises, PinFalls, flowVars
  <2>2. CASE FlowctrlIsr
    BY <2>2 DEF FlowctrlIsr
  <2>3. CASE ReadPin
    BY <2>3 DEF ReadPin, pinVars
  <2>4. CASE PauseDma \/ PauseQuiet \/ PauseStop
    BY <2>4 DEF PauseDma, PauseQuiet, PauseStop, pinVars
  <2>5. CASE ResumeDma
    BY <2>5 DEF ResumeDma, pinVars
  <2>6. CASE UNCHANGED <<txen, edge, pauses, flowIsr, dmaNrfFlowControlBufferFull>>
    BY <2>6
  <2>7. SyslinkNext /\ ~PinRises /\ ~PinFalls /\ ~FlowStep =>
          UNCHANGED <<txen, edge, pauses, flowIsr, dmaNrfFlowControlBufferFull>>
    BY DEF SyslinkNext, SendStep, DmaByte, DmaTXIsr, PacketReceived, EnableIncoming, ReceivePacket,
       RequestSend, TakeAccess, TakeUart, CopyData, InitStream, ArmStream, StartStream, SendDone,
       flowVars, pinVars
  <2>8. QED
    BY <2>1, <2>2, <2>3, <2>4, <2>5, <2>6, <2>7 DEF FlowStep, syslinkVars, flowVars, pinVars
<1>3. PinKnown => FlowControlIsKnown
  BY DEF PinKnown
<1>4. QED
  BY <1>1, <1>2, <1>3, PTL DEF SyslinkSpec
=============================================================================
