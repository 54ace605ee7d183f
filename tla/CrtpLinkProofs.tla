--------------------------- MODULE CrtpLinkProofs ---------------------------
(***************************************************************************)
(* Type correctness and the safety properties of the communication stack,  *)
(* for any lengths of the queues, any servers and any number of packets.   *)
(*                                                                         *)
(* The queues and the tasks are places through which a packet passes in    *)
(* order.  A step of the stack lets a packet arrive at a place, moves one  *)
(* towards the servers, or leaves them all; what is true of arrivals and   *)
(* moves in general is proved once.                                        *)
(***************************************************************************)
EXTENDS CrtpLink, TLAPS

-----------------------------------------------------------------------------
(* Sequences and packets *)

\* What Append does to a sequence.
LEMMA Appended ==
  ASSUME NEW S, NEW s \in Seq(S), NEW e \in S
  PROVE  /\ Append(s, e) \in Seq(S) /\ Append(s, e) # <<>>
         /\ Len(Append(s, e)) = Len(s) + 1
         /\ ToSet(Append(s, e)) = ToSet(s) \union {e}
<1>1. /\ Append(s, e) \in Seq(S) /\ Len(Append(s, e)) = Len(s) + 1
      /\ \A i \in 1 .. Len(s) : Append(s, e)[i] = s[i]
      /\ Append(s, e)[Len(s) + 1] = e
  OBVIOUS
<1>2. DOMAIN Append(s, e) = 1 .. Len(s) + 1 /\ DOMAIN s = 1 .. Len(s) /\ Len(s) \in Nat
  BY <1>1
<1>3. ToSet(Append(s, e)) = {Append(s, e)[i] : i \in 1 .. Len(s) + 1}
  BY <1>2 DEF ToSet
<1>4. ToSet(s) = {s[i] : i \in 1 .. Len(s)}
  BY <1>2 DEF ToSet
<1>5. 1 .. Len(s) + 1 = (1 .. Len(s)) \union {Len(s) + 1}
  BY <1>2
<1>6. ToSet(Append(s, e)) = ToSet(s) \union {e}
  BY <1>1, <1>3, <1>4, <1>5
<1>7. Append(s, e) # <<>>
  <2>1. Append(s, e) = <<>> => Len(Append(s, e)) = 0
    OBVIOUS
  <2>2. QED
    BY <2>1, <1>1, <1>2
<1>8. QED
  BY <1>1, <1>6, <1>7

\* ... and what Tail takes from it.
LEMMA Taken ==
  ASSUME NEW S, NEW s \in Seq(S), s # <<>>
  PROVE  /\ Head(s) \in S /\ Tail(s) \in Seq(S)
         /\ Len(Tail(s)) = Len(s) - 1 /\ Len(s) \in Nat \ {0}
         /\ ToSet(s) = {Head(s)} \union ToSet(Tail(s))
         /\ Head(s) = s[1]
         /\ \A i \in 1 .. Len(Tail(s)) : Tail(s)[i] = s[i + 1]
<1>1. /\ Head(s) \in S /\ Tail(s) \in Seq(S) /\ Len(s) \in Nat \ {0}
      /\ Len(Tail(s)) = Len(s) - 1 /\ Head(s) = s[1]
      /\ \A i \in 1 .. Len(Tail(s)) : Tail(s)[i] = s[i + 1]
  OBVIOUS
<1>2. DOMAIN s = 1 .. Len(s) /\ DOMAIN Tail(s) = 1 .. Len(s) - 1
  BY <1>1
<1>3. ToSet(s) = {s[i] : i \in 1 .. Len(s)}
  BY <1>2 DEF ToSet
<1>4. ToSet(Tail(s)) = {Tail(s)[i] : i \in 1 .. Len(s) - 1}
  BY <1>2 DEF ToSet
<1>5. ASSUME NEW i \in 1 .. Len(s)
      PROVE  s[i] \in {Head(s)} \union ToSet(Tail(s))
  <2>1. CASE i = 1
    BY <2>1, <1>1
  <2>2. CASE i # 1
    <3>1. i - 1 \in 1 .. Len(s) - 1 /\ Tail(s)[i - 1] = s[i]
      BY <2>2, <1>1
    <3>2. QED
      BY <3>1, <1>4
  <2>3. QED
    BY <2>1, <2>2
<1>6. ASSUME NEW i \in 1 .. Len(s) - 1
      PROVE  Tail(s)[i] \in ToSet(s)
  BY <1>1, <1>3
<1>7. Head(s) \in ToSet(s)
  BY <1>1, <1>3
<1>8. ToSet(s) = {Head(s)} \union ToSet(Tail(s))
  BY <1>3, <1>4, <1>5, <1>6, <1>7
<1>9. QED
  BY <1>1, <1>8

\* A bounded queue stays within its bound.
LEMMA Queued ==
  ASSUME NEW S, NEW q \in Seq(S), NEW size \in Nat, Len(q) <= size
  PROVE  /\ \A e \in S : ~Full(q, size) => Append(q, e) \in Seq(S) /\ Len(Append(q, e)) <= size
         /\ q # <<>> => Head(q) \in S /\ Tail(q) \in Seq(S) /\ Len(Tail(q)) <= size
<1>1. ASSUME NEW e \in S, ~Full(q, size)
      PROVE  Append(q, e) \in Seq(S) /\ Len(Append(q, e)) <= size
  <2>1. Append(q, e) \in Seq(S) /\ Len(Append(q, e)) = Len(q) + 1 /\ Len(q) \in Nat
    BY Appended
  <2>2. QED
    BY <2>1, <1>1 DEF Full
<1>2. ASSUME q # <<>>
      PROVE  Head(q) \in S /\ Tail(q) \in Seq(S) /\ Len(Tail(q)) <= size
  <2>1. /\ Head(q) \in S /\ Tail(q) \in Seq(S) /\ Len(Tail(q)) = Len(q) - 1
        /\ Len(q) \in Nat \ {0}
    BY <1>2, Taken
  <2>2. QED
    BY <2>1
<1>3. QED
  BY <1>1, <1>2

\* The members of a sequence, and of the empty one.
LEMMA Members ==
  /\ ToSet(<<>>) = {}
  /\ \A S : \A s \in Seq(S) : ToSet(s) \subseteq S /\ \A i \in 1 .. Len(s) : s[i] \in ToSet(s)
  BY DEF ToSet

\* The packets by themselves.
LEMMA PacketFacts ==
  /\ \A p \in Packets : p.id \in Nat \ {0} /\ p.port \in Ports /\ p.via \in Links /\ p # Nothing
  /\ nextIn \in Nat \ {0} =>
       \A port \in Ports, link \in Links :
         /\ Packet(port, link) \in Packets
         /\ Packet(port, link).id = nextIn /\ Packet(port, link).via = link
<1>1. \A p \in Packets : p.id \in Nat \ {0} /\ p.port \in Ports /\ p.via \in Links
  BY DEF Packets, Ids
<1>2. \A p \in Packets : p # Nothing
  BY <1>1 DEF Nothing
<1>3. QED
  BY <1>1, <1>2 DEF Packets, Packet, Ids

-----------------------------------------------------------------------------
(* Types *)

requestVars == <<radioRx, usbRx, packetsQueue, portQueues, usbTask, rxTask, taken, early, refused,
                 nextIn>>
replyVars == <<radioTx, usbTx, usbTransfer, txQueue, txTask, left, nextOut>>

\* The sizes of the queues.
LEMMA Sizes ==
  /\ TxQueueSize \in Nat \ {0} /\ PortQueueSize \in Nat \ {0} /\ RadioRxSize \in Nat \ {0}
  /\ UsbRxSize \in Nat \ {0} /\ UsbPacketsSize \in Nat \ {0}
  BY CrtpLinkAssumption

\* All queues are empty at the start.
LEMMA TypeInit == Init => TypeOK
<1> SUFFICES ASSUME Init PROVE TypeOK
  OBVIOUS
<1>1. RequestsTyped
  BY Sizes DEF Init, RequestsTyped, Ids
<1>2. RepliesTyped
  BY Sizes DEF Init, RepliesTyped, Links, Ids
<1>3. FlagsTyped
  BY DEF Init, FlagsTyped
<1>4. QED
  BY <1>1, <1>2, <1>3 DEF TypeOK

\* The steps that take, move or hand over packets from the client
RequestStep ==
  \/ Radio \/ (\E port \in Ports : DataOut(port)) \/ UsbLinkTask \/ RxTask
  \/ \E port \in Servers : ServerReceive(port)

\* ... are the only ones that touch them.
LEMMA OthersLeaveRequests ==
  ASSUME Next, ~RequestStep
  PROVE  UNCHANGED <<requestVars, accepted>>
<1> USE DEF requestVars
<1>1. CASE UsbInit \/ SetupUsbLink \/ SetupRadioLink
  BY <1>1 DEF UsbInit, SetupUsbLink, SetupRadioLink, linkVars, usbVars, taskVars, portVars, historyVars, lossVars
<1>2. CASE DataIn \/ StartOfFrame
  BY <1>2 DEF DataIn, StartOfFrame, StartTransfer, linkVars, taskVars, portVars, historyVars, lossVars
<1>3. ASSUME NEW closes \in BOOLEAN, ResetUsb(closes)
      PROVE  UNCHANGED <<requestVars, accepted>>
  BY <1>3 DEF ResetUsb, linkVars, taskVars, portVars, historyVars, lossVars
<1>4. CASE TxTask
  BY <1>4 DEF TxTask, TxTake, TxWait, TxSend, TxTimeout, linkVars, usbVars, portVars, historyVars, lossVars
<1>5. ASSUME NEW port \in Ports, StartServer(port) \/ ServerReply(port)
      PROVE  UNCHANGED <<requestVars, accepted>>
  BY <1>5 DEF StartServer, ServerReply, linkVars, usbVars, taskVars, historyVars, lossVars
<1>6. CASE Publish \/ CrtpReset \/ CommInit
  BY <1>6 DEF Publish, CrtpReset, CommInit, linkVars, usbVars, taskVars, portVars, historyVars, lossVars
<1>7. QED
  BY <1>1, <1>2, <1>3, <1>4, <1>5, <1>6 DEF Next, RequestStep, UsbInterrupt, Server, Ports

\* Every step keeps the packets from the client packets, and their queues short.
LEMMA RequestsStep ==
  ASSUME RequestsTyped, FlagsTyped, [Next]_crtpVars
  PROVE  RequestsTyped'
<1>1. /\ radioRx \in Seq(Packets) /\ Len(radioRx) <= RadioRxSize
      /\ usbRx \in Seq(Packets) /\ Len(usbRx) <= UsbRxSize
      /\ packetsQueue \in Seq(Packets) /\ Len(packetsQueue) <= UsbPacketsSize
      /\ portQueues \in [Servers -> Seq(Packets)]
      /\ \A port \in Servers : Len(portQueues[port]) <= PortQueueSize
      /\ taken \in Seq(Packets) /\ early \subseteq Packets /\ refused \subseteq Packets
      /\ nextIn \in Nat \ {0} /\ nextIn + 1 \in Ids
  BY DEF RequestsTyped, Ids
<1>2. ASSUME NEW port \in Ports, RadioPacket(port) \/ RadioBroadcast(port)
      PROVE  RequestsTyped'
  <2>1. /\ \/ radioRx' = radioRx
           \/ ~Full(radioRx, RadioRxSize) /\ radioRx' = Append(radioRx, Packet(port, "radio"))
        /\ nextIn' = nextIn + 1
        /\ UNCHANGED <<usbRx, packetsQueue, portQueues, usbTask, rxTask, taken, early, refused>>
    BY <1>2 DEF RadioPacket, RadioBroadcast, linkVars, usbVars, taskVars, portVars, lossVars
  <2>2. Packet(port, "radio") \in Packets
    BY <1>1, PacketFacts DEF Links
  <2>3. radioRx' \in Seq(Packets) /\ Len(radioRx') <= RadioRxSize
    BY <1>1, <2>1, <2>2, Queued, Sizes
  <2>4. QED
    BY <1>1, <2>1, <2>3 DEF RequestsTyped
<1>3. ASSUME NEW port \in Ports, DataOut(port)
      PROVE  RequestsTyped'
  <2>1. /\ \/ usbRx' = usbRx
           \/ ~Full(usbRx, UsbRxSize) /\ usbRx' = Append(usbRx, Packet(port, "usb"))
        /\ refused' = refused \/ refused' = refused \union {Packet(port, "usb")}
        /\ nextIn' = nextIn + 1
        /\ UNCHANGED <<radioRx, packetsQueue, portQueues, usbTask, rxTask, taken, early>>
    BY <1>3 DEF DataOut, linkVars, taskVars, portVars
  <2>2. Packet(port, "usb") \in Packets
    BY <1>1, PacketFacts DEF Links
  <2>3. usbRx' \in Seq(Packets) /\ Len(usbRx') <= UsbRxSize
    BY <1>1, <2>1, <2>2, Queued, Sizes
  <2>4. refused' \subseteq Packets
    BY <1>1, <2>1, <2>2
  <2>5. QED
    BY <1>1, <2>1, <2>3, <2>4 DEF RequestsTyped
<1>4. CASE UsbReceive
  <2>1. /\ Head(usbRx) \in Packets /\ Tail(usbRx) \in Seq(Packets)
        /\ Len(Tail(usbRx)) <= UsbRxSize
    BY <1>1, <1>4, Queued, Sizes DEF UsbReceive
  <2>2. Head(usbRx) # Nothing
    BY <2>1, PacketFacts
  <2>3. QED
    BY <1>4, <2>1, <2>2 DEF UsbReceive, RequestsTyped, linkVars, portVars, historyVars, lossVars
<1>5. CASE UsbRearm
  BY <1>5 DEF UsbRearm, RequestsTyped, linkVars, portVars, historyVars, lossVars
<1>6. CASE UsbForward
  <2>1. usbTask.packet \in Packets
    BY <1>6 DEF UsbForward, RequestsTyped
  <2>2. packetsQueue' \in Seq(Packets) /\ Len(packetsQueue') <= UsbPacketsSize
    BY <1>1, <1>6, <2>1, Queued, Sizes DEF UsbForward
  <2>3. QED
    BY <1>6, <2>2 DEF UsbForward, RequestsTyped, linkVars, usbVars, portVars, historyVars, lossVars
<1>7. CASE RxWait
  BY <1>7 DEF RxWait, RequestsTyped, FlagsTyped, linkVars, usbVars, portVars, historyVars, lossVars
<1>8. CASE RxTimeout
  BY <1>8 DEF RxTimeout, RequestsTyped, linkVars, usbVars, portVars, historyVars, lossVars
<1>9. CASE RxReceive
  <2>1. UNCHANGED <<usbRx, portQueues, usbTask, taken, early, refused, nextIn>>
    BY <1>9 DEF RxReceive, usbVars, portVars, historyVars, lossVars
  <2>2. ASSUME radioRx # <<>>, rxTask' = [link |-> "none", packet |-> Head(radioRx)],
               radioRx' = Tail(radioRx), UNCHANGED packetsQueue
        PROVE  RequestsTyped'
    <3>1. /\ Head(radioRx) \in Packets /\ Tail(radioRx) \in Seq(Packets)
          /\ Len(Tail(radioRx)) <= RadioRxSize
      BY <1>1, <2>2, Queued, Sizes
    <3>2. QED
      BY <2>1, <2>2, <3>1 DEF RequestsTyped
  <2>3. ASSUME packetsQueue # <<>>, rxTask' = [link |-> "none", packet |-> Head(packetsQueue)],
               packetsQueue' = Tail(packetsQueue), UNCHANGED radioRx
        PROVE  RequestsTyped'
    <3>1. /\ Head(packetsQueue) \in Packets /\ Tail(packetsQueue) \in Seq(Packets)
          /\ Len(Tail(packetsQueue)) <= UsbPacketsSize
      BY <1>1, <2>3, Queued, Sizes
    <3>2. QED
      BY <2>1, <2>3, <3>1 DEF RequestsTyped
  <2>4. QED
    BY <1>9, <2>2, <2>3 DEF RxReceive
<1>10. CASE RxDeliver
  <2>1. rxTask.packet \in Packets
    BY <1>10 DEF RxDeliver, RequestsTyped
  <2>2. UNCHANGED <<radioRx, usbRx, packetsQueue, usbTask, refused, nextIn>>
        /\ rxTask' \in [link : Links \union {"none"}, packet : {Nothing}]
    BY <1>10 DEF RxDeliver, Delivered, RequestsTyped, linkVars, usbVars
  <2>3. ASSUME HandedOver(rxTask.packet) \/ Forgotten(rxTask.packet)
        PROVE  RequestsTyped'
    <3>1. taken' \in Seq(Packets) /\ early' \subseteq Packets
      <4>1. CASE HandedOver(rxTask.packet)
        BY <1>1, <2>1, <4>1, Appended DEF HandedOver
      <4>2. CASE Forgotten(rxTask.packet)
        BY <1>1, <2>1, <4>2 DEF Forgotten
      <4>3. QED
        BY <2>3, <4>1, <4>2
    <3>2. UNCHANGED portQueues
      BY <2>3 DEF HandedOver, Forgotten
    <3>3. QED
      BY <2>2, <3>1, <3>2 DEF RequestsTyped
  <2>4. ASSUME NEW port \in Servers, ~Full(portQueues[port], PortQueueSize),
               UNCHANGED <<taken, early>>,
               portQueues' = [portQueues EXCEPT ![port] = Append(@, rxTask.packet)]
        PROVE  RequestsTyped'
    <3>1. portQueues[port] \in Seq(Packets) /\ Len(portQueues[port]) <= PortQueueSize
      BY <1>1
    <3>2. /\ Append(portQueues[port], rxTask.packet) \in Seq(Packets)
          /\ Len(Append(portQueues[port], rxTask.packet)) <= PortQueueSize
      BY <2>1, <2>4, <3>1, Queued, Sizes
    <3>3. portQueues' \in [Servers -> Seq(Packets)]
          /\ \A p \in Servers : Len(portQueues'[p]) <= PortQueueSize
      BY <1>1, <2>4, <3>2
    <3>4. QED
      BY <2>2, <2>4, <3>3 DEF RequestsTyped
  <2>5. QED
    BY <1>10, <2>3, <2>4 DEF RxDeliver, Enqueued
<1>11. ASSUME NEW port \in Servers, ServerReceive(port)
       PROVE  RequestsTyped'
  <2>1. /\ portQueues[port] \in Seq(Packets) /\ portQueues[port] # <<>>
        /\ Len(portQueues[port]) <= PortQueueSize
    BY <1>1, <1>11 DEF ServerReceive
  <2>2. /\ Head(portQueues[port]) \in Packets /\ Tail(portQueues[port]) \in Seq(Packets)
        /\ Len(Tail(portQueues[port])) <= PortQueueSize
    BY <2>1, Queued, Sizes
  <2>3. taken' \in Seq(Packets)
    BY <1>1, <1>11, <2>2, Appended DEF ServerReceive
  <2>4. portQueues' \in [Servers -> Seq(Packets)]
        /\ \A p \in Servers : Len(portQueues'[p]) <= PortQueueSize
    BY <1>1, <1>11, <2>2 DEF ServerReceive
  <2>5. UNCHANGED <<radioRx, usbRx, packetsQueue, usbTask, rxTask, early, refused, nextIn>>
    BY <1>11 DEF ServerReceive, linkVars, usbVars, taskVars, lossVars
  <2>6. QED
    BY <2>3, <2>4, <2>5 DEF RequestsTyped
<1>12. ASSUME UNCHANGED requestVars PROVE RequestsTyped'
  BY <1>12 DEF requestVars, RequestsTyped
<1>13. CASE Next /\ ~RequestStep
  BY <1>12, <1>13, OthersLeaveRequests
<1>14. CASE UNCHANGED crtpVars
  BY <1>12, <1>14 DEF crtpVars, linkVars, usbVars, taskVars, portVars, historyVars, lossVars, requestVars
<1>15. QED
  BY <1>2, <1>3, <1>4, <1>5, <1>6, <1>7, <1>8, <1>9, <1>10, <1>11, <1>13, <1>14
     DEF RequestStep, Radio, UsbLinkTask, RxTask

\* Every step keeps the flags Booleans.
LEMMA FlagsStep ==
  ASSUME FlagsTyped, [Next]_crtpVars
  PROVE  FlagsTyped'
<1> USE DEF FlagsTyped, Links
<1>1. CASE UsbInit \/ SetupUsbLink \/ SetupRadioLink
  BY <1>1 DEF UsbInit, SetupUsbLink, SetupRadioLink, usbVars, portVars, sysVars,
     historyVars, lossVars
<1>2. CASE DataIn \/ StartOfFrame
  BY <1>2 DEF DataIn, StartOfFrame, StartTransfer, portVars, sysVars, historyVars, lossVars
<1>3. ASSUME NEW closes \in BOOLEAN, ResetUsb(closes)
      PROVE  FlagsTyped'
  BY <1>3 DEF ResetUsb, portVars, sysVars, historyVars, lossVars
<1>4. ASSUME NEW port \in Ports, DataOut(port)
      PROVE  FlagsTyped'
  BY <1>4 DEF DataOut, Full, portVars, sysVars
<1>5. CASE UsbReceive \/ UsbForward
  BY <1>5 DEF UsbReceive, UsbForward, usbVars, portVars, sysVars, historyVars, lossVars
<1>6. CASE UsbRearm
  BY <1>6 DEF UsbRearm, portVars, sysVars
<1>7. ASSUME NEW port \in Ports, RadioPacket(port) \/ RadioBroadcast(port)
      PROVE  FlagsTyped'
  BY <1>7 DEF RadioPacket, RadioBroadcast, usbVars, portVars, sysVars, lossVars
<1>8. CASE RxWait \/ RxReceive \/ RxTimeout
  BY <1>8 DEF RxWait, RxReceive, RxTimeout, usbVars, portVars, sysVars, historyVars, lossVars
<1>9. CASE RxDeliver
  BY <1>9 DEF RxDeliver, Delivered, usbVars, sysVars
<1>10. CASE TxTake \/ TxWait \/ TxSend \/ TxTimeout
  BY <1>10 DEF TxTake, TxWait, TxSend, TxTimeout, usbVars, portVars, sysVars, historyVars,
     lossVars
<1>11. ASSUME NEW port \in Ports, StartServer(port)
       PROVE  FlagsTyped'
  BY <1>11 DEF StartServer, usbVars, sysVars, historyVars, lossVars
<1>12. ASSUME NEW port \in Servers, ServerReceive(port) \/ ServerReply(port)
       PROVE  FlagsTyped'
  BY <1>12 DEF ServerReceive, ServerReply, usbVars, sysVars, lossVars
<1>13. CASE Publish \/ CrtpReset \/ CommInit
  BY <1>13 DEF Publish, CrtpReset, CommInit, usbVars, portVars, sysVars, historyVars,
     lossVars
<1>14. CASE UNCHANGED crtpVars
  BY <1>14 DEF crtpVars, usbVars, portVars, sysVars, historyVars, lossVars
<1>15. QED
  BY <1>1, <1>2, <1>3, <1>4, <1>5, <1>6, <1>7, <1>8, <1>9, <1>10, <1>11, <1>12, <1>13, <1>14
     DEF Next, Radio, UsbInterrupt, UsbLinkTask, RxTask, TxTask, Server

\* The steps that queue, move or send packets to the client
ReplyStep ==
  \/ \E port \in Ports : RadioPacket(port)
  \/ \E closes \in BOOLEAN : ResetUsb(closes)
  \/ DataIn \/ StartOfFrame
  \/ \E port \in Servers : ServerReply(port)
  \/ Publish \/ CrtpReset \/ TxTask

\* ... are the only ones that touch them.
LEMMA OthersLeaveReplies ==
  ASSUME Next, ~ReplyStep
  PROVE  UNCHANGED replyVars
<1> USE DEF replyVars
<1>1. CASE UsbInit \/ SetupUsbLink \/ SetupRadioLink \/ CommInit
  BY <1>1 DEF UsbInit, SetupUsbLink, SetupRadioLink, CommInit, linkVars, usbVars, taskVars,
     portVars, historyVars, lossVars
<1>2. ASSUME NEW port \in Ports, DataOut(port) \/ RadioBroadcast(port)
      PROVE  UNCHANGED replyVars
  BY <1>2 DEF DataOut, RadioBroadcast, linkVars, usbVars, taskVars, portVars
<1>3. CASE UsbLinkTask
  BY <1>3 DEF UsbLinkTask, UsbReceive, UsbRearm, UsbForward, linkVars, usbVars, portVars, historyVars, lossVars
<1>4. CASE RxTask
  BY <1>4 DEF RxTask, RxWait, RxReceive, RxTimeout, RxDeliver, Delivered, linkVars, usbVars, portVars, historyVars, lossVars
<1>5. ASSUME NEW port \in Ports, StartServer(port) \/ ServerReceive(port)
      PROVE  UNCHANGED replyVars
  BY <1>5 DEF StartServer, ServerReceive, linkVars, usbVars, taskVars, historyVars, lossVars
<1>6. QED
  BY <1>1, <1>2, <1>3, <1>4, <1>5 DEF Next, Radio, ReplyStep, UsbInterrupt, Server, Ports

\* A packet that leaves a queue goes to what has left over its link.
LEMMA LeaveTyped ==
  ASSUME left \in [Links -> Seq(Ids)], NEW q \in Seq(Ids), NEW link \in Links, Leave(q, link)
  PROVE  left' \in [Links -> Seq(Ids)]
<1>1. CASE q = <<>>
  BY <1>1 DEF Leave
<1>2. CASE q # <<>>
  <2>1. Head(q) \in Ids /\ left[link] \in Seq(Ids)
    BY <1>2, Taken
  <2>2. Append(left[link], Head(q)) \in Seq(Ids)
    BY <2>1, Appended
  <2>3. QED
    BY <1>2, <2>2 DEF Leave
<1>3. QED
  BY <1>1, <1>2

\* Every step keeps the packets to the client numbers, and their queues short.
LEMMA RepliesStep ==
  ASSUME RepliesTyped, FlagsTyped, [Next]_crtpVars
  PROVE  RepliesTyped'
<1>1. /\ radioTx \in Seq(Ids) /\ Len(radioTx) <= 1
      /\ usbTx \in Seq(Ids) /\ Len(usbTx) <= 1
      /\ usbTransfer \in Seq(Ids) /\ Len(usbTransfer) <= 1
      /\ txQueue \in Seq(Ids) /\ Len(txQueue) <= TxQueueSize
      /\ txTask \in [link : Links \union {"none"}, packet : Nat]
      /\ left \in [Links -> Seq(Ids)]
      /\ nextOut \in Ids /\ nextOut + 1 \in Ids
      /\ "radio" \in Links /\ "usb" \in Links
  BY DEF RepliesTyped, Links, Ids
<1>2. /\ \A n \in Ids : <<n>> \in Seq(Ids) /\ Len(<<n>>) = 1
      /\ <<>> \in Seq(Ids) /\ Len(<<>>) = 0
  OBVIOUS
<1>3. ASSUME NEW port \in Ports, RadioPacket(port)
      PROVE  RepliesTyped'
  <2>1. /\ \/ UNCHANGED <<radioTx, left>>
           \/ radioTx' = <<>> /\ Leave(radioTx, "radio")
        /\ UNCHANGED <<usbTx, usbTransfer, txQueue, txTask, nextOut>>
    BY <1>3 DEF RadioPacket, linkVars, usbVars, taskVars, portVars
  <2>2. left' \in [Links -> Seq(Ids)]
    BY <1>1, <2>1, LeaveTyped
  <2>3. radioTx' \in Seq(Ids) /\ Len(radioTx') <= 1
    <3>1. CASE radioTx' = radioTx
      BY <1>1, <3>1
    <3>2. CASE radioTx' = <<>>
      BY <1>2, <3>2
    <3>3. QED
      BY <2>1, <3>1, <3>2
  <2>4. QED
    BY <1>1, <2>1, <2>2, <2>3 DEF RepliesTyped
<1>4. ASSUME NEW closes \in BOOLEAN, ResetUsb(closes)
      PROVE  RepliesTyped'
  <2>1. usbTx' = <<>> /\ usbTransfer' = <<>> /\ UNCHANGED <<radioTx, txQueue, txTask, left, nextOut>>
    BY <1>4 DEF ResetUsb, linkVars, taskVars, portVars, historyVars, lossVars
  <2>2. QED
    BY <2>1 DEF RepliesTyped
<1>5. ASSUME StartTransfer, UNCHANGED nextOut, left' \in [Links -> Seq(Ids)]
      PROVE  RepliesTyped'
  <2>1. UNCHANGED <<radioTx, txQueue, txTask>>
    BY <1>5 DEF StartTransfer, linkVars, taskVars, portVars
  <2>2. /\ usbTx' \in Seq(Ids) /\ Len(usbTx') <= 1
        /\ usbTransfer' \in Seq(Ids) /\ Len(usbTransfer') <= 1
    <3>1. CASE usbTx = <<>>
      BY <1>5, <3>1 DEF StartTransfer
    <3>2. CASE usbTx # <<>>
      <4>1. Head(usbTx) \in Ids /\ Tail(usbTx) \in Seq(Ids) /\ Len(Tail(usbTx)) <= 1
        BY <1>1, <3>2, Queued
      <4>2. QED
        BY <1>2, <1>5, <3>2, <4>1 DEF StartTransfer
    <3>3. QED
      BY <3>1, <3>2
  <2>3. QED
    BY <1>5, <2>1, <2>2 DEF RepliesTyped
<1>6. CASE DataIn
  <2>1. left' \in [Links -> Seq(Ids)]
    BY <1>1, <1>6, LeaveTyped DEF DataIn
  <2>2. QED
    BY <1>5, <1>6, <2>1 DEF DataIn
<1>7. CASE StartOfFrame
  BY <1>1, <1>5, <1>7 DEF StartOfFrame, historyVars, lossVars
<1>8. ASSUME \/ UNCHANGED txQueue
             \/ ~Full(txQueue, TxQueueSize) /\ txQueue' = Append(txQueue, nextOut),
             nextOut' = nextOut + 1,
             UNCHANGED <<radioTx, usbTx, usbTransfer, txTask, left>>
      PROVE  RepliesTyped'
  <2>1. txQueue' \in Seq(Ids) /\ Len(txQueue') <= TxQueueSize
    <3>1. CASE UNCHANGED txQueue
      BY <1>1, <3>1
    <3>2. CASE ~Full(txQueue, TxQueueSize) /\ txQueue' = Append(txQueue, nextOut)
      <4>1. /\ Append(txQueue, nextOut) \in Seq(Ids)
            /\ Len(Append(txQueue, nextOut)) <= TxQueueSize
        BY <1>1, <3>2, Queued, Sizes
      <4>2. QED
        BY <3>2, <4>1
    <3>3. QED
      BY <1>8, <3>1, <3>2
  <2>2. QED
    BY <1>1, <1>8, <2>1 DEF RepliesTyped
<1>9. ASSUME NEW port \in Servers, ServerReply(port)
      PROVE  RepliesTyped'
  BY <1>8, <1>9 DEF ServerReply, linkVars, usbVars, taskVars
<1>10. CASE Publish
  BY <1>8, <1>10 DEF Publish, linkVars, usbVars, taskVars
<1>11. CASE CrtpReset
  <2>1. txQueue' = <<>> /\ UNCHANGED <<radioTx, usbTx, usbTransfer, txTask, left, nextOut>>
    BY <1>11 DEF CrtpReset, linkVars, usbVars, taskVars, historyVars
  <2>2. QED
    BY <2>1, Sizes DEF RepliesTyped
<1>12. CASE TxTake
  <2>1. Head(txQueue) \in Ids /\ Tail(txQueue) \in Seq(Ids) /\ Len(Tail(txQueue)) <= TxQueueSize
    BY <1>1, <1>12, Queued, Sizes DEF TxTake
  <2>2. UNCHANGED <<radioTx, usbTx, usbTransfer, left, nextOut>>
    BY <1>12 DEF TxTake, linkVars, usbVars, historyVars, lossVars
  <2>3. QED
    BY <1>12, <2>1, <2>2 DEF TxTake, RepliesTyped, Ids
<1>13. CASE TxWait \/ TxTimeout
  <2>1. /\ txTask' \in [link : Links \union {"none"}, packet : Nat]
        /\ txTask'.link = "none" \/ txTask'.packet # 0
    BY <1>1, <1>13 DEF TxWait, TxTimeout, FlagsTyped
  <2>2. UNCHANGED <<radioTx, usbTx, usbTransfer, txQueue, left, nextOut>>
    BY <1>13 DEF TxWait, TxTimeout, linkVars, usbVars, portVars, historyVars, lossVars
  <2>3. QED
    BY <2>1, <2>2 DEF RepliesTyped
<1>14. CASE TxSend
  <2>1. txTask.packet \in Ids
    BY <1>14 DEF TxSend, RepliesTyped, Ids
  <2>2. /\ \/ radioTx' = <<txTask.packet>> /\ UNCHANGED usbTx
           \/ usbTx' = <<txTask.packet>> /\ UNCHANGED radioTx
        /\ txTask' = [link |-> "none", packet |-> 0]
        /\ UNCHANGED <<usbTransfer, txQueue, left, nextOut>>
    BY <1>14 DEF TxSend, portVars, historyVars, lossVars
  <2>3. <<txTask.packet>> \in Seq(Ids) /\ Len(<<txTask.packet>>) <= 1
    BY <2>1
  <2>4. /\ radioTx' \in Seq(Ids) /\ Len(radioTx') <= 1
        /\ usbTx' \in Seq(Ids) /\ Len(usbTx') <= 1
    BY <1>1, <2>2, <2>3
  <2>5. QED
    BY <1>1, <2>2, <2>4 DEF RepliesTyped
<1>15. CASE UNCHANGED replyVars
  BY <1>15 DEF replyVars, RepliesTyped
<1>16. CASE UNCHANGED crtpVars
  BY <1>15, <1>16 DEF crtpVars, linkVars, usbVars, taskVars, portVars, historyVars, lossVars, replyVars
<1>17. QED
  BY <1>3, <1>4, <1>6, <1>7, <1>9, <1>10, <1>11, <1>12, <1>13, <1>14, <1>15, <1>16,
     OthersLeaveReplies
     DEF ReplyStep, TxTask

\* The stack is correctly typed.
LEMMA TypeStep ==
  ASSUME TypeOK, [Next]_crtpVars
  PROVE  TypeOK'
  BY RequestsStep, RepliesStep, FlagsStep DEF TypeOK

-----------------------------------------------------------------------------
(* Requests: the places in the order in which a packet passes them *)

Place == <<ToSet(taken) \union early,
           UNION {ToSet(portQueues[port]) : port \in Servers},
           {rxTask.packet} \ {Nothing},
           ToSet(radioRx) \union ToSet(packetsQueue),
           {usbTask.packet} \ {Nothing},
           ToSet(usbRx)>>

\* If the two packets are of one link and one port, the first was sent first
Before(p, q) == p.port = q.port /\ p.via = q.via => p.id < q.id

InOrder(s) == \A i, j \in 1 .. Len(s) : i < j => Before(s[i], s[j])

\* A packet nearer to the servers was sent before one that is farther off
PlacesInOrder ==
  \A m, n \in 1 .. 6 : m < n => \A p \in Place[m], q \in Place[n] : Before(p, q)

QueuesInOrder ==
  /\ InOrder(taken) /\ InOrder(radioRx) /\ InOrder(packetsQueue) /\ InOrder(usbRx)
  /\ \A port \in Servers : InOrder(portQueues[port])

\* Every queue holds packets of its link or of its port
Sorted ==
  /\ \A p \in ToSet(radioRx) : p.via = "radio"
  /\ \A p \in ToSet(packetsQueue) \union Place[5] \union Place[6] : p.via = "usb"
  /\ \A port \in Servers : \A p \in ToSet(portQueues[port]) : p.port = port
  /\ \A port \in Servers : ~ready[port] => portQueues[port] = <<>>

\* What was accepted is in one of the places, or was refused, and was sent already
Kept ==
  /\ accepted = {p.id : p \in (UNION {Place[k] : k \in 1 .. 6}) \union refused}
  /\ \A k \in 1 .. 6 : \A p \in Place[k] : p.id < nextIn

\* A port that is not served has been handed nothing, and what it lost came first
EarlyFirst ==
  /\ \A port \in Ports : ~ready[port] => \A p \in ToSet(taken) : p.port # port
  /\ \A lost \in early, p \in ToSet(taken) : Before(lost, p)

RequestsInv ==
  RequestsTyped /\ PlacesInOrder /\ QueuesInOrder /\ Sorted /\ Kept /\ EarlyFirst

\* A packet arrives at place k
Arrives(k, p) ==
  /\ p \in Packets /\ p.id = nextIn /\ nextIn' = nextIn + 1
  /\ accepted' = accepted \union {nextIn} /\ refused' = refused
  /\ \A m \in 1 .. 6 : Place'[m] = IF m = k THEN Place[m] \union {p} ELSE Place[m]
  /\ \A m \in k + 1 .. 6 : \A q \in Place[m] : Before(p, q)

\* ... or moves from place m to n, nearer to the servers, and overtakes nothing
Moves(m, n, p) ==
  /\ n < m /\ p \in Place[m]
  /\ Place'[n] = Place[n] \union {p}
  /\ Place'[m] \subseteq Place[m] /\ Place[m] \subseteq Place'[m] \union {p}
  /\ \A k \in 1 .. 6 : k # m /\ k # n => Place'[k] = Place[k]
  /\ \A k \in n + 1 .. m - 1 : \A q \in Place[k] : Before(p, q)
  /\ \A q \in Place'[m] : Before(p, q)
  /\ UNCHANGED <<accepted, refused, nextIn>>

\* All that is in a place is a packet.
LEMMA PlacesTyped ==
  ASSUME RequestsTyped, NEW k \in 1 .. 6
  PROVE  Place[k] \subseteq Packets
<1>1. k \in {1, 2, 3, 4, 5, 6}
  OBVIOUS
<1>2. \A s \in Seq(Packets) : ToSet(s) \subseteq Packets
  BY Members
<1>3. QED
  BY <1>1, <1>2 DEF Place, RequestsTyped

\* An arrival keeps the order, and what arrives is accepted.
LEMMA ArrivalKeeps ==
  ASSUME RequestsTyped, PlacesInOrder, Kept, NEW k \in 1 .. 6, NEW p, Arrives(k, p)
  PROVE  PlacesInOrder' /\ Kept'
<1>1. nextIn \in Nat \ {0} /\ \A m \in 1 .. 6 : \A q \in Place[m] : q.id \in Nat /\ q.id < nextIn
  BY PlacesTyped, PacketFacts DEF Kept, RequestsTyped, Ids
<1>2. ASSUME NEW m \in 1 .. 6, NEW n \in 1 .. 6, m < n, NEW q \in Place'[m], NEW r \in Place'[n]
      PROVE  Before(q, r)
  <2>1. CASE q \in Place[m] /\ r \in Place[n]
    BY <1>2, <2>1 DEF PlacesInOrder
  <2>2. CASE q \in Place[m] /\ r = p
    BY <1>1, <2>2 DEF Arrives, Before
  <2>3. CASE q = p /\ m = k /\ r \in Place[n]
    BY <1>2, <2>3 DEF Arrives
  <2>4. QED
    BY <1>2, <2>1, <2>2, <2>3 DEF Arrives
<1>3. PlacesInOrder'
  BY <1>2 DEF PlacesInOrder, Before
<1>4. \A m \in 1 .. 6 : \A q \in Place'[m] : q.id < nextIn'
  BY <1>1 DEF Arrives
<1>5. UNION {Place'[m] : m \in 1 .. 6} = (UNION {Place[m] : m \in 1 .. 6}) \union {p}
  BY DEF Arrives
<1>6. accepted' = {q.id : q \in (UNION {Place'[m] : m \in 1 .. 6}) \union refused'}
  BY <1>5 DEF Arrives, Kept
<1>7. QED
  BY <1>3, <1>4, <1>6 DEF Kept

\* A move keeps the order, and loses nothing.
LEMMA MoveKeeps ==
  ASSUME PlacesInOrder, Kept, NEW m \in 1 .. 6, NEW n \in 1 .. 6, NEW p, Moves(m, n, p)
  PROVE  PlacesInOrder' /\ Kept'
<1>1. ASSUME NEW i \in 1 .. 6, NEW j \in 1 .. 6, i < j, NEW q \in Place'[i], NEW r \in Place'[j]
      PROVE  Before(q, r)
  <2>1. /\ q \in Place[i] \/ (i = n /\ q = p)
        /\ r \in Place[j] \/ (j = n /\ r = p)
    BY DEF Moves
  <2>2. CASE q \in Place[i] /\ r \in Place[j]
    BY <1>1, <2>2 DEF PlacesInOrder
  <2>3. CASE q \in Place[i] /\ j = n /\ r = p
    BY <1>1, <2>3 DEF PlacesInOrder, Moves
  <2>4. CASE i = n /\ q = p /\ r \in Place[j]
    <3>1. CASE j < m
      BY <1>1, <2>4, <3>1 DEF Moves
    <3>2. CASE j = m
      BY <1>1, <2>4, <3>2 DEF Moves
    <3>3. CASE j > m
      BY <1>1, <2>4, <3>3 DEF Moves, PlacesInOrder
    <3>4. QED
      BY <3>1, <3>2, <3>3
  <2>5. QED
    BY <1>1, <2>1, <2>2, <2>3, <2>4
<1>2. PlacesInOrder'
  BY <1>1 DEF PlacesInOrder, Before
<1>3. UNION {Place'[k] : k \in 1 .. 6} = UNION {Place[k] : k \in 1 .. 6}
  BY DEF Moves
<1>4. \A k \in 1 .. 6 : \A q \in Place'[k] : q.id < nextIn'
  BY DEF Moves, Kept
<1>5. QED
  BY <1>2, <1>3, <1>4 DEF Moves, Kept

\* A queue stays in order when it takes a packet that all its packets precede, and
\* when it gives up its first.
LEMMA OrderAppended ==
  ASSUME NEW s \in Seq(Packets), NEW e \in Packets, InOrder(s), \A p \in ToSet(s) : Before(p, e)
  PROVE  InOrder(Append(s, e))
<1>1. \A i \in 1 .. Len(s) : s[i] \in ToSet(s)
  BY Members
<1>2. Len(s) \in Nat /\ Len(Append(s, e)) = Len(s) + 1 /\ Append(s, e)[Len(s) + 1] = e
      /\ \A i \in 1 .. Len(s) : Append(s, e)[i] = s[i]
  OBVIOUS
<1>3. ASSUME NEW i \in 1 .. Len(s) + 1, NEW j \in 1 .. Len(s) + 1, i < j
      PROVE  Before(Append(s, e)[i], Append(s, e)[j])
  <2>1. i \in 1 .. Len(s) /\ Append(s, e)[i] = s[i]
    BY <1>2, <1>3
  <2>2. CASE j \in 1 .. Len(s)
    BY <1>2, <1>3, <2>1, <2>2 DEF InOrder
  <2>3. CASE j = Len(s) + 1
    BY <1>1, <1>2, <2>1, <2>3
  <2>4. QED
    BY <1>2, <2>2, <2>3
<1>4. QED
  BY <1>2, <1>3 DEF InOrder

\* ... and when it gives up its first packet, which comes before all others.
LEMMA OrderTaken ==
  ASSUME NEW s \in Seq(Packets), s # <<>>, InOrder(s)
  PROVE  InOrder(Tail(s)) /\ \A q \in ToSet(Tail(s)) : Before(Head(s), q)
<1>1. /\ Tail(s) \in Seq(Packets) /\ Len(Tail(s)) = Len(s) - 1 /\ Len(s) \in Nat \ {0}
      /\ Head(s) = s[1] /\ \A i \in 1 .. Len(Tail(s)) : Tail(s)[i] = s[i + 1]
  BY Taken
<1>2. InOrder(Tail(s))
  BY <1>1 DEF InOrder
<1>3. ASSUME NEW q \in ToSet(Tail(s))
      PROVE  Before(Head(s), q)
  <2>1. PICK i \in 1 .. Len(Tail(s)) : q = Tail(s)[i]
    BY <1>1, <1>3 DEF ToSet
  <2>2. q = s[i + 1] /\ i + 1 \in 1 .. Len(s) /\ 1 \in 1 .. Len(s) /\ 1 < i + 1
    BY <1>1, <2>1
  <2>3. QED
    BY <1>1, <2>2 DEF InOrder
<1>4. QED
  BY <1>2, <1>3

\* Nothing is lost or handed over while the served ports are served.
LEMMA EarlyStill ==
  ASSUME EarlyFirst, UNCHANGED <<taken, early>>,
         \A port \in Ports : ready[port] => ready'[port]
  PROVE  EarlyFirst'
  BY DEF EarlyFirst, Before

\* The members of the places by their numbers.
LEMMA Places ==
  /\ Place[1] = ToSet(taken) \union early
  /\ Place[2] = UNION {ToSet(portQueues[port]) : port \in Servers}
  /\ Place[3] = {rxTask.packet} \ {Nothing}
  /\ Place[4] = ToSet(radioRx) \union ToSet(packetsQueue)
  /\ Place[5] = {usbTask.packet} \ {Nothing}
  /\ Place[6] = ToSet(usbRx)
  BY DEF Place

\* The places after a step.
LEMMA PlacesAfter ==
  /\ Place'[1] = ToSet(taken') \union early'
  /\ Place'[2] = UNION {ToSet(portQueues'[port]) : port \in Servers}
  /\ Place'[3] = {rxTask'.packet} \ {Nothing}
  /\ Place'[4] = ToSet(radioRx') \union ToSet(packetsQueue')
  /\ Place'[5] = {usbTask'.packet} \ {Nothing}
  /\ Place'[6] = ToSet(usbRx')
  BY DEF Place

\* There are six places.
LEMMA SixPlaces == \A k \in 1 .. 6 : k \in {1, 2, 3, 4, 5, 6}
  OBVIOUS

\* At the start there is no packet.
LEMMA RequestsInit == Init => RequestsInv
<1> SUFFICES ASSUME Init PROVE RequestsInv
  OBVIOUS
<1>1. RequestsTyped
  BY TypeInit DEF TypeOK
<1>2. ASSUME NEW k \in 1 .. 6 PROVE Place[k] = {}
  <2>1. k \in {1, 2, 3, 4, 5, 6}
    OBVIOUS
  <2>2. \A port \in Servers : ToSet(portQueues[port]) = {}
    BY Members DEF Init
  <2>3. ToSet(taken) \union early = {}
    BY Members DEF Init
  <2>4. QED
    BY <2>1, <2>2, <2>3, Places, Members DEF Init
<1>3. PlacesInOrder /\ Kept
  BY <1>2 DEF PlacesInOrder, Kept, Init
<1>4. QueuesInOrder
  BY DEF Init, QueuesInOrder, InOrder
<1>5. Sorted
  BY <1>2, Members DEF Init, Sorted
<1>6. EarlyFirst
  BY Members DEF Init, EarlyFirst
<1>7. QED
  BY <1>1, <1>3, <1>4, <1>5, <1>6 DEF RequestsInv

\* A radio packet arrives before the CRTP receive task.
LEMMA RadioKeeps ==
  ASSUME RequestsInv, RequestsTyped', NEW port \in Ports, RadioPacket(port) \/ RadioBroadcast(port)
  PROVE  RequestsInv'
<1>1. /\ nextIn' = nextIn + 1
      /\ UNCHANGED <<usbRx, packetsQueue, portQueues, usbTask, rxTask, taken, early, refused, ready>>
      /\ \/ UNCHANGED <<radioRx, accepted>>
         \/ /\ radioRx' = Append(radioRx, Packet(port, "radio"))
            /\ accepted' = accepted \union {nextIn}
  BY DEF RadioPacket, RadioBroadcast, linkVars, usbVars, taskVars, portVars, lossVars
<1>2. RequestsTyped /\ PlacesInOrder /\ QueuesInOrder /\ Sorted /\ Kept /\ EarlyFirst
  BY DEF RequestsInv
<1>6. EarlyFirst'
  BY <1>1, <1>2, EarlyStill
<1>3. CASE UNCHANGED <<radioRx, accepted>>
  <2>1. Place' = Place
    BY <1>1, <1>3 DEF Place
  <2>2. \A k \in 1 .. 6 : \A p \in Place[k] : p.id \in Nat
    BY <1>2, PlacesTyped, PacketFacts DEF Ids
  <2>3. PlacesInOrder' /\ Kept'
    BY SMTT(30), <1>1, <1>2, <1>3, <2>1, <2>2 DEF PlacesInOrder, Kept, RequestsTyped, Ids, Before
  <2>4. QueuesInOrder' /\ Sorted'
    BY SMTT(30), <1>1, <1>2, <1>3, <2>1 DEF QueuesInOrder, InOrder, Before, Sorted
  <2>5. QED
    BY <1>6, <2>3, <2>4 DEF RequestsInv
<1>4. CASE radioRx' = Append(radioRx, Packet(port, "radio")) /\ accepted' = accepted \union {nextIn}
  <2> DEFINE p == Packet(port, "radio")
  <2>1. p \in Packets /\ p.id = nextIn /\ p.via = "radio"
    BY <1>2, PacketFacts DEF RequestsTyped, Links, Ids
  <2>2. radioRx \in Seq(Packets) /\ ToSet(radioRx') = ToSet(radioRx) \union {p}
    BY <1>2, <1>4, <2>1, Appended DEF RequestsTyped
  <2> HIDE DEF p
  <2>3. /\ Place'[4] = Place[4] \union {p}
        /\ \A m \in {1, 2, 3, 5, 6} : Place'[m] = Place[m]
    <3>1. UNCHANGED packetsQueue /\ UNCHANGED portQueues
      BY <1>1
    <3>2. Place'[4] = Place[4] \union {p}
      BY <2>2, <3>1, Places, PlacesAfter
    <3>3. Place'[2] = Place[2]
      BY <3>1, Places, PlacesAfter
    <3>4. Place'[1] = Place[1] /\ Place'[3] = Place[3] /\ Place'[5] = Place[5] /\ Place'[6] = Place[6]
      BY <1>1, Places, PlacesAfter
    <3>5. QED
      BY <3>2, <3>3, <3>4
  <2>4. \A m \in 5 .. 6 : \A q \in Place[m] : Before(p, q)
    <3>1. \A q \in Place[5] \union Place[6] : q.via = "usb"
      BY <1>2 DEF Sorted
    <3>2. QED
      BY <2>1, <3>1 DEF Before
  <2>5. Arrives(4, p)
    <3>1. \A m \in 1 .. 6 : Place'[m] = IF m = 4 THEN Place[m] \union {p} ELSE Place[m]
      BY <2>3, SixPlaces
    <3>2. QED
      BY <1>1, <1>4, <2>1, <2>4, <3>1 DEF Arrives
  <2>6. PlacesInOrder' /\ Kept'
    BY <1>2, <2>5, ArrivalKeeps
  <2>7. \A q \in ToSet(radioRx) : Before(q, p)
    BY <1>2, <2>1, Places DEF Kept, Before
  <2>8. InOrder(radioRx')
    BY <1>2, <1>4, <2>1, <2>2, <2>7, OrderAppended DEF QueuesInOrder, p
  <2>9. QueuesInOrder'
    BY SMTT(30), <1>1, <1>2, <2>8 DEF QueuesInOrder, InOrder, Before
  <2>10. Sorted'
    BY <1>1, <1>2, <2>1, <2>2, <2>3 DEF Sorted
  <2>11. QED
    BY <1>6, <2>6, <2>9, <2>10 DEF RequestsInv
<1>5. QED
  BY <1>1, <1>3, <1>4

\* A USB packet arrives last.
LEMMA DataOutKeeps ==
  ASSUME RequestsInv, RequestsTyped', NEW port \in Ports, DataOut(port)
  PROVE  RequestsInv'
<1>1. /\ nextIn' = nextIn + 1 /\ accepted' = accepted \union {nextIn}
      /\ UNCHANGED <<radioRx, packetsQueue, portQueues, usbTask, rxTask, taken, early, ready>>
      /\ \/ UNCHANGED usbRx /\ refused' = refused \union {Packet(port, "usb")}
         \/ UNCHANGED refused /\ usbRx' = Append(usbRx, Packet(port, "usb"))
  BY DEF DataOut, linkVars, taskVars, portVars
<1>2. RequestsTyped /\ PlacesInOrder /\ QueuesInOrder /\ Sorted /\ Kept /\ EarlyFirst
  BY DEF RequestsInv
<1>6. EarlyFirst'
  BY <1>1, <1>2, EarlyStill
<1>3. CASE UNCHANGED usbRx /\ refused' = refused \union {Packet(port, "usb")}
  <2>1. Place' = Place
    BY <1>1, <1>3 DEF Place
  <2>2. \A k \in 1 .. 6 : \A p \in Place[k] : p.id \in Nat
    BY <1>2, PlacesTyped, PacketFacts DEF Ids
  <2>3. nextIn \in Nat /\ Packet(port, "usb").id = nextIn
    BY <1>2, PacketFacts DEF RequestsTyped, Links, Ids
  <2>4. PlacesInOrder'
    BY <1>2, <2>1 DEF PlacesInOrder, Before
  <2>5. \A k \in 1 .. 6 : \A p \in Place'[k] : p.id < nextIn'
    BY <1>1, <1>2, <2>1, <2>2, <2>3 DEF Kept
  <2>6. accepted' = {p.id : p \in (UNION {Place'[k] : k \in 1 .. 6}) \union refused'}
    <3> DEFINE All == (UNION {Place[k] : k \in 1 .. 6}) \union refused
               q == Packet(port, "usb")
    <3>1. accepted = {p.id : p \in All}
      BY <1>2 DEF Kept
    <3>2. (UNION {Place'[k] : k \in 1 .. 6}) \union refused' = All \union {q}
      <4>1. UNION {Place'[k] : k \in 1 .. 6} = UNION {Place[k] : k \in 1 .. 6}
        <5>1. ASSUME NEW x PROVE x \in UNION {Place'[k] : k \in 1 .. 6} <=>
                                  \E k \in 1 .. 6 : x \in Place'[k]
          BY Zenon
        <5>2. ASSUME NEW x PROVE x \in UNION {Place[k] : k \in 1 .. 6} <=>
                                  \E k \in 1 .. 6 : x \in Place[k]
          BY Zenon
        <5>3. \A k \in 1 .. 6 : Place'[k] = Place[k]
          BY <2>1
        <5>4. ASSUME NEW x PROVE x \in UNION {Place'[k] : k \in 1 .. 6} <=>
                                  x \in UNION {Place[k] : k \in 1 .. 6}
          BY <5>1, <5>2, <5>3
        <5> HIDE DEF Place
        <5>5. QED
          BY ONLY <5>4
      <4>2. refused' = refused \union {q}
        BY <1>3
      <4>3. QED
        BY <4>1, <4>2
    <3>3. q.id = nextIn
      BY <2>3
    <3> HIDE DEF All, q
    <3>4. accepted' = {p.id : p \in All \union {q}}
      BY <1>1, <3>1, <3>3
    <3>5. QED
      BY <3>2, <3>4
  <2>7. QueuesInOrder' /\ Sorted'
    BY <1>1, <1>2, <1>3, <2>1 DEF QueuesInOrder, InOrder, Before, Sorted
  <2>8. QED
    BY <1>6, <2>4, <2>5, <2>6, <2>7 DEF RequestsInv, Kept
<1>4. CASE UNCHANGED refused /\ usbRx' = Append(usbRx, Packet(port, "usb"))
  <2> DEFINE p == Packet(port, "usb")
  <2>1. p \in Packets /\ p.id = nextIn /\ p.via = "usb"
    BY <1>2, PacketFacts DEF RequestsTyped, Links, Ids
  <2>2. usbRx \in Seq(Packets) /\ ToSet(usbRx') = ToSet(usbRx) \union {p}
    BY <1>2, <1>4, <2>1, Appended DEF RequestsTyped
  <2> HIDE DEF p
  <2>3. /\ Place'[6] = Place[6] \union {p}
        /\ \A m \in {1, 2, 3, 4, 5} : Place'[m] = Place[m]
    <3>1. UNCHANGED packetsQueue /\ UNCHANGED portQueues /\ UNCHANGED radioRx
      BY <1>1
    <3>2. Place'[6] = Place[6] \union {p}
      BY <2>2, Places, PlacesAfter
    <3>3. Place'[2] = Place[2] /\ Place'[4] = Place[4]
      BY <3>1, Places, PlacesAfter
    <3>4. Place'[1] = Place[1] /\ Place'[3] = Place[3] /\ Place'[5] = Place[5]
      BY <1>1, Places, PlacesAfter
    <3>5. QED
      BY <3>2, <3>3, <3>4
  <2>4. Arrives(6, p)
    <3>1. \A m \in 1 .. 6 : Place'[m] = IF m = 6 THEN Place[m] \union {p} ELSE Place[m]
      BY <2>3, SixPlaces
    <3>2. QED
      BY <1>1, <1>4, <2>1, <3>1 DEF Arrives
  <2>5. PlacesInOrder' /\ Kept'
    BY <1>2, <2>4, ArrivalKeeps
  <2>6. \A q \in ToSet(usbRx) : Before(q, p)
    BY <1>2, <2>1, Places DEF Kept, Before
  <2>7. InOrder(usbRx')
    BY <1>2, <1>4, <2>1, <2>2, <2>6, OrderAppended DEF QueuesInOrder, p
  <2>8. QueuesInOrder'
    BY SMTT(30), <1>1, <1>2, <2>7 DEF QueuesInOrder, InOrder, Before
  <2>9. Sorted'
    BY <1>1, <1>2, <2>1, <2>3 DEF Sorted
  <2>10. QED
    BY <1>6, <2>5, <2>8, <2>9 DEF RequestsInv
<1>5. QED
  BY <1>1, <1>3, <1>4

\* The USBLINK task takes the first USB packet.
LEMMA UsbReceiveKeeps ==
  ASSUME RequestsInv, RequestsTyped', UsbReceive
  PROVE  RequestsInv'
<1> DEFINE p == Head(usbRx)
<1>1. /\ usbTask.packet = Nothing /\ usbTask'.packet = p
      /\ usbRx # <<>> /\ usbRx' = Tail(usbRx) /\ usbRx \in Seq(Packets)
      /\ UNCHANGED <<radioRx, packetsQueue, portQueues, rxTask, taken, early, refused, ready,
                     accepted, nextIn>>
  BY DEF UsbReceive, RequestsInv, RequestsTyped, linkVars, portVars, historyVars, lossVars
<1>2. RequestsTyped /\ PlacesInOrder /\ QueuesInOrder /\ Sorted /\ Kept /\ EarlyFirst
  BY DEF RequestsInv
<1>3. /\ p \in Packets /\ p # Nothing /\ ToSet(usbRx) = {p} \union ToSet(usbRx')
      /\ InOrder(usbRx') /\ \A q \in ToSet(usbRx') : Before(p, q)
  BY <1>1, <1>2, Taken, OrderTaken, PacketFacts DEF QueuesInOrder
<1> HIDE DEF p
<1>4. /\ Place'[5] = Place[5] \union {p}
      /\ Place[6] = Place'[6] \union {p} /\ Place'[6] = ToSet(usbRx')
      /\ Place'[1] = Place[1] /\ Place'[2] = Place[2]
      /\ Place'[3] = Place[3] /\ Place'[4] = Place[4]
  <2>1. UNCHANGED packetsQueue /\ UNCHANGED portQueues /\ UNCHANGED radioRx
    BY <1>1
  <2>2. Place'[5] = Place[5] \union {p}
    BY <1>1, <1>3, Places, PlacesAfter
  <2>3. Place[6] = Place'[6] \union {p} /\ Place'[6] = ToSet(usbRx')
    BY <1>3, Places, PlacesAfter
  <2>4. Place'[2] = Place[2] /\ Place'[4] = Place[4]
    BY <2>1, Places, PlacesAfter
  <2>5. Place'[1] = Place[1] /\ Place'[3] = Place[3]
    BY <1>1, Places, PlacesAfter
  <2>6. QED
    BY <2>2, <2>3, <2>4, <2>5
<1>5. Moves(6, 5, p)
  <2>1. \A k \in 1 .. 6 : k # 6 /\ k # 5 => Place'[k] = Place[k]
    BY <1>4, SixPlaces
  <2>2. QED
    BY <1>1, <1>3, <1>4, <2>1 DEF Moves
<1>6. PlacesInOrder' /\ Kept'
  BY <1>2, <1>5, MoveKeeps
<1>7. QueuesInOrder'
  BY <1>1, <1>2, <1>3 DEF QueuesInOrder, InOrder, Before
<1>8. Sorted'
  BY <1>1, <1>2, <1>4 DEF Sorted
<1>9. EarlyFirst'
  BY <1>1, <1>2, EarlyStill
<1>10. QED
  BY <1>6, <1>7, <1>8, <1>9 DEF RequestsInv

\* ... and queues it behind all that it has queued before.
LEMMA UsbForwardKeeps ==
  ASSUME RequestsInv, RequestsTyped', UsbForward
  PROVE  RequestsInv'
<1> DEFINE p == usbTask.packet
<1>1. /\ p \in Packets /\ p # Nothing /\ usbTask'.packet = Nothing
      /\ packetsQueue \in Seq(Packets) /\ packetsQueue' = Append(packetsQueue, p)
      /\ UNCHANGED <<radioRx, usbRx, portQueues, rxTask, taken, early, refused, ready,
                     accepted, nextIn>>
  BY DEF UsbForward, RequestsInv, RequestsTyped, linkVars, usbVars, portVars, historyVars, lossVars
<1>2. RequestsTyped /\ PlacesInOrder /\ QueuesInOrder /\ Sorted /\ Kept /\ EarlyFirst
  BY DEF RequestsInv
<1>3. ToSet(packetsQueue') = ToSet(packetsQueue) \union {p}
  BY <1>1, Appended
<1>4. Place[5] = {p}
  BY <1>1, Places
<1> HIDE DEF p
<1>5. /\ Place'[4] = Place[4] \union {p} /\ Place'[5] = {}
      /\ Place'[1] = Place[1] /\ Place'[2] = Place[2]
      /\ Place'[3] = Place[3] /\ Place'[6] = Place[6]
  <2>1. UNCHANGED portQueues /\ UNCHANGED radioRx
    BY <1>1
  <2>2. Place'[4] = Place[4] \union {p}
    BY <1>3, <2>1, Places, PlacesAfter
  <2>3. Place'[5] = {}
    BY <1>1, PlacesAfter
  <2>4. Place'[2] = Place[2]
    BY <2>1, Places, PlacesAfter
  <2>5. Place'[1] = Place[1] /\ Place'[3] = Place[3] /\ Place'[6] = Place[6]
    BY <1>1, Places, PlacesAfter
  <2>6. QED
    BY <2>2, <2>3, <2>4, <2>5
<1>6. Moves(5, 4, p)
  <2>1. \A k \in 1 .. 6 : k # 5 /\ k # 4 => Place'[k] = Place[k]
    BY <1>5, SixPlaces
  <2>2. QED
    BY <1>1, <1>4, <1>5, <2>1 DEF Moves
<1>7. PlacesInOrder' /\ Kept'
  BY <1>2, <1>6, MoveKeeps
<1>8. InOrder(packetsQueue')
  <2>1. \A q \in ToSet(packetsQueue) : Before(q, p)
    BY <1>2, <1>4, Places DEF PlacesInOrder
  <2>2. QED
    BY <1>1, <1>2, <2>1, OrderAppended DEF QueuesInOrder
<1>9. QueuesInOrder'
  <2>1. UNCHANGED <<taken, radioRx, usbRx, portQueues>>
    BY <1>1
  <2>2. QED
    BY <1>2, <1>8, <2>1 DEF QueuesInOrder, InOrder, Before
<1>10. Sorted'
  BY <1>1, <1>2, <1>3, <1>4, <1>5 DEF Sorted
<1>11. EarlyFirst'
  BY <1>1, <1>2, EarlyStill
<1>12. QED
  BY <1>7, <1>9, <1>10, <1>11 DEF RequestsInv

\* The receive task takes the first packet of the link it waits for.
LEMMA RxReceiveKeeps ==
  ASSUME RequestsInv, RequestsTyped', RxReceive
  PROVE  RequestsInv'
<1>1. /\ rxTask.packet = Nothing
      /\ radioRx \in Seq(Packets) /\ packetsQueue \in Seq(Packets)
      /\ UNCHANGED <<usbRx, usbTask, portQueues, taken, early, refused, ready,
                     accepted, nextIn>>
  BY DEF RxReceive, RequestsInv, RequestsTyped, usbVars, portVars, historyVars, lossVars
<1>2. RequestsTyped /\ PlacesInOrder /\ QueuesInOrder /\ Sorted /\ Kept /\ EarlyFirst
  BY DEF RequestsInv
<1>3. ASSUME NEW p \in Packets, rxTask'.packet = p,
             Place[4] = Place'[4] \union {p}, \A q \in Place'[4] : Before(p, q),
             QueuesInOrder', Sorted'
      PROVE  RequestsInv'
  <2>1. p # Nothing
    BY PacketFacts
  <2>2. Place'[3] = Place[3] \union {p}
    BY <1>1, <1>3, <2>1, Places, PlacesAfter
  <2>3. UNCHANGED portQueues
    BY <1>1
  <2>4. Place'[2] = Place[2]
    BY <2>3, Places, PlacesAfter
  <2>5. Place'[1] = Place[1] /\ Place'[5] = Place[5] /\ Place'[6] = Place[6]
    BY <1>1, Places, PlacesAfter
  <2>6. \A k \in 1 .. 6 : k # 4 /\ k # 3 => Place'[k] = Place[k]
    BY <2>4, <2>5, SixPlaces
  <2>7. Moves(4, 3, p)
    BY <1>1, <1>3, <2>2, <2>6 DEF Moves
  <2>8. PlacesInOrder' /\ Kept'
    BY <1>2, <2>7, MoveKeeps
  <2>9. EarlyFirst'
    BY <1>1, <1>2, EarlyStill
  <2>10. QED
    BY <1>3, <2>8, <2>9 DEF RequestsInv
<1>4. /\ \A q \in ToSet(radioRx) : q.via = "radio"
      /\ \A q \in ToSet(packetsQueue) : q.via = "usb"
  BY <1>2 DEF Sorted
<1>5. Place'[5] = Place[5] /\ Place'[6] = Place[6]
  BY <1>1, Places, PlacesAfter
<1>6. CASE /\ radioRx # <<>> /\ rxTask' = [link |-> "none", packet |-> Head(radioRx)]
           /\ radioRx' = Tail(radioRx) /\ UNCHANGED packetsQueue
  <2> DEFINE p == Head(radioRx)
  <2>1. /\ p \in Packets /\ ToSet(radioRx) = {p} \union ToSet(radioRx')
        /\ InOrder(radioRx') /\ \A q \in ToSet(radioRx') : Before(p, q)
    BY <1>1, <1>2, <1>6, Taken, OrderTaken DEF QueuesInOrder
  <2>2. rxTask'.packet = p
    BY <1>6
  <2> HIDE DEF p
  <2>3. Place[4] = Place'[4] \union {p}
    BY <1>6, <2>1, Places, PlacesAfter
  <2>4. p.via = "radio"
    BY <1>4, <2>1
  <2>5. \A q \in ToSet(packetsQueue') : Before(p, q)
    BY <1>4, <1>6, <2>4 DEF Before
  <2>6. \A q \in Place'[4] : Before(p, q)
    BY <2>1, <2>5, PlacesAfter
  <2>7. QueuesInOrder'
    BY <1>1, <1>2, <1>6, <2>1 DEF QueuesInOrder, InOrder, Before
  <2>8. Sorted'
    BY <1>1, <1>2, <1>5, <1>6, <2>1 DEF Sorted
  <2>9. QED
    BY <1>3, <2>1, <2>2, <2>3, <2>6, <2>7, <2>8
<1>7. CASE /\ packetsQueue # <<>> /\ rxTask' = [link |-> "none", packet |-> Head(packetsQueue)]
           /\ packetsQueue' = Tail(packetsQueue) /\ UNCHANGED radioRx
  <2> DEFINE p == Head(packetsQueue)
  <2>1. /\ p \in Packets /\ ToSet(packetsQueue) = {p} \union ToSet(packetsQueue')
        /\ InOrder(packetsQueue') /\ \A q \in ToSet(packetsQueue') : Before(p, q)
    BY <1>1, <1>2, <1>7, Taken, OrderTaken DEF QueuesInOrder
  <2>2. rxTask'.packet = p
    BY <1>7
  <2> HIDE DEF p
  <2>3. Place[4] = Place'[4] \union {p}
    BY <1>7, <2>1, Places, PlacesAfter
  <2>4. p.via = "usb"
    BY <1>4, <2>1
  <2>5. \A q \in ToSet(radioRx') : Before(p, q)
    BY <1>4, <1>7, <2>4 DEF Before
  <2>6. \A q \in Place'[4] : Before(p, q)
    BY <2>1, <2>5, PlacesAfter
  <2>7. QueuesInOrder'
    BY <1>1, <1>2, <1>7, <2>1 DEF QueuesInOrder, InOrder, Before
  <2>8. Sorted'
    BY <1>1, <1>2, <1>5, <1>7, <2>1 DEF Sorted
  <2>9. QED
    BY <1>3, <2>1, <2>2, <2>3, <2>6, <2>7, <2>8
<1>8. QED
  BY <1>6, <1>7 DEF RxReceive

\* A delivered packet goes behind those of its port, or past an empty queue.
LEMMA RxDeliverKeeps ==
  ASSUME RequestsInv, RequestsTyped', RxDeliver
  PROVE  RequestsInv'
<1> DEFINE p == rxTask.packet
<1>1. /\ p \in Packets /\ p # Nothing /\ rxTask'.packet = Nothing
      /\ taken \in Seq(Packets) /\ portQueues \in [Servers -> Seq(Packets)]
      /\ early \subseteq Packets
      /\ UNCHANGED <<radioRx, usbRx, packetsQueue, usbTask, ready, refused, accepted, nextIn>>
  BY DEF RxDeliver, Delivered, RequestsInv, RequestsTyped, linkVars, usbVars
<1>2. RequestsTyped /\ PlacesInOrder /\ QueuesInOrder /\ Sorted /\ Kept /\ EarlyFirst
  BY DEF RequestsInv
<1>3. Place[3] = {p}
  BY <1>1, Places
<1>4. /\ \A q \in ToSet(taken) \union early : Before(q, p)
      /\ \A port \in Servers : \A q \in ToSet(portQueues[port]) : Before(q, p)
  BY <1>2, <1>3, Places DEF PlacesInOrder
<1>5. \/ ~ready[p.port] /\ Forgotten(p)
      \/ ready[p.port] /\ p.port \in CallbackPorts /\ HandedOver(p)
      \/ ready[p.port] /\ p.port \in Servers /\ Enqueued(p)
  BY DEF RxDeliver
<1> HIDE DEF p
<1>6. Place'[3] = {}
  BY <1>1, PlacesAfter
<1>7. Place'[4] = Place[4] /\ Place'[5] = Place[5] /\ Place'[6] = Place[6]
  <2>1. UNCHANGED radioRx /\ UNCHANGED packetsQueue
    BY <1>1
  <2>2. QED
    BY <1>1, <2>1, Places, PlacesAfter
<1>8. ASSUME UNCHANGED portQueues, p.port \in CallbackPorts \/ ~ready[p.port],
             Place'[1] = Place[1] \union {p}, InOrder(taken'), EarlyFirst'
      PROVE  RequestsInv'
  <2>1. Place'[2] = Place[2]
    BY <1>8, Places, PlacesAfter
  <2>2. ASSUME NEW q \in Place[2] PROVE Before(p, q)
    <3>1. PICK port \in Servers : q \in ToSet(portQueues[port])
      BY <2>2, Places
    <3>2. q.port = port
      BY <1>2, <3>1 DEF Sorted
    <3>3. portQueues[port] # <<>>
      BY <3>1, Members
    <3>4. q.port # p.port
      BY <1>2, <1>8, <3>1, <3>2, <3>3, CrtpLinkAssumption DEF Sorted
    <3>5. QED
      BY <3>4 DEF Before
  <2>3. Moves(3, 1, p)
    <3>1. \A k \in 1 .. 6 : k # 3 /\ k # 1 => Place'[k] = Place[k]
      BY <1>7, <2>1, SixPlaces
    <3>2. \A k \in 1 + 1 .. 3 - 1 : k = 2
      OBVIOUS
    <3>3. QED
      BY <1>1, <1>3, <1>6, <1>8, <2>2, <3>1, <3>2 DEF Moves
  <2>4. PlacesInOrder' /\ Kept'
    BY <1>2, <2>3, MoveKeeps
  <2>5. QueuesInOrder' /\ Sorted'
    BY <1>1, <1>2, <1>7, <1>8 DEF QueuesInOrder, InOrder, Before, Sorted
  <2>6. QED
    BY <1>8, <2>4, <2>5 DEF RequestsInv
<1>11. CASE ~ready[p.port] /\ Forgotten(p)
  <2>1. UNCHANGED <<portQueues, taken>> /\ early' = early \union {p}
    BY <1>11 DEF Forgotten
  <2>2. Place'[1] = Place[1] \union {p}
    BY <2>1, Places, PlacesAfter
  <2>3. InOrder(taken')
    BY <1>2, <2>1 DEF QueuesInOrder
  <2>4. ASSUME NEW q \in ToSet(taken) PROVE Before(p, q)
    <3>1. q.port # p.port
      BY <1>1, <1>2, <1>11, <2>4, PacketFacts DEF EarlyFirst
    <3>2. QED
      BY <3>1 DEF Before
  <2>5. EarlyFirst'
    BY <1>1, <1>2, <2>1, <2>4 DEF EarlyFirst, Before
  <2>6. QED
    BY <1>8, <1>11, <2>1, <2>2, <2>3, <2>5
<1>12. CASE ready[p.port] /\ p.port \in CallbackPorts /\ HandedOver(p)
  <2>1. UNCHANGED <<portQueues, early>> /\ taken' = Append(taken, p)
    BY <1>12 DEF HandedOver
  <2>2. ToSet(taken') = ToSet(taken) \union {p} /\ InOrder(taken')
    BY <1>1, <1>2, <1>4, <2>1, Appended, OrderAppended DEF QueuesInOrder
  <2>3. Place'[1] = Place[1] \union {p}
    BY <2>1, <2>2, Places, PlacesAfter
  <2>4. EarlyFirst'
    BY <1>1, <1>2, <1>4, <1>12, <2>1, <2>2 DEF EarlyFirst, Before
  <2>5. QED
    BY <1>8, <1>12, <2>1, <2>2, <2>3, <2>4
<1>9. ASSUME p.port \in Servers, ready[p.port], UNCHANGED <<taken, early>>,
             portQueues' = [portQueues EXCEPT ![p.port] = Append(@, p)]
      PROVE  RequestsInv'
  <2>1. /\ portQueues[p.port] \in Seq(Packets)
        /\ portQueues'[p.port] = Append(portQueues[p.port], p)
        /\ \A port \in Servers \ {p.port} : portQueues'[port] = portQueues[port]
    BY <1>1, <1>9
  <2>2. /\ ToSet(portQueues'[p.port]) = ToSet(portQueues[p.port]) \union {p}
        /\ InOrder(portQueues'[p.port])
    BY <1>1, <1>2, <1>4, <1>9, <2>1, Appended, OrderAppended DEF QueuesInOrder
  <2>3. Place'[2] = Place[2] \union {p}
    BY <1>9, <2>1, <2>2, Places, PlacesAfter
  <2>4. Place'[1] = Place[1]
    BY <1>9, Places, PlacesAfter
  <2>5. Moves(3, 2, p)
    <3>1. \A k \in 1 .. 6 : k # 3 /\ k # 2 => Place'[k] = Place[k]
      BY <1>7, <2>4, SixPlaces
    <3>2. QED
      BY <1>1, <1>3, <1>6, <2>3, <3>1 DEF Moves
  <2>6. PlacesInOrder' /\ Kept'
    BY <1>2, <2>5, MoveKeeps
  <2>7. QueuesInOrder'
    <3>1. ASSUME NEW port \in Servers PROVE InOrder(portQueues'[port])
      <4>1. CASE port = p.port
        BY <2>2, <4>1
      <4>2. CASE port # p.port
        BY <1>2, <2>1, <4>2 DEF QueuesInOrder
      <4>3. QED
        BY <4>1, <4>2
    <3>2. UNCHANGED <<taken, radioRx, packetsQueue, usbRx>>
      BY <1>1, <1>9
    <3>3. QED
      BY <1>2, <3>1, <3>2 DEF QueuesInOrder, InOrder, Before
  <2>8. Sorted'
    <3>1. ASSUME NEW port \in Servers, NEW q \in ToSet(portQueues'[port]) PROVE q.port = port
      <4>1. CASE port = p.port
        BY <1>2, <2>2, <3>1, <4>1 DEF Sorted
      <4>2. CASE port # p.port
        BY <1>2, <2>1, <3>1, <4>2 DEF Sorted
      <4>3. QED
        BY <4>1, <4>2
    <3>2. ASSUME NEW port \in Servers, ~ready[port] PROVE portQueues'[port] = <<>>
      BY <1>2, <1>9, <2>1, <3>2 DEF Sorted
    <3>3. UNCHANGED <<ready, radioRx, packetsQueue>>
      BY <1>1
    <3>4. Place'[5] = Place[5] /\ Place'[6] = Place[6]
      BY <1>7
    <3>5. QED
      BY <1>2, <3>1, <3>2, <3>3, <3>4 DEF Sorted
  <2>9. EarlyFirst'
    BY <1>1, <1>2, <1>9, EarlyStill
  <2>10. QED
    BY <2>6, <2>7, <2>8, <2>9 DEF RequestsInv
<1>10. QED
  BY <1>5, <1>9, <1>11, <1>12 DEF Enqueued

\* A server takes the first packet of its queue.
LEMMA ServerReceiveKeeps ==
  ASSUME RequestsInv, RequestsTyped', NEW port \in Servers, ServerReceive(port)
  PROVE  RequestsInv'
<1> DEFINE p == Head(portQueues[port])
<1>1. /\ portQueues[port] # <<>> /\ taken' = Append(taken, p)
      /\ portQueues' = [portQueues EXCEPT ![port] = Tail(@)]
      /\ taken \in Seq(Packets) /\ portQueues \in [Servers -> Seq(Packets)]
      /\ ready[port]
      /\ UNCHANGED <<radioRx, usbRx, packetsQueue, usbTask, rxTask, ready, early, refused,
                     accepted, nextIn>>
  BY DEF ServerReceive, RequestsInv, RequestsTyped, linkVars, usbVars, taskVars, lossVars
<1>2. RequestsTyped /\ PlacesInOrder /\ QueuesInOrder /\ Sorted /\ Kept /\ EarlyFirst
  BY DEF RequestsInv
<1>3. /\ portQueues[port] \in Seq(Packets) /\ portQueues'[port] = Tail(portQueues[port])
      /\ \A other \in Servers \ {port} : portQueues'[other] = portQueues[other]
  BY <1>1
<1>4. /\ p \in Packets
      /\ ToSet(portQueues[port]) = {p} \union ToSet(portQueues'[port])
      /\ InOrder(portQueues'[port]) /\ \A q \in ToSet(portQueues'[port]) : Before(p, q)
  BY <1>1, <1>2, <1>3, Taken, OrderTaken DEF QueuesInOrder
<1> HIDE DEF p
<1>5. p \in Place[2] /\ p.port = port
  BY <1>2, <1>4, Places DEF Sorted
<1>6. /\ Place'[2] \subseteq Place[2] /\ Place[2] \subseteq Place'[2] \union {p}
  BY <1>3, <1>4, Places, PlacesAfter
<1>7. ASSUME NEW q \in Place'[2] PROVE Before(p, q)
  <2>1. PICK other \in Servers : q \in ToSet(portQueues'[other])
    BY <1>7, PlacesAfter
  <2>2. CASE other = port
    BY <1>4, <2>1, <2>2
  <2>3. CASE other # port
    <3>1. q.port = other
      BY <1>2, <1>3, <2>1, <2>3 DEF Sorted
    <3>2. QED
      BY <1>5, <2>3, <3>1 DEF Before
  <2>4. QED
    BY <2>2, <2>3
<1>8. /\ ToSet(taken') = ToSet(taken) \union {p} /\ InOrder(taken')
  <2>1. \A q \in ToSet(taken) : Before(q, p)
    BY <1>2, <1>5, Places DEF PlacesInOrder
  <2>2. QED
    BY <1>1, <1>2, <1>4, <2>1, Appended, OrderAppended DEF QueuesInOrder
<1>9. /\ Place'[1] = Place[1] \union {p} /\ Place'[3] = Place[3] /\ Place'[4] = Place[4]
      /\ Place'[5] = Place[5] /\ Place'[6] = Place[6]
  <2>1. UNCHANGED radioRx /\ UNCHANGED packetsQueue
    BY <1>1
  <2>2. Place'[4] = Place[4]
    BY <2>1, Places, PlacesAfter
  <2>3. Place'[1] = Place[1] \union {p}
    BY <1>1, <1>8, Places, PlacesAfter
  <2>4. Place'[3] = Place[3] /\ Place'[5] = Place[5] /\ Place'[6] = Place[6]
    BY <1>1, Places, PlacesAfter
  <2>5. QED
    BY <2>2, <2>3, <2>4
<1>10. Moves(2, 1, p)
  <2>1. \A k \in 1 .. 6 : k # 2 /\ k # 1 => Place'[k] = Place[k]
    BY <1>9, SixPlaces
  <2>2. QED
    BY <1>1, <1>5, <1>6, <1>7, <1>9, <2>1 DEF Moves
<1>11. PlacesInOrder' /\ Kept'
  BY <1>2, <1>10, MoveKeeps
<1>12. QueuesInOrder'
  <2>1. ASSUME NEW other \in Servers PROVE InOrder(portQueues'[other])
    <3>1. CASE other = port
      BY <1>4, <3>1
    <3>2. CASE other # port
      BY <1>2, <1>3, <3>2 DEF QueuesInOrder
    <3>3. QED
      BY <3>1, <3>2
  <2>2. UNCHANGED <<radioRx, packetsQueue, usbRx>>
    BY <1>1
  <2>3. QED
    BY <1>2, <1>8, <2>1, <2>2 DEF QueuesInOrder, InOrder, Before
<1>13. Sorted'
  <2>1. \A other \in Servers : ~ready[other] => portQueues'[other] = <<>>
    BY <1>2, <1>1, <1>3 DEF Sorted
  <2>2. \A other \in Servers : \A q \in ToSet(portQueues'[other]) : q.port = other
    BY <1>2, <1>3, <1>4 DEF Sorted
  <2>3. QED
    BY <1>1, <1>2, <1>9, <2>1, <2>2 DEF Sorted
<1>14. EarlyFirst'
  <2>1. \A lost \in early : Before(lost, p)
    BY <1>2, <1>5, Places DEF PlacesInOrder
  <2>2. QED
    BY <1>1, <1>2, <1>5, <1>8, <2>1 DEF EarlyFirst, Before
<1>15. QED
  BY <1>11, <1>12, <1>13, <1>14 DEF RequestsInv

\* Nothing else moves a packet.
LEMMA StillKeeps ==
  ASSUME RequestsInv, RequestsTyped',
         UNCHANGED <<radioRx, usbRx, packetsQueue, portQueues, taken, early, refused, accepted,
                     nextIn>>,
         rxTask'.packet = rxTask.packet, usbTask'.packet = usbTask.packet,
         \A port \in Ports : ready[port] => ready'[port]
  PROVE  RequestsInv'
<1>1. RequestsTyped /\ PlacesInOrder /\ QueuesInOrder /\ Sorted /\ Kept /\ EarlyFirst
  BY DEF RequestsInv
<1>2. Place' = Place
  BY DEF Place
<1>3. PlacesInOrder' /\ Kept'
  BY <1>1, <1>2 DEF PlacesInOrder, Kept, Before
<1>4. QueuesInOrder' /\ Sorted'
  BY <1>1, <1>2 DEF QueuesInOrder, InOrder, Before, Sorted, Ports
<1>5. EarlyFirst'
  BY <1>1, EarlyStill
<1>6. QED
  BY <1>3, <1>4, <1>5 DEF RequestsInv

\* Every step moves at most one packet, and in order.
LEMMA RequestsInvStep ==
  ASSUME RequestsInv, FlagsTyped, [Next]_crtpVars
  PROVE  RequestsInv'
<1>1. RequestsTyped'
  BY RequestsStep DEF RequestsInv
<1>2. CASE RequestStep
  <2>1. CASE Radio
    BY <1>1, <2>1, RadioKeeps DEF Radio
  <2>2. CASE \E port \in Ports : DataOut(port)
    BY <1>1, <2>2, DataOutKeeps
  <2>3. CASE UsbLinkTask
    <3>1. CASE UsbRearm
      <4>1. UNCHANGED <<radioRx, usbRx, packetsQueue, portQueues, taken, early, refused,
                        accepted, nextIn,
                        rxTask, ready>>
            /\ usbTask'.packet = usbTask.packet
        BY <3>1 DEF UsbRearm, RequestsInv, RequestsTyped, linkVars, portVars, historyVars, lossVars
      <4>2. QED
        BY <1>1, <4>1, StillKeeps
    <3>2. QED
      BY <1>1, <2>3, <3>1, UsbReceiveKeeps, UsbForwardKeeps DEF UsbLinkTask
  <2>4. CASE RxTask
    <3>1. CASE RxWait \/ RxTimeout
      <4>1. UNCHANGED <<radioRx, usbRx, packetsQueue, portQueues, taken, early, refused,
                        accepted, nextIn,
                        usbTask, ready>>
            /\ rxTask'.packet = rxTask.packet
        BY <3>1 DEF RxWait, RxTimeout, RequestsInv, RequestsTyped, linkVars, usbVars, portVars,
           historyVars, lossVars
      <4>2. QED
        BY <1>1, <4>1, StillKeeps
    <3>2. QED
      BY <1>1, <2>4, <3>1, RxReceiveKeeps, RxDeliverKeeps DEF RxTask
  <2>5. CASE \E port \in Servers : ServerReceive(port)
    BY <1>1, <2>5, ServerReceiveKeeps
  <2>6. QED
    BY <1>2, <2>1, <2>2, <2>3, <2>4, <2>5 DEF RequestStep
<1>3. CASE Next /\ ~RequestStep
  <2>1. UNCHANGED <<requestVars, accepted>>
    BY <1>3, OthersLeaveRequests
  <2>2. \A port \in Ports : ready[port] => ready'[port]
    <3>1. CASE UNCHANGED ready
      BY <3>1
    <3>2. ASSUME NEW port \in Ports, StartServer(port)
          PROVE  \A other \in Ports : ready[other] => ready'[other]
      BY <3>2 DEF StartServer, FlagsTyped
    <3>3. ASSUME NEW port \in Servers, ServerReply(port)
          PROVE  UNCHANGED ready
      BY <3>3 DEF ServerReply
    <3>4. CASE UsbInit \/ SetupUsbLink \/ SetupRadioLink \/ DataIn \/ StartOfFrame
               \/ \E closes \in BOOLEAN : ResetUsb(closes)
      BY <3>4 DEF UsbInit, SetupUsbLink, SetupRadioLink, DataIn, StartOfFrame, StartTransfer,
         ResetUsb, portVars
    <3>5. CASE TxTask
      BY <3>5 DEF TxTask, TxTake, TxWait, TxSend, TxTimeout, portVars
    <3>6. CASE Publish \/ CrtpReset \/ CommInit
      BY <3>6 DEF Publish, CrtpReset, CommInit, portVars
    <3>7. QED
      BY <1>3, <3>1, <3>2, <3>3, <3>4, <3>5, <3>6 DEF Next, RequestStep, UsbInterrupt, Server
  <2>3. QED
    BY <1>1, <2>1, <2>2, StillKeeps DEF requestVars
<1>4. CASE UNCHANGED crtpVars
  <2>1. UNCHANGED <<requestVars, accepted, ready>>
    BY <1>4 DEF crtpVars, requestVars, linkVars, usbVars, taskVars, portVars, historyVars, lossVars
  <2>2. QED
    BY <1>1, <2>1, StillKeeps DEF requestVars
<1>5. QED
  BY <1>2, <1>3, <1>4

\* An end point that is armed while its queue is full was armed so, and only such
\* an end point refuses.
RefusalsInv ==
  /\ refused # {} => armedFull
  /\ usbArmed /\ Full(usbRx, UsbRxSize) => armedFull

\* What the invariants say of the packets that are in flight, handed over or lost.
LEMMA RequestsImplied == RequestsInv => RequestsInOrder /\ (RefusalsInv => RequestsKept)
<1> SUFFICES ASSUME RequestsInv PROVE RequestsInOrder /\ (RefusalsInv => RequestsKept)
  OBVIOUS
<1>1. RequestsTyped /\ PlacesInOrder /\ QueuesInOrder /\ Kept /\ EarlyFirst
  BY DEF RequestsInv
<1>2. UNION {Place[k] : k \in 1 .. 6} =
        Place[1] \union Place[2] \union Place[3] \union Place[4] \union Place[5] \union Place[6]
  BY SixPlaces
<1>3. \A p \in Packets : p # Nothing
  BY PacketFacts
<1>4. /\ Nothing \notin ToSet(taken) /\ Nothing \notin ToSet(radioRx)
      /\ Nothing \notin ToSet(packetsQueue) /\ Nothing \notin ToSet(usbRx)
      /\ \A port \in Servers : Nothing \notin ToSet(portQueues[port])
      /\ Nothing \notin early
  BY <1>1, <1>3, Members DEF RequestsTyped
<1>5. InFlight = ToSet(radioRx) \union ToSet(usbRx) \union ToSet(packetsQueue)
                 \union {usbTask.packet} \union {rxTask.packet}
                 \union (UNION {ToSet(portQueues[port]) : port \in Servers})
  BY DEF InFlight
<1>6. (InFlight \ {Nothing}) \union ToSet(taken) \union early = UNION {Place[k] : k \in 1 .. 6}
  BY <1>2, <1>4, <1>5, Places
<1>7. accepted = {p.id : p \in (InFlight \ {Nothing}) \union ToSet(taken) \union early \union refused}
  <2> DEFINE Met == (InFlight \ {Nothing}) \union ToSet(taken) \union early
             Placed == UNION {Place[k] : k \in 1 .. 6}
  <2>0. accepted = {p.id : p \in Placed \union refused}
    BY <1>1, Zenon DEF Kept
  <2>1. Met = Placed /\ accepted = {p.id : p \in Placed \union refused}
    BY <1>6, <2>0, Zenon
  <2> HIDE DEF Met, Placed
  <2>2. accepted = {p.id : p \in Met \union refused}
    BY <2>1
  <2>3. QED
    BY <2>2 DEF Met
<1>8. ASSUME NEW lost \in early,
             NEW p \in ToSet(taken) \union UNION {ToSet(portQueues[port]) : port \in Servers}
      PROVE  Before(lost, p)
  <2>1. CASE p \in ToSet(taken)
    BY <1>1, <2>1 DEF EarlyFirst
  <2>2. CASE p \in Place[2]
    <3>1. lost \in Place[1] /\ 1 \in 1 .. 6 /\ 2 \in 1 .. 6 /\ 1 < 2
      BY Places
    <3>2. QED
      BY <1>1, <2>2, <3>1 DEF PlacesInOrder
  <2>3. QED
    BY <2>1, <2>2, Places
<1>9. RefusalsInv => RequestsKept
  BY <1>7, <1>8 DEF RefusalsInv, RequestsKept, Before
<1>10. RequestsInOrder
  BY <1>1 DEF QueuesInOrder, InOrder, Before, RequestsInOrder
<1>11. QED
  BY <1>9, <1>10

-----------------------------------------------------------------------------
(* Replies: the packets to the client, by what is before them *)

Ascending(s) == \A i, j \in 1 .. Len(s) : i < j => s[i] < s[j]
Below(S, T) == \A m \in S, n \in T : m < n

\* What has gone to one of the links, and what the transmit task holds
RadioOut == ToSet(left["radio"]) \union ToSet(radioTx)
UsbOut == ToSet(left["usb"]) \union ToSet(usbTransfer) \union ToSet(usbTx)
Held == {txTask.packet} \ {0}

\* What left was queued before what waits in the queue of its link
LinksAscend ==
  /\ Ascending(left["radio"]) /\ Below(ToSet(left["radio"]), ToSet(radioTx))
  /\ Ascending(left["usb"]) /\ Below(ToSet(left["usb"]), ToSet(usbTransfer) \union ToSet(usbTx))
  /\ Below(ToSet(usbTransfer), ToSet(usbTx))
  /\ RadioOut \cap UsbOut = {}

\* What went to a link was queued before what the task holds, and that before the
\* packets of the queue, which have numbers
QueueAscends ==
  /\ Ascending(txQueue)
  /\ Below(RadioOut \union UsbOut, Held \union ToSet(txQueue))
  /\ Below(Held, ToSet(txQueue))
  /\ Below(RadioOut \union UsbOut \union Held \union ToSet(txQueue), {nextOut})

RepliesInv == RepliesTyped /\ LinksAscend /\ QueueAscends

\* A sequence goes on ascending when it takes a number above all its numbers, and
\* when it gives up its first.
LEMMA AscentAppended ==
  ASSUME NEW s \in Seq(Ids), NEW e \in Ids, Ascending(s), Below(ToSet(s), {e})
  PROVE  Ascending(Append(s, e))
<1>1. \A i \in 1 .. Len(s) : s[i] \in ToSet(s)
  BY Members
<1>2. Len(s) \in Nat /\ Len(Append(s, e)) = Len(s) + 1 /\ Append(s, e)[Len(s) + 1] = e
      /\ \A i \in 1 .. Len(s) : Append(s, e)[i] = s[i]
  OBVIOUS
<1>3. ASSUME NEW i \in 1 .. Len(s) + 1, NEW j \in 1 .. Len(s) + 1, i < j
      PROVE  Append(s, e)[i] < Append(s, e)[j]
  <2>1. i \in 1 .. Len(s) /\ Append(s, e)[i] = s[i]
    BY <1>2, <1>3
  <2>2. CASE j \in 1 .. Len(s)
    BY <1>2, <1>3, <2>1, <2>2 DEF Ascending
  <2>3. CASE j = Len(s) + 1
    BY <1>1, <1>2, <2>1, <2>3 DEF Below
  <2>4. QED
    BY <1>2, <2>2, <2>3
<1>4. QED
  BY <1>2, <1>3 DEF Ascending

\* ... and its first number is below all others.
LEMMA AscentTaken ==
  ASSUME NEW s \in Seq(Ids), s # <<>>, Ascending(s)
  PROVE  Ascending(Tail(s)) /\ Below({Head(s)}, ToSet(Tail(s)))
<1>1. /\ Tail(s) \in Seq(Ids) /\ Len(Tail(s)) = Len(s) - 1 /\ Len(s) \in Nat \ {0}
      /\ Head(s) = s[1] /\ \A i \in 1 .. Len(Tail(s)) : Tail(s)[i] = s[i + 1]
  BY Taken
<1>2. Ascending(Tail(s))
  BY <1>1 DEF Ascending
<1>3. ASSUME NEW q \in ToSet(Tail(s))
      PROVE  Head(s) < q
  <2>1. PICK i \in 1 .. Len(Tail(s)) : q = Tail(s)[i]
    BY <1>1, <1>3 DEF ToSet
  <2>2. q = s[i + 1] /\ i + 1 \in 1 .. Len(s) /\ 1 \in 1 .. Len(s) /\ 1 < i + 1
    BY <1>1, <2>1
  <2>3. QED
    BY <1>1, <2>2 DEF Ascending
<1>4. QED
  BY <1>2, <1>3 DEF Below

\* A queue of one packet holds its head.
LEMMA Single ==
  ASSUME NEW q \in Seq(Ids), Len(q) <= 1, q # <<>>
  PROVE  Head(q) \in Ids /\ ToSet(q) = {Head(q)} /\ Tail(q) = <<>> /\ ToSet(<<Head(q)>>) = ToSet(q)
<1>1. /\ Head(q) \in Ids /\ Tail(q) \in Seq(Ids) /\ Len(Tail(q)) = Len(q) - 1
      /\ Len(q) \in Nat \ {0} /\ ToSet(q) = {Head(q)} \union ToSet(Tail(q))
  BY Taken
<1>2. Len(Tail(q)) = 0
  BY <1>1
<1>3. Tail(q) = <<>>
  BY <1>1, <1>2
<1>4. ToSet(<<Head(q)>>) = {Head(q)}
  BY DEF ToSet
<1>5. QED
  BY <1>1, <1>3, <1>4, Members

\* A packet that leaves ends what has left over its link.
LEMMA LeaveKeeps ==
  ASSUME left \in [Links -> Seq(Ids)], NEW q \in Seq(Ids), Len(q) <= 1, NEW link \in Links,
         Leave(q, link), Ascending(left[link]), Below(ToSet(left[link]), ToSet(q))
  PROVE  /\ Ascending(left'[link]) /\ ToSet(left'[link]) = ToSet(left[link]) \union ToSet(q)
         /\ \A other \in Links \ {link} : left'[other] = left[other]
<1>1. CASE q = <<>>
  BY <1>1, Members DEF Leave
<1>2. CASE q # <<>>
  <2>1. Head(q) \in Ids /\ ToSet(q) = {Head(q)} /\ left[link] \in Seq(Ids)
    BY <1>2, Single
  <2>2. left'[link] = Append(left[link], Head(q))
        /\ \A other \in Links \ {link} : left'[other] = left[other]
    BY <1>2 DEF Leave
  <2>3. ToSet(Append(left[link], Head(q))) = ToSet(left[link]) \union {Head(q)}
    BY <2>1, Appended
  <2>4. Ascending(Append(left[link], Head(q)))
    BY <2>1, AscentAppended
  <2>5. QED
    BY <2>1, <2>2, <2>3, <2>4
<1>3. QED
  BY <1>1, <1>2

\* At the start there is no number.
LEMMA RepliesInit == Init => RepliesInv
<1> SUFFICES ASSUME Init PROVE RepliesInv
  OBVIOUS
<1>1. RepliesTyped
  BY TypeInit DEF TypeOK
<1>2. /\ left["radio"] = <<>> /\ left["usb"] = <<>> /\ radioTx = <<>> /\ usbTransfer = <<>>
      /\ usbTx = <<>> /\ txQueue = <<>> /\ txTask.packet = 0
  BY DEF Init, Links
<1>3. ToSet(<<>>) = {} /\ Ascending(<<>>)
  BY Members DEF Ascending
<1>4. QED
  BY <1>1, <1>2, <1>3 DEF RepliesInv, LinksAscend, QueueAscends, RadioOut, UsbOut, Held, Below

\* Where no number is added, those that are left are as they were.
LEMMA FewerKeep ==
  ASSUME QueueAscends, RadioOut' \union UsbOut' \subseteq RadioOut \union UsbOut,
         Held' \subseteq Held, ToSet(txQueue') \subseteq ToSet(txQueue), Ascending(txQueue'),
         nextOut' = nextOut
  PROVE  QueueAscends'
  BY DEF QueueAscends, Below, Ascending

\* A transfer starts with the packet that waits for it.
LEMMA TransferKeeps ==
  ASSUME RepliesTyped, StartTransfer
  PROVE  /\ ToSet(usbTransfer') = ToSet(usbTx) /\ ToSet(usbTx') = {}
         /\ UNCHANGED <<radioTx, txQueue, txTask>>
<1>1. usbTx \in Seq(Ids) /\ Len(usbTx) <= 1
  BY DEF RepliesTyped
<1>2. ToSet(usbTransfer') = ToSet(usbTx) /\ ToSet(usbTx') = {}
  <2>1. CASE usbTx = <<>>
    BY <2>1, Members DEF StartTransfer
  <2>2. CASE usbTx # <<>>
    <3>1. ToSet(<<Head(usbTx)>>) = ToSet(usbTx) /\ Tail(usbTx) = <<>>
      BY <1>1, <2>2, Single
    <3>2. QED
      BY <2>2, <3>1, Members DEF StartTransfer
  <2>3. QED
    BY <2>1, <2>2
<1>3. QED
  BY <1>2 DEF StartTransfer, linkVars, taskVars, portVars

\* A packet leaves, or is sent, for all that went to a link.
LEMMA LinkStepKeeps ==
  ASSUME RepliesInv,
         \/ \E port \in Ports : RadioPacket(port)
         \/ \E closes \in BOOLEAN : ResetUsb(closes)
         \/ DataIn \/ StartOfFrame
  PROVE  LinksAscend' /\ QueueAscends'
<1>1. /\ RepliesTyped /\ LinksAscend /\ QueueAscends
      /\ radioTx \in Seq(Ids) /\ Len(radioTx) <= 1
      /\ usbTransfer \in Seq(Ids) /\ Len(usbTransfer) <= 1
      /\ left \in [Links -> Seq(Ids)] /\ "radio" \in Links /\ "usb" \in Links /\ "radio" # "usb"
  BY DEF RepliesInv, RepliesTyped, Links
<1>2. /\ Ascending(left["radio"]) /\ Below(ToSet(left["radio"]), ToSet(radioTx))
      /\ Ascending(left["usb"]) /\ Below(ToSet(left["usb"]), ToSet(usbTransfer) \union ToSet(usbTx))
      /\ Below(ToSet(usbTransfer), ToSet(usbTx)) /\ RadioOut \cap UsbOut = {}
      /\ Ascending(txQueue)
  BY <1>1 DEF LinksAscend, QueueAscends
<1>3. ASSUME UNCHANGED <<txQueue, txTask, nextOut>>,
             RadioOut' \subseteq RadioOut, UsbOut' \subseteq UsbOut
      PROVE  QueueAscends' /\ RadioOut' \cap UsbOut' = {}
  <2>1. Held' \subseteq Held
    BY <1>3 DEF Held
  <2>2. ToSet(txQueue') \subseteq ToSet(txQueue) /\ Ascending(txQueue')
    BY <1>2, <1>3
  <2>3. QED
    BY <1>1, <1>2, <1>3, <2>1, <2>2, FewerKeep
<1>4. ASSUME NEW port \in Ports, RadioPacket(port)
      PROVE  LinksAscend' /\ QueueAscends'
  <2>1. /\ \/ UNCHANGED <<radioTx, left>>
           \/ radioTx' = <<>> /\ Leave(radioTx, "radio")
        /\ UNCHANGED <<usbTx, usbTransfer, txQueue, txTask, nextOut>>
    BY <1>4 DEF RadioPacket, linkVars, usbVars, taskVars, portVars
  <2>2. CASE UNCHANGED <<radioTx, left>>
    <3>1. RadioOut' = RadioOut /\ UsbOut' = UsbOut
      BY <2>1, <2>2 DEF RadioOut, UsbOut
    <3>2. QED
      BY <1>2, <1>3, <2>1, <2>2, <3>1 DEF LinksAscend, Ascending, Below
  <2>3. CASE radioTx' = <<>> /\ Leave(radioTx, "radio")
    <3>1. /\ Ascending(left'["radio"])
          /\ ToSet(left'["radio"]) = ToSet(left["radio"]) \union ToSet(radioTx)
          /\ left'["usb"] = left["usb"]
      BY <1>1, <1>2, <2>3, LeaveKeeps
    <3>2. ToSet(radioTx') = {}
      BY <2>3, Members
    <3>3. RadioOut' = RadioOut /\ UsbOut' = UsbOut
      BY <2>1, <3>1, <3>2 DEF RadioOut, UsbOut
    <3>4. QED
      BY <1>2, <1>3, <2>1, <3>1, <3>2, <3>3 DEF LinksAscend, Ascending, Below
  <2>4. QED
    BY <2>1, <2>2, <2>3
<1>5. ASSUME NEW closes \in BOOLEAN, ResetUsb(closes)
      PROVE  LinksAscend' /\ QueueAscends'
  <2>1. usbTx' = <<>> /\ usbTransfer' = <<>> /\ UNCHANGED <<radioTx, txQueue, txTask, left, nextOut>>
    BY <1>5 DEF ResetUsb, linkVars, taskVars, portVars, historyVars, lossVars
  <2>2. ToSet(usbTx') = {} /\ ToSet(usbTransfer') = {}
    BY <2>1, Members
  <2>3. RadioOut' = RadioOut /\ UsbOut' \subseteq UsbOut
    BY <2>1, <2>2 DEF RadioOut, UsbOut
  <2>4. QED
    BY <1>2, <1>3, <2>1, <2>2, <2>3 DEF LinksAscend, Ascending, Below
<1>6. CASE DataIn
  <2>1. /\ ToSet(usbTransfer') = ToSet(usbTx) /\ ToSet(usbTx') = {}
        /\ UNCHANGED <<radioTx, txQueue, txTask, nextOut>>
    BY <1>1, <1>6, TransferKeeps DEF DataIn
  <2>2. Below(ToSet(left["usb"]), ToSet(usbTransfer))
    BY <1>2 DEF Below
  <2>3. /\ Ascending(left'["usb"])
        /\ ToSet(left'["usb"]) = ToSet(left["usb"]) \union ToSet(usbTransfer)
        /\ left'["radio"] = left["radio"]
    BY <1>1, <1>2, <1>6, <2>2, LeaveKeeps DEF DataIn
  <2>4. RadioOut' = RadioOut /\ UsbOut' = UsbOut
    BY <2>1, <2>3 DEF RadioOut, UsbOut
  <2>5. QED
    BY <1>2, <1>3, <2>1, <2>3, <2>4 DEF LinksAscend, Ascending, Below
<1>7. CASE StartOfFrame
  <2>1. /\ ToSet(usbTransfer') = ToSet(usbTx) /\ ToSet(usbTx') = {}
        /\ UNCHANGED <<radioTx, txQueue, txTask, nextOut, left>>
    BY <1>1, <1>7, TransferKeeps DEF StartOfFrame, historyVars, lossVars
  <2>2. ToSet(usbTransfer) = {}
    BY <1>7, Members DEF StartOfFrame
  <2>3. RadioOut' = RadioOut /\ UsbOut' = UsbOut
    BY <2>1, <2>2 DEF RadioOut, UsbOut
  <2>4. QED
    BY <1>2, <1>3, <2>1, <2>2, <2>3 DEF LinksAscend, Ascending, Below
<1>8. QED
  BY <1>4, <1>5, <1>6, <1>7

\* A packet that is queued is the last, one that is sent is after all that were.
LEMMA QueueStepKeeps ==
  ASSUME RepliesInv,
         \/ \E port \in Servers : ServerReply(port)
         \/ Publish \/ CrtpReset \/ TxTask
  PROVE  LinksAscend' /\ QueueAscends'
<1>1. /\ LinksAscend /\ QueueAscends /\ nextOut \in Ids
      /\ txQueue \in Seq(Ids) /\ txTask \in [link : Links \union {"none"}, packet : Nat]
      /\ \A n \in RadioOut \union UsbOut \union Held \union ToSet(txQueue) : n \in Nat
  <2>1. /\ \A link \in Links : ToSet(left[link]) \subseteq Ids
        /\ ToSet(radioTx) \subseteq Ids /\ ToSet(usbTransfer) \subseteq Ids
        /\ ToSet(usbTx) \subseteq Ids /\ ToSet(txQueue) \subseteq Ids
    BY Members DEF RepliesInv, RepliesTyped
  <2>2. Held \subseteq Nat /\ Ids \subseteq Nat /\ "radio" \in Links /\ "usb" \in Links
    BY DEF RepliesInv, RepliesTyped, Held, Links, Ids
  <2>3. QED
    BY <2>1, <2>2 DEF RepliesInv, RepliesTyped, RadioOut, UsbOut
<1>2. ASSUME UNCHANGED <<radioTx, usbTx, usbTransfer, left>>
      PROVE  LinksAscend' /\ RadioOut' = RadioOut /\ UsbOut' = UsbOut
  <2>1. RadioOut' = RadioOut /\ UsbOut' = UsbOut
    BY <1>2 DEF RadioOut, UsbOut
  <2>2. QED
    BY <1>1, <1>2, <2>1 DEF LinksAscend, Ascending, Below
<1>3. ASSUME nextOut' = nextOut + 1, UNCHANGED <<radioTx, usbTx, usbTransfer, left, txTask>>,
             txQueue' = txQueue \/ txQueue' = Append(txQueue, nextOut)
      PROVE  LinksAscend' /\ QueueAscends'
  <2>1. LinksAscend' /\ RadioOut' = RadioOut /\ UsbOut' = UsbOut /\ Held' = Held
    BY <1>2, <1>3 DEF Held
  <2>2. ToSet(txQueue') \subseteq ToSet(txQueue) \union {nextOut} /\ Ascending(txQueue')
    <3>1. CASE txQueue' = txQueue
      BY <1>1, <3>1 DEF QueueAscends
    <3>2. CASE txQueue' = Append(txQueue, nextOut)
      <4>1. ToSet(Append(txQueue, nextOut)) = ToSet(txQueue) \union {nextOut}
        BY <1>1, Appended
      <4>2. Below(ToSet(txQueue), {nextOut}) /\ Ascending(txQueue)
        BY <1>1 DEF QueueAscends, Below
      <4>3. QED
        BY <1>1, <3>2, <4>1, <4>2, AscentAppended
    <3>3. QED
      BY <1>3, <3>1, <3>2
  <2>3. Below(RadioOut \union UsbOut, Held \union ToSet(txQueue'))
        /\ Below(Held, ToSet(txQueue'))
    BY <1>1, <2>2 DEF QueueAscends, Below
  <2>4. Below(RadioOut \union UsbOut \union Held \union ToSet(txQueue'), {nextOut'})
    BY <1>1, <1>3, <2>2 DEF QueueAscends, Below, Ids
  <2>5. QED
    BY <2>1, <2>2, <2>3, <2>4 DEF QueueAscends, Below, Ascending
<1>4. ASSUME NEW port \in Servers, ServerReply(port)
      PROVE  LinksAscend' /\ QueueAscends'
  BY <1>3, <1>4 DEF ServerReply, linkVars, usbVars, taskVars
<1>5. CASE Publish
  BY <1>3, <1>5 DEF Publish, linkVars, usbVars, taskVars
<1>6. CASE CrtpReset
  <2>1. txQueue' = <<>> /\ UNCHANGED <<radioTx, usbTx, usbTransfer, left, txTask, nextOut>>
    BY <1>6 DEF CrtpReset, linkVars, usbVars, taskVars, historyVars
  <2>2. LinksAscend' /\ RadioOut' = RadioOut /\ UsbOut' = UsbOut /\ Held' = Held
    BY <1>2, <2>1 DEF Held
  <2>3. ToSet(txQueue') = {} /\ Ascending(txQueue')
    BY <2>1, Members DEF Ascending
  <2>4. QED
    BY <1>1, <2>1, <2>2, <2>3, FewerKeep
<1>7. CASE TxTake
  <2>1. /\ txTask.packet = 0 /\ txQueue # <<>> /\ txTask'.packet = Head(txQueue)
        /\ txQueue' = Tail(txQueue) /\ UNCHANGED <<radioTx, usbTx, usbTransfer, left, nextOut>>
    BY <1>7 DEF TxTake, linkVars, usbVars, historyVars, lossVars
  <2>2. LinksAscend' /\ RadioOut' = RadioOut /\ UsbOut' = UsbOut
    BY <1>2, <2>1
  <2>3. /\ ToSet(txQueue) = {Head(txQueue)} \union ToSet(txQueue') /\ Head(txQueue) \in Ids
        /\ Ascending(txQueue') /\ Below({Head(txQueue)}, ToSet(txQueue'))
    BY <1>1, <2>1, Taken, AscentTaken DEF QueueAscends
  <2>4. Held = {} /\ Held' = {Head(txQueue)}
    BY <2>1, <2>3 DEF Held, Ids
  <2>5. Held' \union ToSet(txQueue') = ToSet(txQueue)
    BY <2>3, <2>4
  <2>6. /\ Below(RadioOut', Held' \union ToSet(txQueue')) /\ Below(UsbOut', Held' \union ToSet(txQueue'))
        /\ Below(Held', ToSet(txQueue'))
        /\ Below(RadioOut' \union UsbOut' \union Held' \union ToSet(txQueue'), {nextOut'})
    BY <1>1, <2>1, <2>2, <2>3, <2>4, <2>5 DEF QueueAscends, Below
  <2>7. QED
    BY <2>2, <2>3, <2>6 DEF QueueAscends, Below, Ascending
<1>8. CASE TxWait \/ TxTimeout
  <2>1. txTask'.packet = txTask.packet
        /\ UNCHANGED <<radioTx, usbTx, usbTransfer, left, txQueue, nextOut>>
    BY <1>1, <1>8 DEF TxWait, TxTimeout, linkVars, usbVars, portVars, historyVars, lossVars
  <2>2. LinksAscend' /\ RadioOut' = RadioOut /\ UsbOut' = UsbOut /\ Held' = Held
    BY <1>2, <2>1 DEF Held
  <2>3. ToSet(txQueue') = ToSet(txQueue) /\ Ascending(txQueue')
    BY <1>1, <2>1 DEF QueueAscends
  <2>4. QED
    BY <1>1, <2>1, <2>2, <2>3, FewerKeep
<1>9. CASE TxSend
  <2> DEFINE n == txTask.packet
  <2>1. /\ \/ radioTx = <<>> /\ radioTx' = <<n>> /\ UNCHANGED usbTx
           \/ usbTx = <<>> /\ usbTx' = <<n>> /\ UNCHANGED radioTx
        /\ txTask'.packet = 0 /\ UNCHANGED <<usbTransfer, left, txQueue, nextOut>>
    BY <1>9 DEF TxSend, portVars, historyVars, lossVars
  <2>2. n # 0 /\ Held = {n} /\ Held' = {}
    BY <1>9, <2>1 DEF TxSend, RepliesInv, RepliesTyped, Held
  <2>3. /\ Below(RadioOut, {n}) /\ Below(UsbOut, {n}) /\ Below({n}, ToSet(txQueue))
        /\ n \in Nat
    BY <1>1, <2>2 DEF QueueAscends, Below
  <2> HIDE DEF n
  <2>4. ToSet(<<n>>) = {n} /\ ToSet(<<>>) = {} /\ n \notin RadioOut /\ n \notin UsbOut
    BY <2>3, Members DEF ToSet, Below
  <2>5. RadioOut' \union UsbOut' = RadioOut \union UsbOut \union {n} /\ LinksAscend'
    <3>1. CASE radioTx = <<>> /\ radioTx' = <<n>> /\ UNCHANGED usbTx
      <4>1. RadioOut' = RadioOut \union {n} /\ UsbOut' = UsbOut
        BY <2>1, <2>4, <3>1 DEF RadioOut, UsbOut
      <4>2. Below(ToSet(left["radio"]), {n})
        BY <2>3 DEF Below, RadioOut
      <4>3. LinksAscend'
        BY <1>1, <2>1, <2>4, <3>1, <4>1, <4>2 DEF LinksAscend, Ascending, Below
      <4>4. QED
        BY <4>1, <4>3
    <3>2. CASE usbTx = <<>> /\ usbTx' = <<n>> /\ UNCHANGED radioTx
      <4>1. UsbOut' = UsbOut \union {n} /\ RadioOut' = RadioOut
        BY <2>1, <2>4, <3>2 DEF RadioOut, UsbOut
      <4>2. Below(ToSet(left["usb"]), {n}) /\ Below(ToSet(usbTransfer), {n})
        BY <2>3 DEF Below, UsbOut
      <4>3. LinksAscend'
        BY <1>1, <2>1, <2>4, <3>2, <4>1, <4>2 DEF LinksAscend, Ascending, Below
      <4>4. QED
        BY <4>1, <4>3
    <3>3. QED
      BY <2>1, <3>1, <3>2
  <2>6. QueueAscends'
    <3>1. Below(RadioOut \union UsbOut \union {n}, ToSet(txQueue))
      BY <1>1, <2>3 DEF QueueAscends, Below
    <3>2. Below(RadioOut \union UsbOut \union {n} \union ToSet(txQueue), {nextOut})
      BY <1>1, <2>2 DEF QueueAscends, Below
    <3>3. QED
      BY <1>1, <2>1, <2>2, <2>5, <3>1, <3>2 DEF QueueAscends, Below, Ascending
  <2>7. QED
    BY <2>5, <2>6
<1>10. QED
  BY <1>4, <1>5, <1>6, <1>7, <1>8, <1>9 DEF TxTask

\* Every step keeps the order of the packets to the client.
LEMMA RepliesInvStep ==
  ASSUME RepliesInv, FlagsTyped, [Next]_crtpVars
  PROVE  RepliesInv'
<1>1. RepliesTyped'
  BY RepliesStep DEF RepliesInv
<1>2. CASE ReplyStep
  BY <1>1, <1>2, LinkStepKeeps, QueueStepKeeps DEF ReplyStep, RepliesInv
<1>3. ASSUME UNCHANGED replyVars PROVE RepliesInv'
  <2>1. RadioOut' = RadioOut /\ UsbOut' = UsbOut /\ Held' = Held
    BY <1>3 DEF replyVars, RadioOut, UsbOut, Held
  <2>2. QED
    BY <1>1, <1>3, <2>1 DEF replyVars, RepliesInv, LinksAscend, QueueAscends, Below, Ascending
<1>4. CASE Next /\ ~ReplyStep
  BY <1>3, <1>4, OthersLeaveReplies
<1>5. CASE UNCHANGED crtpVars
  BY <1>3, <1>5 DEF crtpVars, replyVars, linkVars, usbVars, taskVars, portVars, historyVars, lossVars
<1>6. QED
  BY <1>2, <1>4, <1>5

\* What the invariant says of what has left.
LEMMA RepliesImplied == RepliesInv => RepliesInOrder
  BY DEF RepliesInv, LinksAscend, Ascending, RadioOut, UsbOut, RepliesInOrder, Links

-----------------------------------------------------------------------------
(* The end point *)

\* The start-up closes the end point.
LEMMA DeafInit == Init => UsbNeverDeaf
  BY DEF Init, UsbNeverDeaf

\* An end point closes only with a full queue, is noted, and is armed before the
\* task that emptied the queue goes on.
LEMMA DeafStep ==
  ASSUME UsbNeverDeaf, [Next]_crtpVars
  PROVE  UsbNeverDeaf'
<1> USE DEF UsbNeverDeaf
<1>1. CASE UsbInit \/ \E closes \in BOOLEAN : ResetUsb(closes)
  BY <1>1 DEF UsbInit, ResetUsb, taskVars
<1>2. CASE SetupUsbLink \/ SetupRadioLink
  BY <1>2 DEF SetupUsbLink, SetupRadioLink, usbVars, taskVars
<1>3. CASE DataIn \/ StartOfFrame
  BY <1>3 DEF DataIn, StartOfFrame, StartTransfer, taskVars
<1>4. ASSUME NEW port \in Ports, DataOut(port)
      PROVE  UsbNeverDeaf'
  <2>1. usbRx' = <<>> => Len(usbRx') = 0
    OBVIOUS
  <2>2. /\ usbArmed' = ~(Len(usbRx') >= UsbRxSize)
        /\ rxStopped' = (Len(usbRx') >= UsbRxSize)
    BY <1>4 DEF DataOut, Full
  <2>3. CASE Len(usbRx') >= UsbRxSize
    <3>1. usbRx' # <<>>
      BY <2>1, <2>3, Sizes
    <3>2. rxStopped'
      BY <2>2, <2>3, Zenon
    <3>3. QED
      BY <3>1, <3>2
  <2>4. CASE ~(Len(usbRx') >= UsbRxSize)
    <3>1. usbArmed'
      BY <2>2, <2>4, Zenon
    <3>2. QED
      BY <3>1
  <2>5. QED
    BY <2>3, <2>4
<1>5. CASE UsbReceive
  BY <1>5 DEF UsbReceive
<1>6. CASE UsbRearm
  <2>1. /\ usbArmed' = (usbArmed \/ (rxStopped /\ usbConfigured))
        /\ usbConfigured' = usbConfigured
    BY <1>6 DEF UsbRearm
  <2>2. usbConfigured' => usbArmed'
    BY <2>1, Zenon
  <2>3. QED
    BY <2>2
<1>7. CASE UsbForward
  BY <1>7 DEF UsbForward, usbVars
<1>8. ASSUME UNCHANGED <<usbVars, usbTask>> PROVE UsbNeverDeaf'
  BY <1>8 DEF usbVars
<1>9. ASSUME NEW port \in Ports, RadioPacket(port) \/ RadioBroadcast(port)
      PROVE  UNCHANGED <<usbVars, usbTask>>
  BY <1>9 DEF RadioPacket, RadioBroadcast, taskVars
<1>10. CASE RxTask
  BY <1>8, <1>10 DEF RxTask, RxWait, RxReceive, RxTimeout, RxDeliver, Delivered
<1>11. CASE TxTake \/ TxWait \/ TxTimeout
  BY <1>8, <1>11 DEF TxTake, TxWait, TxTimeout
<1>12. CASE TxSend
  BY <1>12 DEF TxSend
<1>13. ASSUME NEW port \in Ports, StartServer(port) \/ Server(port)
       PROVE  UNCHANGED <<usbVars, usbTask>>
  BY <1>13 DEF Server, StartServer, ServerReceive, ServerReply, taskVars
<1>14. CASE Publish \/ CrtpReset \/ CommInit \/ UNCHANGED crtpVars
  BY <1>8, <1>14 DEF Publish, CrtpReset, CommInit, taskVars, crtpVars
<1>15. QED
  BY <1>1, <1>2, <1>3, <1>4, <1>5, <1>6, <1>7, <1>8, <1>9, <1>10, <1>11, <1>12, <1>13, <1>14
     DEF Next, Radio, UsbInterrupt, UsbLinkTask, TxTask, Ports

\* Nothing is refused at the start.
LEMMA RefusalsInit == Init => RefusalsInv
  BY DEF Init, RefusalsInv

\* A queue from which a packet is taken is no fuller than before.
LEMMA TakenNotFull ==
  ASSUME NEW q \in Seq(Packets), q # <<>>, NEW size \in Nat, Full(Tail(q), size)
  PROVE  Full(q, size)
<1>1. Len(Tail(q)) = Len(q) - 1 /\ Len(q) \in Nat
  BY Taken
<1>2. QED
  BY <1>1 DEF Full

\* The flag is raised wherever the end point is armed, and is never lowered.
LEMMA RefusalsStep ==
  ASSUME RefusalsInv, RequestsTyped, FlagsTyped, [Next]_crtpVars
  PROVE  RefusalsInv'
<1> USE DEF RefusalsInv
<1>1. CASE UsbInit
  BY <1>1 DEF UsbInit
<1>2. ASSUME NEW closes \in BOOLEAN, ResetUsb(closes)
      PROVE  RefusalsInv'
  BY <1>2 DEF ResetUsb, historyVars, lossVars
<1>3. CASE SetupUsbLink
  BY <1>3 DEF SetupUsbLink, historyVars, lossVars, Full
<1>4. ASSUME NEW port \in Ports, DataOut(port)
      PROVE  RefusalsInv'
  <2>1. /\ usbArmed /\ armedFull' = armedFull /\ usbArmed' = ~Full(usbRx', UsbRxSize)
        /\ ~Full(usbRx, UsbRxSize) => refused' = refused
    BY <1>4 DEF DataOut
  <2>2. refused' # {} => armedFull'
    BY <2>1
  <2>3. ~(usbArmed' /\ Full(usbRx', UsbRxSize))
    BY <2>1, Zenon
  <2>4. QED
    BY <2>2, <2>3 DEF Full
<1>5. CASE UsbReceive
  <2>1. /\ usbRx # <<>> /\ usbRx' = Tail(usbRx) /\ usbRx \in Seq(Packets)
        /\ UNCHANGED <<usbArmed, refused, armedFull>>
    BY <1>5 DEF UsbReceive, RequestsTyped, historyVars, lossVars
  <2>2. Full(usbRx', UsbRxSize) => Full(usbRx, UsbRxSize)
    BY <2>1, TakenNotFull, Sizes
  <2>3. QED
    BY <2>1, <2>2 DEF Full
<1>6. CASE UsbRearm
  <2>1. /\ usbArmed' = (usbArmed \/ (rxStopped /\ usbConfigured))
        /\ armedFull' = (armedFull \/ (rxStopped /\ usbConfigured /\ Full(usbRx, UsbRxSize)))
        /\ UNCHANGED <<usbRx, refused>>
    BY <1>6 DEF UsbRearm
  <2>2. Full(usbRx, UsbRxSize)' = Full(usbRx, UsbRxSize)
    BY <2>1 DEF Full
  <2>3. QED
    BY <2>1, <2>2
<1>7. ASSUME UNCHANGED <<usbRx, usbArmed, refused, armedFull>> PROVE RefusalsInv'
  BY <1>7 DEF Full
<1>8. CASE SetupRadioLink \/ UsbForward
  BY <1>7, <1>8 DEF SetupRadioLink, UsbForward, usbVars, historyVars, lossVars
<1>9. CASE DataIn \/ StartOfFrame
  BY <1>7, <1>9 DEF DataIn, StartOfFrame, StartTransfer, historyVars, lossVars
<1>10. ASSUME NEW port \in Ports, RadioPacket(port) \/ RadioBroadcast(port)
       PROVE  UNCHANGED <<usbRx, usbArmed, refused, armedFull>>
  BY <1>10 DEF RadioPacket, RadioBroadcast, usbVars, lossVars
<1>11. CASE RxTask
  BY <1>7, <1>11 DEF RxTask, RxWait, RxReceive, RxTimeout, RxDeliver, Delivered, usbVars,
     historyVars, lossVars
<1>12. CASE TxTask
  BY <1>7, <1>12 DEF TxTask, TxTake, TxWait, TxSend, TxTimeout, usbVars, historyVars, lossVars
<1>13. ASSUME NEW port \in Ports, StartServer(port) \/ ServerReceive(port) \/ ServerReply(port)
       PROVE  UNCHANGED <<usbRx, usbArmed, refused, armedFull>>
  BY <1>13 DEF StartServer, ServerReceive, ServerReply, usbVars, historyVars, lossVars
<1>14. CASE Publish \/ CrtpReset \/ CommInit \/ UNCHANGED crtpVars
  BY <1>7, <1>14 DEF Publish, CrtpReset, CommInit, usbVars, crtpVars, historyVars, lossVars
<1>15. QED
  BY <1>1, <1>2, <1>3, <1>4, <1>5, <1>6, <1>7, <1>8, <1>9, <1>10, <1>11, <1>12, <1>13, <1>14
     DEF Next, Radio, UsbInterrupt, UsbLinkTask, Server, Ports

-----------------------------------------------------------------------------
(* The theorems *)

\* Every queue is within its size and holds packets, for any sizes.
THEOREM StackTyped == Spec => []TypeOK
<1>1. Init => TypeOK
  BY TypeInit
<1>2. TypeOK /\ [Next]_crtpVars => TypeOK'
  BY TypeStep
<1>3. QED
  BY <1>1, <1>2, PTL DEF Spec

\* A request that a link acknowledged is on its way or was handed over, but for
\* those that came before their server and those for which the end point was armed
\* without room.
THEOREM RequestsAreKept == Spec => []RequestsKept
<1>1. Init => RequestsInv /\ RefusalsInv
  BY RequestsInit, RefusalsInit
<1>2. RequestsInv /\ RefusalsInv /\ TypeOK /\ [Next]_crtpVars => RequestsInv' /\ RefusalsInv'
  BY RequestsInvStep, RefusalsStep DEF TypeOK
<1>3. RequestsInv /\ RefusalsInv => RequestsKept
  BY RequestsImplied
<1>4. QED
  BY <1>1, <1>2, <1>3, StackTyped, PTL DEF Spec

\* Requests of one link and one port are handed over once and in order.
THEOREM RequestsAreOrdered == Spec => []RequestsInOrder
<1>1. Init => RequestsInv
  BY RequestsInit
<1>2. RequestsInv /\ TypeOK /\ [Next]_crtpVars => RequestsInv'
  BY RequestsInvStep DEF TypeOK
<1>3. RequestsInv => RequestsInOrder
  BY RequestsImplied
<1>4. QED
  BY <1>1, <1>2, <1>3, StackTyped, PTL DEF Spec

\* Replies leave in order over each link, and never over both.
THEOREM RepliesAreOrdered == Spec => []RepliesInOrder
<1>1. Init => RepliesInv
  BY RepliesInit
<1>2. RepliesInv /\ TypeOK /\ [Next]_crtpVars => RepliesInv'
  BY RepliesInvStep DEF TypeOK
<1>3. RepliesInv => RepliesInOrder
  BY RepliesImplied
<1>4. QED
  BY <1>1, <1>2, <1>3, StackTyped, PTL DEF Spec

\* The OUT end point is never closed with nobody to open it.
THEOREM EndPointRecovers == Spec => []UsbNeverDeaf
<1>1. Init => UsbNeverDeaf
  BY DeafInit
<1>2. UsbNeverDeaf /\ [Next]_crtpVars => UsbNeverDeaf'
  BY DeafStep
<1>3. QED
  BY <1>1, <1>2, PTL DEF Spec

=============================================================================
