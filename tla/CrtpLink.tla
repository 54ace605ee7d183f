------------------------------ MODULE CrtpLink ------------------------------
(***************************************************************************)
(* The communication stack between a client and the CRTP servers:          *)
(* crtp/crtp.cpp, radiolink.hpp, tasks/usblink.hpp and the CRTP end point  *)
(* of hal/usb.cpp, with the queues that the tasks and interrupts pass      *)
(* packets through.                                                        *)
(*                                                                         *)
(* A packet from the client is its number, its port and the link it came   *)
(* by; a packet to the client is its number.  A receive or send that waits *)
(* 100 ms on a link is two steps, for the link may change in between.      *)
(***************************************************************************)
EXTENDS Integers, Sequences, SequencesExt

CONSTANTS
  Servers,          \* the ports whose task owns a queue
  CallbackPorts,    \* the ports with a callback
  TxQueueSize,      \* CRTP_TX_QUEUE_SIZE
  PortQueueSize,    \* CRTP_RX_QUEUE_SIZE
  RadioRxSize,      \* RX_QUEUE_LENGTH of the radio link
  UsbRxSize,        \* the length of rxQueue in usb.cpp
  UsbPacketsSize,   \* QUEUE_LENGTH of the USB link
  MaxIn,            \* bound on the packets from the client
  MaxRadioIn,       \* only the first so many of them may come over the radio
  MaxOut            \* bound on the packets out, replies excepted

ASSUME CrtpLinkAssumption ==
  /\ {TxQueueSize, PortQueueSize, RadioRxSize, UsbRxSize, UsbPacketsSize} \subseteq Nat \ {0}
  /\ {MaxIn, MaxRadioIn, MaxOut} \subseteq Nat
  /\ Servers \cap CallbackPorts = {}

VARIABLES
  linkType,
  radioRx, radioTx,           \* the queues of the radio link
  usbRx, usbTx,               \* the queues of usb.cpp
  usbTransfer,                \* the packet that the IN end point is sending
  transferLost,               \* ... which was closed when the transfer began
  usbConfigured,              \* the host has configured the end points
  usbArmed,                   \* the OUT end point accepts a packet
  rxStopped,                  \* what usb.cpp takes for its contrary
  usbTask,                    \* the USBLINK task: where it is, what it holds
  packetsQueue,               \* ... and the queue it fills
  rxTask, txTask,             \* the CRTP tasks: the link waited on, the packet held
  txQueue,
  portQueues, ready,          \* the servers' queues; the ports that are served yet
  replying,                   \* the servers that owe a reply
  commDidInit,                \* commInit() has selected the radio
  asserted                    \* an ASSERT has failed: the system is halted

linkVars == <<radioRx, radioTx>>
usbVars  == <<usbRx, usbTx, usbTransfer, transferLost, usbConfigured, usbArmed, rxStopped>>
taskVars == <<usbTask, packetsQueue, rxTask, txTask>>
portVars == <<txQueue, portQueues, ready, replying>>
sysVars  == <<commDidInit, asserted>>

\* What has happened, for the properties
VARIABLES
  nextIn, nextOut,            \* the numbers of the next packets
  accepted,                   \* the client's packets that a link has acknowledged
  taken,                      \* those handed to a server or a callback, in order
  early,                      \* those dropped because their port was not served yet
  refused,                    \* those for which usb.cpp had no room
  armedFull,                  \* the OUT end point was armed while usbRx was full
  left                        \* per link, the packets that left for the client

lossVars == <<early, refused, armedFull>>
historyVars == <<nextIn, nextOut, accepted, taken, lossVars, left>>
crtpVars == <<linkType, linkVars, usbVars, taskVars, portVars, sysVars, historyVars>>

Links == {"radio", "usb"}
Ports == Servers \union CallbackPorts
Nothing == [id |-> 0]
Packet(port, link) == [id |-> nextIn, port |-> port, via |-> link]

Full(queue, size) == Len(queue) >= size

\* A queue's packet leaves for the client, if it has one
Leave(queue, link) ==
  left' = IF queue = <<>> THEN left ELSE [left EXCEPT ![link] = Append(@, Head(queue))]

-----------------------------------------------------------------------------
(* The radio: the SYSLINK task in syslinkDispatch() *)

\* A radio packet is the poll that lets one packet out.  The stream from the radio
\* is enabled after commInit().
RadioPacket(port) ==
  /\ ~asserted /\ commDidInit /\ nextIn <= MaxIn /\ nextIn <= MaxRadioIn
  /\ nextIn' = nextIn + 1
  /\ IF Full(radioRx, RadioRxSize)
     THEN /\ asserted' = TRUE
          /\ UNCHANGED <<linkVars, accepted, left>>
     ELSE /\ radioRx' = Append(radioRx, Packet(port, "radio"))
          /\ accepted' = accepted \union {nextIn}
          /\ radioTx' = <<>>
          /\ Leave(radioTx, "radio")
          /\ UNCHANGED asserted
  /\ UNCHANGED <<linkType, usbVars, taskVars, portVars, commDidInit, nextOut, taken, lossVars>>

RadioBroadcast(port) ==
  /\ ~asserted /\ commDidInit /\ nextIn <= MaxIn /\ nextIn <= MaxRadioIn
  /\ nextIn' = nextIn + 1
  /\ IF Full(radioRx, RadioRxSize)
     THEN UNCHANGED <<radioRx, accepted>>
     ELSE /\ radioRx' = Append(radioRx, Packet(port, "radio"))
          /\ accepted' = accepted \union {nextIn}
  /\ UNCHANGED <<linkType, radioTx, usbVars, taskVars, portVars, sysVars,
                 nextOut, taken, lossVars, left>>

-----------------------------------------------------------------------------
(* USB: interrupts *)

\* The host selects a configuration: usbd_cf_Init()
UsbInit ==
  /\ ~asserted /\ ~usbConfigured
  /\ usbConfigured' = TRUE /\ usbArmed' = TRUE /\ rxStopped' = FALSE
  /\ armedFull' = (armedFull \/ Full(usbRx, UsbRxSize))
  /\ UNCHANGED <<linkType, linkVars, usbRx, usbTx, usbTransfer, transferLost, taskVars,
                 portVars, sysVars, nextIn, nextOut, accepted, taken, early, refused, left>>

\* A bus reset or a disconnection closes the end points, a suspension does not
ResetUsb(closes) ==
  /\ ~asserted
  /\ linkType' = "radio"
  /\ usbTx' = <<>> /\ usbTransfer' = <<>> /\ transferLost' = FALSE
  /\ rxStopped' = TRUE
  /\ usbConfigured' = (usbConfigured /\ ~closes)
  /\ usbArmed' = (usbArmed /\ ~closes)
  /\ UNCHANGED <<linkVars, usbRx, taskVars, portVars, sysVars, historyVars>>

\* The vendor requests of usbd_cf_Setup()
SetupUsbLink ==
  /\ ~asserted /\ usbConfigured
  /\ linkType' = "usb"
  /\ IF rxStopped /\ ~Full(usbRx, UsbRxSize)
     THEN usbArmed' = TRUE /\ rxStopped' = FALSE
     ELSE UNCHANGED <<usbArmed, rxStopped>>
  /\ UNCHANGED <<linkVars, usbRx, usbTx, usbTransfer, transferLost, usbConfigured, taskVars,
                 portVars, sysVars, historyVars>>

SetupRadioLink ==
  /\ ~asserted /\ usbConfigured
  /\ linkType' = "radio"
  /\ UNCHANGED <<linkVars, usbVars, taskVars, portVars, sysVars, historyVars>>

\* Fault: a stopped end point is not noted
DataOutForgetsStop(port) ==
  /\ ~asserted /\ usbArmed /\ nextIn <= MaxIn
  /\ nextIn' = nextIn + 1 /\ accepted' = accepted \union {nextIn}
  /\ IF Full(usbRx, UsbRxSize)
     THEN refused' = refused \union {Packet(port, "usb")} /\ UNCHANGED usbRx
     ELSE usbRx' = Append(usbRx, Packet(port, "usb")) /\ UNCHANGED refused
  /\ usbArmed' = ~Full(usbRx', UsbRxSize)
  /\ UNCHANGED <<linkType, linkVars, usbTx, usbTransfer, transferLost, usbConfigured, rxStopped,
                 taskVars, portVars, sysVars, nextOut, taken, early, armedFull, left>>

\* A packet has come in, and the host has its acknowledgement: usbd_cf_DataOut()
DataOut(port) ==
  /\ ~asserted /\ usbArmed /\ nextIn <= MaxIn
  /\ nextIn' = nextIn + 1 /\ accepted' = accepted \union {nextIn}
  /\ IF Full(usbRx, UsbRxSize)
     THEN refused' = refused \union {Packet(port, "usb")} /\ UNCHANGED usbRx
     ELSE usbRx' = Append(usbRx, Packet(port, "usb")) /\ UNCHANGED refused
  /\ usbArmed' = ~Full(usbRx', UsbRxSize)
  /\ rxStopped' = Full(usbRx', UsbRxSize)
  /\ UNCHANGED <<linkType, linkVars, usbTx, usbTransfer, transferLost, usbConfigured, taskVars,
                 portVars, sysVars, nextOut, taken, early, armedFull, left>>

\* The next transfer, if a packet waits; nothing checks that the end point is open
StartTransfer ==
  /\ usbTransfer' = IF usbTx = <<>> THEN <<>> ELSE <<Head(usbTx)>>
  /\ usbTx' = IF usbTx = <<>> THEN <<>> ELSE Tail(usbTx)
  /\ transferLost' = (usbTx # <<>> /\ ~usbConfigured)
  /\ UNCHANGED <<linkType, linkVars, usbRx, usbConfigured, usbArmed, rxStopped, taskVars,
                 portVars, sysVars>>

\* The host has polled a transfer: usbd_cf_DataIn().  Whether it can poll one that
\* began on a closed end point, once that has been opened, is up to the hardware.
DataIn ==
  /\ ~asserted /\ usbConfigured /\ usbTransfer # <<>>
  /\ Leave(usbTransfer, "usb")
  /\ StartTransfer
  /\ UNCHANGED <<nextIn, nextOut, accepted, taken, lossVars>>

\* Every millisecond the bus brings a start of frame, to a device that is not
\* configured yet as well: usbd_cf_SOF()
StartOfFrame ==
  /\ ~asserted /\ usbTransfer = <<>>
  /\ StartTransfer
  /\ UNCHANGED historyVars

-----------------------------------------------------------------------------
(* The USBLINK task *)

UsbReceive ==
  /\ ~asserted /\ usbTask.at = "receive" /\ usbRx # <<>>
  /\ usbTask' = [at |-> "rearm", packet |-> Head(usbRx)]
  /\ usbRx' = Tail(usbRx)
  /\ UNCHANGED <<linkType, linkVars, usbTx, usbTransfer, transferLost, usbConfigured, usbArmed,
                 rxStopped, packetsQueue, rxTask, txTask, portVars, sysVars, historyVars>>

\* The rest of usbGetDataBlocking(), with the USB interrupt off; arming a closed
\* end point has no effect.  The queue may have filled up again meanwhile.
UsbRearm ==
  /\ ~asserted /\ usbTask.at = "rearm"
  /\ usbTask' = [usbTask EXCEPT !.at = "forward"]
  /\ usbArmed' = (usbArmed \/ (rxStopped /\ usbConfigured))
  /\ rxStopped' = FALSE
  /\ armedFull' = (armedFull \/ (rxStopped /\ usbConfigured /\ Full(usbRx, UsbRxSize)))
  /\ UNCHANGED <<linkType, linkVars, usbRx, usbTx, usbTransfer, transferLost, usbConfigured,
                 packetsQueue, rxTask, txTask, portVars, sysVars,
                 nextIn, nextOut, accepted, taken, early, refused, left>>

UsbForward ==
  /\ ~asserted /\ usbTask.at = "forward" /\ ~Full(packetsQueue, UsbPacketsSize)
  /\ packetsQueue' = Append(packetsQueue, usbTask.packet)
  /\ usbTask' = [at |-> "receive", packet |-> Nothing]
  /\ UNCHANGED <<linkType, linkVars, usbVars, rxTask, txTask, portVars, sysVars, historyVars>>

-----------------------------------------------------------------------------
(* The CRTP receive task *)

RxWait ==
  /\ ~asserted /\ linkType # "none"
  /\ rxTask = [link |-> "none", packet |-> Nothing]
  /\ rxTask' = [rxTask EXCEPT !.link = linkType]
  /\ UNCHANGED <<linkType, linkVars, usbVars, usbTask, packetsQueue, txTask, portVars,
                 sysVars, historyVars>>

RxReceive ==
  /\ ~asserted
  /\ \/ /\ rxTask.link = "radio" /\ radioRx # <<>>
        /\ rxTask' = [link |-> "none", packet |-> Head(radioRx)]
        /\ radioRx' = Tail(radioRx)
        /\ UNCHANGED packetsQueue
     \/ /\ rxTask.link = "usb" /\ packetsQueue # <<>>
        /\ rxTask' = [link |-> "none", packet |-> Head(packetsQueue)]
        /\ packetsQueue' = Tail(packetsQueue)
        /\ UNCHANGED radioRx
  /\ UNCHANGED <<linkType, radioTx, usbVars, usbTask, txTask, portVars, sysVars, historyVars>>

RxTimeout ==
  /\ ~asserted
  /\ \/ rxTask.link = "radio" /\ radioRx = <<>>
     \/ rxTask.link = "usb" /\ packetsQueue = <<>>
  /\ rxTask' = [rxTask EXCEPT !.link = "none"]
  /\ UNCHANGED <<linkType, linkVars, usbVars, usbTask, packetsQueue, txTask, portVars,
                 sysVars, historyVars>>

\* What becomes of a packet in the loop of crtpRxTask(): the port's queue takes it,
\* the port's callback is called, or, for a port with neither, it is forgotten
Enqueued(p) ==
  /\ portQueues' = [portQueues EXCEPT ![p.port] = Append(@, p)]
  /\ UNCHANGED <<taken, early>>
HandedOver(p) == taken' = Append(taken, p) /\ UNCHANGED <<portQueues, early>>
Forgotten(p) == early' = early \union {p} /\ UNCHANGED <<portQueues, taken>>

\* The task is then ready for the next packet
Delivered ==
  /\ rxTask' = [rxTask EXCEPT !.packet = Nothing]
  /\ UNCHANGED <<linkType, linkVars, usbVars, usbTask, packetsQueue, txTask, txQueue, ready,
                 replying, sysVars, nextIn, nextOut, accepted, refused, armedFull, left>>

\* Fault: a full queue is not waited for
RxDeliverOrDrop ==
  LET p == rxTask.packet
  IN
  /\ ~asserted /\ p # Nothing
  /\ IF ~ready[p.port] THEN Forgotten(p)
     ELSE IF p.port \in CallbackPorts THEN HandedOver(p)
     ELSE IF Full(portQueues[p.port], PortQueueSize) THEN Forgotten(p)
     ELSE Enqueued(p)
  /\ Delivered

\* Fault: when the queue is full the packet is handled at once
RxBypassQueue ==
  LET p == rxTask.packet
  IN
  /\ ~asserted /\ p # Nothing
  /\ IF ~ready[p.port] THEN Forgotten(p)
     ELSE IF p.port \in CallbackPorts \/ Full(portQueues[p.port], PortQueueSize) THEN HandedOver(p)
     ELSE Enqueued(p)
  /\ Delivered

\* The task waits for room in the port's queue
RxDeliver ==
  LET p == rxTask.packet
  IN
  /\ ~asserted /\ p # Nothing
  /\ \/ ~ready[p.port] /\ Forgotten(p)
     \/ ready[p.port] /\ p.port \in CallbackPorts /\ HandedOver(p)
     \/ /\ ready[p.port] /\ p.port \in Servers
        /\ ~Full(portQueues[p.port], PortQueueSize)
        /\ Enqueued(p)
  /\ Delivered

-----------------------------------------------------------------------------
(* The servers: every task that serves a port receives, handles, replies *)

\* crtpInitTaskQueue() at the start of the server's task, or crtpRegisterPortCB();
\* both come after the link is selected in commInit()
StartServer(port) ==
  /\ ~asserted /\ commDidInit /\ ~ready[port]
  /\ ready' = [ready EXCEPT ![port] = TRUE]
  /\ UNCHANGED <<linkType, linkVars, usbVars, taskVars, txQueue, portQueues, replying,
                 sysVars, historyVars>>

\* Some requests are answered, some are not
ServerReceive(port) ==
  /\ ~asserted /\ ready[port] /\ port \notin replying
  /\ portQueues[port] # <<>>
  /\ taken' = Append(taken, Head(portQueues[port]))
  /\ portQueues' = [portQueues EXCEPT ![port] = Tail(@)]
  /\ replying' \in {replying, replying \union {port}}
  /\ UNCHANGED <<linkType, linkVars, usbVars, taskVars, txQueue, ready, sysVars,
                 nextIn, nextOut, accepted, lossVars, left>>

\* crtpSendPacketBlock()
ServerReply(port) ==
  /\ ~asserted /\ port \in replying
  /\ ~Full(txQueue, TxQueueSize)
  /\ txQueue' = Append(txQueue, nextOut)
  /\ nextOut' = nextOut + 1
  /\ replying' = replying \ {port}
  /\ UNCHANGED <<linkType, linkVars, usbVars, taskVars, portQueues, ready, sysVars,
                 nextIn, accepted, taken, lossVars, left>>

\* crtpSendPacket(), which the logger and the console use: the packet is dropped
\* when the queue is full
Publish ==
  /\ ~asserted /\ nextOut <= MaxOut
  /\ nextOut' = nextOut + 1
  /\ txQueue' = IF Full(txQueue, TxQueueSize) THEN txQueue ELSE Append(txQueue, nextOut)
  /\ UNCHANGED <<linkType, linkVars, usbVars, taskVars, portQueues, ready, replying, sysVars,
                 nextIn, accepted, taken, lossVars, left>>

\* crtpReset(), which the logger calls when the radio has been silent
CrtpReset ==
  /\ ~asserted /\ linkType = "radio"
  /\ txQueue' = <<>>
  /\ UNCHANGED <<linkType, linkVars, usbVars, taskVars, portQueues, ready, replying, sysVars,
                 historyVars>>

-----------------------------------------------------------------------------
(* The CRTP transmit task *)

\* Fault: the packet is looked at and not taken out
TxPeek ==
  /\ ~asserted /\ linkType # "none"
  /\ txTask.packet = 0 /\ txQueue # <<>>
  /\ txTask' = [link |-> "none", packet |-> Head(txQueue)]
  /\ UNCHANGED <<linkType, linkVars, usbVars, usbTask, packetsQueue, rxTask, portVars,
                 sysVars, historyVars>>

TxTake ==
  /\ ~asserted /\ linkType # "none"
  /\ txTask.packet = 0 /\ txQueue # <<>>
  /\ txTask' = [link |-> "none", packet |-> Head(txQueue)]
  /\ txQueue' = Tail(txQueue)
  /\ UNCHANGED <<linkType, linkVars, usbVars, usbTask, packetsQueue, rxTask, portQueues, ready,
                 replying, sysVars, historyVars>>

\* sendPacket() of the link that is now selected
TxWait ==
  /\ ~asserted /\ txTask.packet # 0 /\ txTask.link = "none"
  /\ txTask' = [txTask EXCEPT !.link = linkType]
  /\ UNCHANGED <<linkType, linkVars, usbVars, usbTask, packetsQueue, rxTask, portVars,
                 sysVars, historyVars>>

\* ... which succeeds once the link's queue has room
TxSend ==
  /\ ~asserted
  /\ \/ /\ txTask.link = "radio" /\ radioTx = <<>>
        /\ radioTx' = <<txTask.packet>>
        /\ UNCHANGED usbTx
     \/ /\ txTask.link = "usb" /\ usbTx = <<>>
        /\ usbTx' = <<txTask.packet>>
        /\ UNCHANGED radioTx
  /\ txTask' = [link |-> "none", packet |-> 0]
  /\ UNCHANGED <<linkType, radioRx, usbRx, usbTransfer, transferLost, usbConfigured, usbArmed,
                 rxStopped, usbTask, packetsQueue, rxTask, portVars, sysVars, historyVars>>

\* Fault: the retry is on the link of the first try
TxRetrySameLink ==
  /\ ~asserted
  /\ \/ txTask.link = "radio" /\ radioTx # <<>>
     \/ txTask.link = "usb" /\ usbTx # <<>>
  /\ UNCHANGED crtpVars

\* ... or has to be tried again
TxTimeout ==
  /\ ~asserted
  /\ \/ txTask.link = "radio" /\ radioTx # <<>>
     \/ txTask.link = "usb" /\ usbTx # <<>>
  /\ txTask' = [txTask EXCEPT !.link = "none"]
  /\ UNCHANGED <<linkType, linkVars, usbVars, usbTask, packetsQueue, rxTask, portVars,
                 sysVars, historyVars>>

-----------------------------------------------------------------------------
(* The specification *)

\* commInit() selects the radio; the USB interrupt may have run before it
CommInit ==
  /\ ~asserted /\ ~commDidInit
  /\ commDidInit' = TRUE
  /\ linkType' = "radio"
  /\ UNCHANGED <<linkVars, usbVars, taskVars, portVars, asserted, historyVars>>

Init ==
  /\ linkType = "none"
  /\ radioRx = <<>> /\ radioTx = <<>>
  /\ usbRx = <<>> /\ usbTx = <<>> /\ usbTransfer = <<>> /\ transferLost = FALSE
  /\ usbConfigured = FALSE /\ usbArmed = FALSE /\ rxStopped = TRUE
  /\ usbTask = [at |-> "receive", packet |-> Nothing]
  /\ packetsQueue = <<>>
  /\ rxTask = [link |-> "none", packet |-> Nothing]
  /\ txTask = [link |-> "none", packet |-> 0]
  /\ txQueue = <<>>
  /\ portQueues = [port \in Servers |-> <<>>]
  /\ ready = [port \in Ports |-> FALSE]
  /\ replying = {}
  /\ commDidInit = FALSE /\ asserted = FALSE
  /\ nextIn = 1 /\ nextOut = 1
  /\ accepted = {}
  /\ taken = <<>> /\ early = {} /\ refused = {} /\ armedFull = FALSE
  /\ left = [link \in Links |-> <<>>]

Radio == \E port \in Ports : RadioPacket(port) \/ RadioBroadcast(port)

UsbInterrupt ==
  \/ UsbInit \/ SetupUsbLink \/ SetupRadioLink \/ DataIn \/ StartOfFrame
  \/ \E closes \in BOOLEAN : ResetUsb(closes)
  \/ \E port \in Ports : DataOut(port)

UsbLinkTask == UsbReceive \/ UsbRearm \/ UsbForward

RxTask == RxWait \/ RxReceive \/ RxTimeout \/ RxDeliver

TxTask == TxTake \/ TxWait \/ TxSend \/ TxTimeout

Server(port) == ServerReceive(port) \/ ServerReply(port)

Next ==
  \/ Radio \/ UsbInterrupt \/ UsbLinkTask \/ RxTask \/ TxTask
  \/ \E port \in Ports : StartServer(port)
  \/ \E port \in Servers : Server(port)
  \/ Publish \/ CrtpReset \/ CommInit

Spec == Init /\ [][Next]_crtpVars

\* The bus brings frames to a configured device and polls its transfers
UsbPoll == (~transferLost /\ DataIn) \/ (usbConfigured /\ StartOfFrame)

\* Every task runs, and so does the bus; the client owes nothing
FairSpec ==
  /\ Spec
  /\ WF_crtpVars(UsbLinkTask) /\ WF_crtpVars(RxTask) /\ WF_crtpVars(TxTask)
  /\ \A port \in Servers : WF_crtpVars(Server(port))
  /\ WF_crtpVars(UsbPoll)

-----------------------------------------------------------------------------
(* Properties *)

Ids == Nat \ {0}
Packets == [id : Ids, port : Ports, via : Links]

\* The packets from the client and the tasks that hold them
RequestsTyped ==
  /\ radioRx \in Seq(Packets) /\ Len(radioRx) <= RadioRxSize
  /\ usbRx \in Seq(Packets) /\ Len(usbRx) <= UsbRxSize
  /\ packetsQueue \in Seq(Packets) /\ Len(packetsQueue) <= UsbPacketsSize
  /\ portQueues \in [Servers -> Seq(Packets)]
  /\ \A port \in Servers : Len(portQueues[port]) <= PortQueueSize
  /\ usbTask \in [at : {"receive", "rearm", "forward"}, packet : Packets \union {Nothing}]
  /\ usbTask.at = "receive" <=> usbTask.packet = Nothing
  /\ rxTask \in [link : Links \union {"none"}, packet : Packets \union {Nothing}]
  /\ rxTask.link = "none" \/ rxTask.packet = Nothing
  /\ taken \in Seq(Packets) /\ early \subseteq Packets /\ refused \subseteq Packets
  /\ nextIn \in Ids

\* The packets to the client
RepliesTyped ==
  /\ radioTx \in Seq(Ids) /\ Len(radioTx) <= 1
  /\ usbTx \in Seq(Ids) /\ Len(usbTx) <= 1
  /\ usbTransfer \in Seq(Ids) /\ Len(usbTransfer) <= 1
  /\ txQueue \in Seq(Ids) /\ Len(txQueue) <= TxQueueSize
  /\ txTask \in [link : Links \union {"none"}, packet : Nat]
  /\ txTask.link = "none" \/ txTask.packet # 0
  /\ left \in [Links -> Seq(Ids)]
  /\ nextOut \in Ids

FlagsTyped ==
  /\ linkType \in Links \union {"none"}
  /\ {usbConfigured, usbArmed, rxStopped, transferLost, commDidInit, asserted, armedFull}
       \subseteq BOOLEAN
  /\ ready \in [Ports -> BOOLEAN] /\ replying \subseteq Servers

TypeOK == RequestsTyped /\ RepliesTyped /\ FlagsTyped

\* The client's packets that are on their way to a server
InFlight ==
  UNION ({ToSet(radioRx), ToSet(usbRx), ToSet(packetsQueue),
          {usbTask.packet}, {rxTask.packet}}
         \union {ToSet(portQueues[port]) : port \in Servers})

\* "Block, since we should never drop a packet" (crtp.cpp): what a link has
\* acknowledged is on its way or has been handed over, whatever link is selected and
\* however the tasks interleave, but for two losses.  The CRTP receive task forgets
\* packets only before their server is up: what it forgets of a link and a port
\* was sent before all that the server gets.  And usb.cpp, which arms the OUT end
\* point in two places without looking at the queue, refuses packets only after
\* it has so armed it with a full one.
RequestsKept ==
  /\ accepted = {p.id : p \in (InFlight \ {Nothing}) \union ToSet(taken) \union early \union refused}
  /\ \A lost \in early :
       \A p \in ToSet(taken) \union UNION {ToSet(portQueues[port]) : port \in Servers} :
         lost.port = p.port /\ lost.via = p.via => lost.id < p.id
  /\ refused # {} => armedFull

\* The packets of one link and one port are handed over once and in the order in
\* which they were sent.
RequestsInOrder ==
  \A i, j \in 1 .. Len(taken) :
    i < j /\ taken[i].port = taken[j].port /\ taken[i].via = taken[j].via
      => taken[i].id < taken[j].id

\* What leaves over one link leaves in the order in which it was queued, and no
\* packet leaves twice, not even over two links.
RepliesInOrder ==
  /\ \A link \in Links : \A i, j \in 1 .. Len(left[link]) :
       i < j => left[link][i] < left[link][j]
  /\ ToSet(left["radio"]) \cap ToSet(left["usb"]) = {}

\* The USB link never goes deaf: an end point that does not accept packets is
\* known to be stopped, and something is queued whose reception re-arms it.
UsbNeverDeaf ==
  usbConfigured /\ ~usbArmed =>
    rxStopped /\ (usbRx # <<>> \/ usbTask.at = "rearm")

\* A client that stays on USB sees the stack come to rest: no circle of tasks
\* that wait for each other's queues holds a request or a reply back.  (A packet
\* sent while the bus is reset may be put into a closed end point, where it can
\* block the link until the next reset; transferLost.)
AtRest ==
  /\ usbRx = <<>> /\ packetsQueue = <<>>
  /\ usbTask.at = "receive"
  /\ rxTask.packet = Nothing
  /\ \A port \in Servers : portQueues[port] = <<>>
  /\ replying = {}
  /\ txQueue = <<>> /\ txTask.packet = 0 /\ usbTx = <<>> /\ usbTransfer = <<>>

UsbDrains ==
  <>[](linkType = "usb" /\ usbConfigured /\ ~transferLost /\ ~asserted) => []<>AtRest
=============================================================================
