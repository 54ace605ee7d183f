----------------------------- MODULE SerialLine -----------------------------
(***************************************************************************)
(* What a sender of the syslink promises of the line to the nRF51: packets *)
(* go out one at a time, each byte once and in order, and a send is over   *)
(* when the last byte has gone.                                            *)
(***************************************************************************)
EXTENDS Naturals

CONSTANT SizeOf     \* the size of every packet

VARIABLES
  packet,           \* the packet that is being sent, 0 when there is none
  line              \* the last byte that has gone: its packet and its place there

lineVars == <<packet, line>>

Gone == IF line[1] = packet THEN line[2] ELSE 0

LineInit == packet = 0 /\ line = <<0, 0>>

Begin ==
  /\ packet = 0 /\ line[1] + 1 \in DOMAIN SizeOf
  /\ packet' = line[1] + 1
  /\ UNCHANGED line

PutOut ==
  /\ packet # 0 /\ Gone < SizeOf[packet]
  /\ line' = <<packet, Gone + 1>>
  /\ UNCHANGED packet

Finish ==
  /\ packet # 0 /\ Gone = SizeOf[packet]
  /\ packet' = 0
  /\ UNCHANGED line

LineNext == Begin \/ PutOut \/ Finish
LineSpec == LineInit /\ [][LineNext]_lineVars
=============================================================================
