---------------------------- MODULE KeyValueStore ----------------------------
(***************************************************************************)
(* What crazyflie/src/storage.h promises while the power stays on: a map   *)
(* from keys to values, whose calls take effect one at a time.  A store    *)
(* may fail for want of room, and then it may have lost the former value.  *)
(***************************************************************************)
CONSTANTS Keys, Values

VARIABLES
  contents,
  call        \* the call that is being served, with its result

vars == <<contents, call>>

NotStored == <<>>   \* no value is empty
NoCall == [op |-> "none"]

Store(key, value) ==
  /\ call' = [op |-> "store", key |-> key, value |-> value, ok |-> TRUE]
  /\ contents' = [contents EXCEPT ![key] = value]

StoreFails(key, value) ==
  /\ call' = [op |-> "store", key |-> key, value |-> value, ok |-> FALSE]
  /\ contents' \in {contents, [contents EXCEPT ![key] = NotStored]}

\* Deleting what is not stored is reported as a failure
Delete(key) ==
  /\ call' = [op |-> "delete", key |-> key, ok |-> contents[key] # NotStored]
  /\ contents' = [contents EXCEPT ![key] = NotStored]

Format ==
  /\ call' = [op |-> "format"]
  /\ contents' = [key \in Keys |-> NotStored]

Return ==
  /\ call # NoCall
  /\ call' = NoCall
  /\ UNCHANGED contents

Init ==
  /\ contents = [key \in Keys |-> NotStored]
  /\ call = NoCall

Next ==
  \/ Return
  \/ /\ call = NoCall
     /\ \/ \E key \in Keys, value \in Values : Store(key, value) \/ StoreFails(key, value)
        \/ \E key \in Keys : Delete(key)
        \/ Format

Spec == Init /\ [][Next]_vars
=============================================================================
