----------------------------- MODULE Dictionary -----------------------------
(***************************************************************************)
(* The persistent storage: crazyflie/src/dictionary.hpp, a table of items  *)
(* in EEPROM, behind the mutex of storage.cpp, with the clients that the   *)
(* firmware has: the PARAM task and the start-up test.                     *)
(*                                                                         *)
(* The table starts at address 1 and is a chain of items up to an end tag. *)
(* An item is its length (two bytes), the length of its key, the key and   *)
(* the value; a hole is an item without a key.  What an operation writes   *)
(* depends on the memory only, so it is computed when the operation takes  *)
(* the mutex, and then carried out page by page: power can be lost between *)
(* any two pages.                                                          *)
(***************************************************************************)
EXTENDS Integers, Sequences, FiniteSets, SequencesExt

CONSTANTS
  Keys, Values,     \* sequences of bytes
  Prefix,           \* PERSISTENT_PREFIX_STRING, which every key starts with
  MemorySize,       \* PARTITION_LENGTH, within the reach of the two bytes of a length
  PageSize          \* of the EEPROM, and of the buffer that moves items

Strings == Seq(0 .. 255)

ASSUME SizeAssumption ==
  /\ MemorySize \in Nat /\ 4 <= MemorySize /\ MemorySize <= 65535
  /\ PageSize \in Nat \ {0}

\* A key has at most KEY_LEN bytes, and its length one byte in the table
ASSUME StringsAssumption ==
  /\ Keys \union {Prefix} \subseteq Strings /\ Prefix # <<>>
  /\ \A key \in Keys : Len(key) <= 255 /\ IsPrefix(Prefix, key)
  /\ Values \subseteq Strings \ {<<>>}

VARIABLES
  mem,              \* the partition
  writes,           \* the page writes that the holder of the mutex has still to do
  call,             \* ... which call it is in, with the result it will have
  settled,          \* ... and the memory that it leaves behind
  loaded,           \* the PARAM task has read the stored parameters
  tested,           \* the start-up test: "todo", "reformat" or "done"
  hung              \* a scan runs forever, with the mutex held

vars == <<mem, writes, call, settled, loaded, tested, hung>>

-----------------------------------------------------------------------------
(* Reading the table *)

EndTag == 65535
FirstItem == 1
HeaderSize == 3
EndTagLength == 2

Invalid == -1   \* STORAGE_INVALID_ADDRESS
Endless == -2   \* the scan never returns

IsValid(address) == address >= 0

Bytes(m, address, length) == [i \in 1 .. length |-> m[address + i - 1]]

FullLength(m, address) == m[address] + 256 * m[address + 1]
KeyLength(m, address) == m[address + 2]
IsEnd(m, address) == FullLength(m, address) = EndTag

\* Every scan hops from item to item until it stops or leaves the memory.  An
\* item of length zero would hold it in place.
Scan(m, from, limit, stops) ==
  LET at[address \in Nat] ==
        IF address >= limit THEN Invalid
        ELSE IF address \in stops THEN address
        ELSE IF FullLength(m, address) = 0 THEN Endless
        ELSE at[address + FullLength(m, address)]
  IN  at[from]

\* ... and what it stopped at is not what it looks for
Unless(result, failed) == IF IsValid(result) /\ failed THEN Invalid ELSE result

FindEnd(m, from) ==
  LET end == Scan(m, from, MemorySize - 2,
                  {a \in Nat : FullLength(m, a) < HeaderSize + 1 \/ IsEnd(m, a)})
  IN  Unless(end, ~IsEnd(m, end))

\* The byte after the end tag may make it look like a hole
FindHole(m, from) == Scan(m, from, MemorySize - 2, {a \in Nat : KeyLength(m, a) = 0})

FindNextItem(m, from) ==
  LET item == Scan(m, from + FullLength(m, from), MemorySize - 3,
                   {a \in Nat : KeyLength(m, a) # 0 \/ IsEnd(m, a)})
  IN  IF IsEnd(m, from) THEN Invalid ELSE Unless(item, IsEnd(m, item))

\* The key of the item at an address, of which Len(key) bytes are compared
HasKey(m, address, key) ==
  /\ address + HeaderSize + Len(key) <= MemorySize
  /\ Bytes(m, address + HeaderSize, Len(key)) = key

FindItemByKey(m, key) ==
  LET item == Scan(m, FirstItem, MemorySize - 3,
                   {a \in Nat : IsEnd(m, a) \/ (KeyLength(m, a) = Len(key) /\ HasKey(m, a, key))})
  IN  Unless(item, IsEnd(m, item))

\* Fault: a key that is the prefix itself is passed over
FindLongerKeys(m, from) ==
  LET item == Scan(m, from, MemorySize - 3,
                   {a \in Nat : \/ IsEnd(m, a)
                                \/ KeyLength(m, a) > Len(Prefix) /\ HasKey(m, a, Prefix)})
  IN  Unless(item, IsEnd(m, item))

FindItemByPrefix(m, from) ==
  LET item == Scan(m, from, MemorySize - 3,
                   {a \in Nat : \/ IsEnd(m, a)
                                \/ KeyLength(m, a) >= Len(Prefix) /\ HasKey(m, a, Prefix)})
  IN  Unless(item, IsEnd(m, item))

GetBuffer(m, address) ==
  Bytes(m, address + HeaderSize + KeyLength(m, address),
        FullLength(m, address) - HeaderSize - KeyLength(m, address))

Fetch(m, key) ==
  LET item == FindItemByKey(m, key)
  IN  IF IsValid(item) THEN GetBuffer(m, item) ELSE <<>>

\* The items that foreach() visits, in order; it may not return
Foreach(m) ==
  LET visits[from \in Nat] ==
        LET item == FindItemByPrefix(m, from)
        IN  IF item = Endless THEN <<Endless>>
            ELSE IF item = Invalid THEN <<>>
            ELSE IF FullLength(m, item) = 0 THEN <<item, Endless>>
            ELSE <<item>> \o visits[item + FullLength(m, item)]
  IN  visits[FirstItem]

Version == 1
Check(m) == m[0] = Version /\ IsValid(FindEnd(m, FirstItem))

-----------------------------------------------------------------------------
(* Writing: a run is the memory after the writes so far, and the writes.  What *)
(* the code would do to a table so broken that it computes with an invalid     *)
(* address counts as endless too.                                              *)

Start(m) == [mem |-> m, writes |-> <<>>, ok |-> TRUE, endless |-> FALSE]
Fails(run) == [run EXCEPT !.ok = FALSE]
Loops(run) == [run EXCEPT !.endless = TRUE]

Apply(m, w) ==
  [address \in DOMAIN m |->
     IF address \in w.at .. w.at + Len(w.bytes) - 1 THEN w.bytes[address - w.at + 1]
     ELSE m[address]]

\* eepromWriteBuffer() writes page by page
Pages(at, bytes) ==
  LET first == at \div PageSize
      last  == (at + Len(bytes) - 1) \div PageSize
      pages == last - first + 1
      Cut(i) == IF i = 0 THEN at
                ELSE IF i = pages THEN at + Len(bytes) ELSE (first + i) * PageSize
  IN  [i \in 1 .. pages |->
         [at |-> Cut(i - 1), bytes |-> SubSeq(bytes, Cut(i - 1) - at + 1, Cut(i) - at)]]

Write(run, at, bytes) ==
  IF at + Len(bytes) > MemorySize THEN run
  ELSE [run EXCEPT !.mem = Apply(@, [at |-> at, bytes |-> bytes]),
                   !.writes = @ \o Pages(at, bytes)]

Header(full, keyLength) == <<full % 256, full \div 256, keyLength>>

WriteEnd(run, at) == Write(run, at, <<EndTag % 256, EndTag \div 256>>)
WriteHole(run, at, full) == Write(run, at, Header(full, 0))

ItemLength(key, value) == HeaderSize + Len(key) + Len(value)

WriteItem(run, at, key, value) ==
  LET header == Write(run, at, Header(ItemLength(key, value), Len(key)))
      named  == Write(header, at + HeaderSize, key)
  IN  Write(named, at + HeaderSize + Len(key), value)

\* moveMemory() copies towards lower addresses, a buffer at a time
MoveMemory(run, source, destination, length) ==
  LET chunks == (length + PageSize - 1) \div PageSize
      Cut(i) == IF i = chunks THEN length ELSE i * PageSize
      copied[i \in 0 .. chunks] ==
        IF i = 0 THEN run
        ELSE LET r == copied[i - 1]
             IN  Write(r, destination + Cut(i - 1),
                       Bytes(r.mem, source + Cut(i - 1), Cut(i) - Cut(i - 1)))
  IN  copied[chunks]

\* Fill the hole with the items behind it, and go on with the hole they leave
FillHole(round) ==
  LET m == round.run.mem
      hole == round.hole
      item == FindNextItem(m, hole)
      next == FindHole(m, item)
      stop == IF next = Invalid THEN FindEnd(m, item) ELSE next
      left == hole + stop - item
      moved == MoveMemory(round.run, item, hole, stop - item)
      Ended(run) == [run |-> run, hole |-> Invalid]
  IN  IF hole = Endless \/ item = Endless THEN Ended(Loops(round.run))
      ELSE IF item = Invalid THEN Ended(WriteEnd(round.run, hole))
      ELSE IF ~IsValid(stop) THEN Ended(Loops(round.run))
      ELSE [run |-> WriteHole(moved, left, item - hole), hole |-> left]

\* Every round leaves its hole at a higher address, so MemorySize rounds are enough
Defrag(run) ==
  LET rounds[n \in 0 .. MemorySize] ==
        IF n = 0 THEN [run |-> run, hole |-> FindHole(run.mem, FirstItem)]
        ELSE LET round == rounds[n - 1]
             IN  IF round.hole = Invalid THEN round ELSE FillHole(round)
  IN  rounds[MemorySize].run

\* The item must leave one byte free behind the end tag
Fits(end, key, value) == end + ItemLength(key, value) + EndTagLength < MemorySize

AppendAt(run, end, key, value) ==
  WriteEnd(WriteItem(run, end, key, value), end + ItemLength(key, value))

\* Fault: the holes are not used
AppendWithoutDefrag(run, key, value) ==
  LET end == FindEnd(run.mem, FirstItem)
  IN  IF IsValid(end) /\ Fits(end, key, value) THEN AppendAt(run, end, key, value)
      ELSE Fails(run)

AppendItemToEnd(run, key, value) ==
  LET end == FindEnd(run.mem, FirstItem)
      packed == Defrag(run)
      packedEnd == FindEnd(packed.mem, FirstItem)
  IN  IF ~IsValid(end) THEN Fails(run)
      ELSE IF Fits(end, key, value) THEN AppendAt(run, end, key, value)
      ELSE IF packed.endless \/ ~IsValid(packedEnd) THEN Loops(packed)
      ELSE IF Fits(packedEnd, key, value) THEN AppendAt(packed, packedEnd, key, value)
      ELSE Fails(packed)

\* Fault: a shorter item is written over a longer one
FitsLoosely(m, item, key, value) ==
  IsValid(item) /\ FullLength(m, item) >= ItemLength(key, value)

FitsInPlace(m, item, key, value) ==
  IsValid(item) /\ FullLength(m, item) = ItemLength(key, value)

\* Fault: the item that does not fit stays in the table
StoreLeavesOld(m, key, value) ==
  LET item == FindItemByKey(m, key)
  IN  IF FitsInPlace(m, item, key, value) THEN WriteItem(Start(m), item, key, value)
      ELSE AppendItemToEnd(Start(m), key, value)

StoreItem(m, key, value) ==
  LET item == FindItemByKey(m, key)
  IN  IF item = Endless THEN Loops(Start(m))
      ELSE IF item = Invalid THEN AppendItemToEnd(Start(m), key, value)
      ELSE IF FitsInPlace(m, item, key, value)
           THEN WriteItem(Start(m), item, key, value)
      ELSE AppendItemToEnd(WriteHole(Start(m), item, FullLength(m, item)), key, value)

RemoveItem(m, key) ==
  LET item == FindItemByKey(m, key)
  IN  IF item = Endless THEN Loops(Start(m))
      ELSE IF item = Invalid THEN Fails(Start(m))
      ELSE WriteHole(Start(m), item, FullLength(m, item))

Format(m) == WriteEnd(Write(Start(m), 0, <<Version>>), FirstItem)

-----------------------------------------------------------------------------
(* The calls.  The mutex is free when none is being served *)

NoCall == [op |-> "none"]
MutexFree == call = NoCall /\ ~hung

Perform(run, what) ==
  /\ MutexFree
  /\ hung' = run.endless
  /\ call' = IF hung' THEN NoCall ELSE what
  /\ writes' = IF hung' THEN <<>> ELSE run.writes
  /\ settled' = IF hung' THEN mem ELSE run.mem

\* The holder of the mutex writes its next page
WritePage ==
  /\ writes # <<>>
  /\ mem' = Apply(mem, Head(writes))
  /\ writes' = Tail(writes)
  /\ UNCHANGED <<call, settled, loaded, tested, hung>>

GiveMutex ==
  /\ writes = <<>> /\ call # NoCall
  /\ call' = NoCall
  /\ UNCHANGED <<mem, writes, settled, loaded, tested, hung>>

\* paramLogicStorageInit(), before the PARAM task serves anyone
LoadParams ==
  /\ MutexFree /\ ~loaded
  /\ hung' = (Endless \in ToSet(Foreach(mem)))
  /\ loaded' = ~hung'
  /\ UNCHANGED <<mem, writes, call, settled, tested>>

\* storageTest(): the check, which gives the mutex back ...
StorageTest ==
  /\ MutexFree /\ tested = "todo"
  /\ tested' = IF Check(mem) THEN "done" ELSE "reformat"
  /\ UNCHANGED <<mem, writes, call, settled, loaded, hung>>

\* ... and storageReformat() when it failed
TestReformat ==
  /\ tested = "reformat"
  /\ tested' = "done"
  /\ Perform(Format(mem), [op |-> "format"])
  /\ UNCHANGED <<mem, loaded>>

\* The commands of the PARAM task: paramPersistentStore(), paramPersistentClear(),
\* doReformat()
StorageStore(key, value) ==
  LET run == StoreItem(mem, key, value)
  IN
  /\ loaded
  /\ Perform(run, [op |-> "store", key |-> key, value |-> value, ok |-> run.ok])
  /\ UNCHANGED <<mem, loaded, tested>>

StorageDelete(key) ==
  LET run == RemoveItem(mem, key)
  IN
  /\ loaded
  /\ Perform(run, [op |-> "delete", key |-> key, ok |-> run.ok])
  /\ UNCHANGED <<mem, loaded, tested>>

StorageReformat ==
  /\ loaded
  /\ Perform(Format(mem), [op |-> "format"])
  /\ UNCHANGED <<mem, loaded, tested>>

PowerLoss ==
  /\ writes' = <<>> /\ call' = NoCall /\ settled' = mem /\ hung' = FALSE
  /\ loaded' = FALSE /\ tested' = "todo"
  /\ UNCHANGED mem

-----------------------------------------------------------------------------
(* The specification *)

\* An erased EEPROM
Init ==
  /\ mem = [address \in 0 .. MemorySize - 1 |-> 255]
  /\ writes = <<>> /\ call = NoCall /\ settled = mem
  /\ loaded = FALSE /\ tested = "todo" /\ hung = FALSE

ParamTask ==
  \/ LoadParams
  \/ \E key \in Keys, value \in Values : StorageStore(key, value)
  \/ \E key \in Keys : StorageDelete(key)
  \/ StorageReformat

SystemTask == StorageTest \/ TestReformat

Next == WritePage \/ GiveMutex \/ ParamTask \/ SystemTask

Spec == Init /\ [][Next]_vars

\* ... and with power losses, of which Spec has none
PowerLossSpec == Init /\ [][Next \/ PowerLoss]_vars

-----------------------------------------------------------------------------
(* Properties *)

Contents(m) == [key \in Keys |-> Fetch(m, key)]

\* While the power stays on the table is a map from keys to values: an operation
\* takes effect at once, as the mutex makes others see it, and neither the
\* holes nor the moves of the defragmentation lose, revive or mix up an item.
Map == INSTANCE KeyValueStore WITH contents <- Contents(settled)
StorageIsMap == Map!Spec

\* The number of bytes that the items of some keys take
Live(m, kept) ==
  LET stored == {key \in kept : Fetch(m, key) # <<>>}
  IN  Cardinality(UNION {{key} \X (1 .. ItemLength(key, Fetch(m, key))) : key \in stored})

\* A store fails only when the items that would be kept leave no room: the
\* defragmentation finds all there is.

StoreFailsOnlyWhenFull ==
  MutexFree /\ tested = "done" =>
    \A key \in Keys, value \in Values :
      ~StoreItem(mem, key, value).ok =>
         ~Fits(FirstItem + Live(mem, Keys \ {key}), key, value)

\* foreach() visits each stored key once, with its value.
ForeachVisitsAll ==
  MutexFree /\ loaded =>
    LET items == Foreach(mem)
    IN  /\ {key \in Keys : Fetch(mem, key) # <<>>} =
             {Bytes(mem, items[i] + HeaderSize, KeyLength(mem, items[i])) :
                i \in 1 .. Len(items)}
        /\ \A i \in 1 .. Len(items) :
             GetBuffer(mem, items[i]) =
               Fetch(mem, Bytes(mem, items[i] + HeaderSize, KeyLength(mem, items[i])))
        /\ Len(items) = Cardinality({key \in Keys : Fetch(mem, key) # <<>>})

\* Power may be lost at any moment of a delete, or of a store whose writes stay
\* within the item of its key: the table stays whole and all other keys keep
\* their values.
InPlace ==
  \/ call.op = "delete"
  \/ /\ call.op = "store"
     /\ LET item == FindItemByKey(settled, call.key)
        IN  /\ IsValid(item)
            /\ \A i \in 1 .. Len(writes) :
                 /\ writes[i].at >= item
                 /\ writes[i].at + Len(writes[i].bytes) <= item + FullLength(settled, item)

InPlaceIsSafe ==
  InPlace =>
    /\ Check(mem) = Check(settled)
    /\ \A key \in Keys \ {call.key} : Contents(mem)[key] = Contents(settled)[key]

\* "Check the key/buffer table health. If the table is not healthy, format it"
\* (storage.h): the firmware starts whatever a power loss has left.
BootEnds == ~hung
=============================================================================
