-------------------------- MODULE DictionaryProofs --------------------------
(***************************************************************************)
(* Proofs about the persistent storage, for every size of the memory and   *)
(* of its pages: the operations keep the table a table, and so the storage *)
(* is the map that KeyValueStore describes.                                *)
(***************************************************************************)
EXTENDS DictionaryTable

-----------------------------------------------------------------------------
(* The defragmentation *)

\* Before round n of the defragmentation there is no hole below the one it fills,
\* which is further up than n.
HoleIs(m, A, e, hole, n) ==
  \/ hole = Invalid /\ \A a \in A : KeyLength(m, a) # 0
  \/ /\ hole \in A \union {e} /\ KeyLength(m, hole) = 0 /\ n < hole
     /\ \A a \in A : a < hole => KeyLength(m, a) # 0

\* ... and nothing has been lost.
Packing(m0, run, A, round, A2, e2, n) ==
  /\ GoesOn(m0, run, round.run) /\ Table(round.run.mem, A2, e2)
  /\ SameHolds(run.mem, A, round.run.mem, A2)
  /\ HoleIs(round.run.mem, A2, e2, round.hole, n)

\* What holds the same as what holds the same holds the same.
LEMMA SameHoldsOn ==
  ASSUME NEW m1, NEW A1, NEW m2, NEW A2, NEW m3, NEW A3,
         SameHolds(m1, A1, m2, A2), SameHolds(m2, A2, m3, A3)
  PROVE  SameHolds(m1, A1, m3, A3)
BY DEF SameHolds

\* A run that goes on from what goes on goes on.
LEMMA GoesOnOn ==
  ASSUME NEW m0, NEW r1, NEW r2, NEW r3, GoesOn(m0, r1, r2), GoesOn(m0, r2, r3)
  PROVE  GoesOn(m0, r1, r3)
BY DEF GoesOn

\* The round that finds no item behind its hole
LEMMA LastRound ==
  ASSUME NEW m0, NEW run, NEW A, NEW round, NEW A1, NEW e1, NEW n \in Nat,
         Packing(m0, run, A, round, A1, e1, n), round.hole # Invalid,
         FindNextItem(round.run.mem, round.hole) = Invalid,
         NEW r, r = FillHole(round)
  PROVE  \E A2, e2 : Packing(m0, run, A, r, A2, e2, n + 1)
<1> DEFINE m == round.run.mem
           h == round.hole
           w == WriteEnd(round.run, h)
           A2 == {a \in A1 : a < h}
<1>1. /\ GoesOn(m0, run, round.run) /\ Table(m, A1, e1) /\ SameHolds(run.mem, A, m, A1)
      /\ h \in A1 \union {e1} /\ KeyLength(m, h) = 0
      /\ \A a \in A1 : a < h => KeyLength(m, a) # 0
  BY DEF Packing, HoleIs
<1>2. h \in Nat
  BY <1>1, Items
<1>3. r = [run |-> w, hole |-> Invalid]
  <2>1. h # Endless /\ FindNextItem(m, h) = Invalid /\ Invalid # Endless
    BY <1>2 DEF Endless, Invalid
  <2>2. QED
    BY <2>1 DEF FillHole
<1>4. \A a \in A1 : h < a => KeyLength(m, a) = 0
  <2>1. PICK item : item = FindNextItem(m, h)
    OBVIOUS
  <2>2. item = Invalid /\ Invalid \notin Nat
    BY <2>1 DEF Invalid
  <2>3. \A a \in A1 : a \in Nat
    BY <1>1, Items
  <2> HIDE DEF m, h
  <2>4. QED
    BY <1>1, <2>1, <2>2, <2>3, FindNextItemOf, Zenon
<1>5. RunOf(m0, round.run)
  BY <1>1 DEF GoesOn
<1> HIDE DEF h
<1>6. /\ GoesOn(m0, round.run, w) /\ Table(w.mem, A2, h) /\ SameHolds(m, A1, w.mem, A2)
      /\ \A a \in A2 : SameAs(m, a, w.mem, a)
  BY <1>1, <1>4, <1>5, LastHole
<1>7. \A a \in A2 : KeyLength(w.mem, a) # 0
  BY <1>1, <1>6 DEF SameAs
<1> HIDE DEF A2, w, m
<1>8. HoleIs(w.mem, A2, h, Invalid, n + 1)
  BY <1>7 DEF HoleIs
<1>9. GoesOn(m0, run, w) /\ SameHolds(run.mem, A, w.mem, A2)
  BY <1>1, <1>6, GoesOnOn, SameHoldsOn
<1>10. r.run = w /\ r.hole = Invalid
  BY <1>3
<1>11. Packing(m0, run, A, r, A2, h, n + 1)
  BY <1>6, <1>8, <1>9, <1>10 DEF Packing
<1>12. QED
  BY <1>11

\* What the round that finds an item moves
LEMMA GapFound ==
  ASSUME NEW m, NEW A, NEW e, Table(m, A, e), NEW h \in A \union {e}, KeyLength(m, h) = 0,
         NEW item, item = FindNextItem(m, h), item # Invalid,
         NEW next, next = FindHole(m, item),
         NEW stop, stop = IF next = Invalid THEN FindEnd(m, item) ELSE next
  PROVE  /\ Gap(m, A, e, h, item, stop)
         /\ \A a \in A : item <= a /\ a < stop => KeyLength(m, a) # 0
<1>1. /\ item \in A /\ h < item /\ KeyLength(m, item) # 0
      /\ \A a \in A : h < a /\ a < item => KeyLength(m, a) = 0
  BY FindNextItemOf
<1>2. /\ e \in Nat /\ \A a \in A \union {e} : a \in Nat
      /\ \A a \in A : a < e
  BY Items
<1>3. h \in A
  BY <1>1, <1>2
<1>4. \A a \in A : h <= a /\ a < item => KeyLength(m, a) = 0
  BY <1>1, <1>2, <1>3
<1>5. CASE next = Invalid
  <2>1. stop = e
    BY <1>1, <1>5, FindEndOf
  <2>2. \A a \in A : item <= a => KeyLength(m, a) # 0
    <3>1. Invalid \notin A \union {e}
      BY <1>2 DEF Invalid
    <3>2. item \in A \union {e}
      BY <1>1
    <3>3. \/ \A a \in A : item <= a => KeyLength(m, a) # 0
          \/ next \in A \union {e}
      BY <3>2, FindHoleOf
    <3>4. QED
      BY <1>5, <3>1, <3>3
  <2>3. QED
    BY <1>1, <1>2, <1>3, <1>4, <2>1, <2>2 DEF Gap
<1>6. CASE next # Invalid
  <2>1. stop = next
    BY <1>6
  <2>2. /\ next \in A \union {e} /\ item <= next /\ KeyLength(m, next) = 0
        /\ \A a \in A : item <= a /\ a < next => KeyLength(m, a) # 0
    BY <1>1, <1>6, FindHoleOf
  <2>3. item < next
    BY <1>1, <1>2, <2>2
  <2>4. QED
    BY <1>1, <1>3, <1>4, <2>1, <2>2, <2>3 DEF Gap
<1>7. QED
  BY <1>5, <1>6

\* The round that moves the items behind its hole
LEMMA MoveRound ==
  ASSUME NEW m0, NEW run, NEW A, NEW round, NEW A1, NEW e1, NEW n \in Nat,
         Packing(m0, run, A, round, A1, e1, n), round.hole # Invalid,
         FindNextItem(round.run.mem, round.hole) # Invalid,
         NEW r, r = FillHole(round)
  PROVE  \E A2, e2 : Packing(m0, run, A, r, A2, e2, n + 1)
<1>1. PICK m, h, item, next, stop :
        /\ m = round.run.mem /\ h = round.hole /\ item = FindNextItem(m, h)
        /\ next = FindHole(m, item)
        /\ stop = IF next = Invalid THEN FindEnd(m, item) ELSE next
  OBVIOUS
<1>2. /\ GoesOn(m0, run, round.run) /\ Table(m, A1, e1) /\ SameHolds(run.mem, A, m, A1)
      /\ h \in A1 \union {e1} /\ KeyLength(m, h) = 0 /\ n < h
      /\ \A a \in A1 : a < h => KeyLength(m, a) # 0
  BY <1>1 DEF Packing, HoleIs
<1>3. /\ Gap(m, A1, e1, h, item, stop)
      /\ \A a \in A1 : item <= a /\ a < stop => KeyLength(m, a) # 0
  <2>1. item # Invalid
    BY <1>1
  <2>2. QED
    BY <1>1, <1>2, <2>1, GapFound
<1>4. /\ MemorySize \in Nat /\ MemorySize <= 65535 /\ m \in Memories
      /\ h \in Nat /\ item \in Nat /\ stop \in Nat /\ e1 \in Nat
      /\ 1 <= h /\ h + 4 <= item /\ item + 4 <= stop /\ stop <= e1 /\ e1 + 3 <= MemorySize
  BY <1>3, GapFacts, SizeAssumption
<1>5. PICK moved : moved = MoveMemory(round.run, item, h, stop - item)
  OBVIOUS
<1>6. PICK w : w = WriteHole(moved, h + stop - item, item - h)
  OBVIOUS
<1>7. r = [run |-> w, hole |-> h + stop - item]
  <2>1. h # Endless /\ item # Endless /\ item # Invalid /\ IsValid(stop)
    BY <1>4 DEF Endless, Invalid, IsValid
  <2>2. QED
    BY <1>1, <1>5, <1>6, <2>1 DEF FillHole
<1>8. GoesOn(m0, round.run, moved) /\ Moved(m, item, h, stop - item, moved.mem)
  <2>1. stop - item \in Nat /\ stop - item # 0 /\ h < item /\ item + (stop - item) <= MemorySize
    BY <1>4
  <2>2. RunOf(m0, round.run)
    BY <1>2 DEF GoesOn
  <2>3. QED
    BY <1>1, <1>4, <1>5, <2>1, <2>2, MoveMemoryOf
<1>9. /\ GoesOn(m0, moved, w) /\ FullLength(w.mem, h + stop - item) = item - h
      /\ KeyLength(w.mem, h + stop - item) = 0
      /\ Outside(moved.mem, h + stop - item, h + stop - item + 3, w.mem)
  <2>1. /\ h + stop - item \in Nat /\ item - h \in Nat /\ item - h <= 65535
        /\ h + stop - item + 3 <= MemorySize
    BY <1>4
  <2>2. RunOf(m0, moved)
    BY <1>8 DEF GoesOn
  <2>3. QED
    BY <1>6, <2>1, <2>2, WriteHoleOf
<1>10. Filled(m, A1, e1, h, item, stop, w.mem)
  BY <1>3, <1>8, <1>9, FillsHole
<1>11. PICK A2 : A2 = Packed(A1, h, item, stop)
  OBVIOUS
<1>12. Table(w.mem, A2, e1) /\ SameHolds(m, A1, w.mem, A2)
  BY <1>3, <1>10, <1>11, PackedTable, PackedHolds
<1>13. /\ h + stop - item \in A2 /\ h < h + stop - item /\ h + stop - item \in Nat
       /\ \A b \in A2 : b < h + stop - item => KeyLength(w.mem, b) # 0
  <2>1. \A a \in A1 : a < h \/ (item <= a /\ a < stop) => KeyLength(m, a) # 0
    BY <1>2, <1>3
  <2>2. QED
    BY <1>3, <1>10, <1>11, <2>1, PackedHoles
<1>14. HoleIs(w.mem, A2, e1, h + stop - item, n + 1)
  <2>1. n + 1 < h + stop - item
    BY <1>2, <1>4, <1>13
  <2>2. QED
    BY <1>9, <1>13, <2>1 DEF HoleIs
<1>15. GoesOn(m0, run, w) /\ SameHolds(run.mem, A, w.mem, A2)
  <2>1. GoesOn(m0, run, moved)
    BY <1>2, <1>8, GoesOnOn
  <2>2. QED
    BY <1>2, <1>9, <1>12, <2>1, GoesOnOn, SameHoldsOn
<1>16. r.run = w /\ r.hole = h + stop - item
  BY <1>7
<1>17. Packing(m0, run, A, r, A2, e1, n + 1)
  BY <1>12, <1>14, <1>15, <1>16 DEF Packing
<1>18. QED
  BY <1>17

\* The rounds of defrag()
Round(run, f, n) ==
  IF n = 0 THEN [run |-> run, hole |-> FindHole(run.mem, FirstItem)]
  ELSE IF f[n - 1].hole = Invalid THEN f[n - 1] ELSE FillHole(f[n - 1])

IsRounds(run, f) == f = [n \in 0 .. MemorySize |-> Round(run, f, n)]

\* The rounds of the defragmentation exist.
LEMMA RoundsExist ==
  ASSUME NEW run
  PROVE  \E f : IsRounds(run, f)
<1> DEFINE D(n) == 0 .. n
           Is(n, f) == f = [i \in D(n) |-> Round(run, f, i)]
           T == {n \in Nat : \E f : Is(n, f)}
<1>1. MemorySize \in Nat
  BY SizeAssumption
<1>2. 0 \in T
  <2>1. PICK f : f = [i \in D(0) |-> [run |-> run, hole |-> FindHole(run.mem, FirstItem)]]
    OBVIOUS
  <2>2. \A i \in D(0) : i = 0
    OBVIOUS
  <2>3. \A i \in D(0) : Round(run, f, i) = [run |-> run, hole |-> FindHole(run.mem, FirstItem)]
    BY <2>2 DEF Round
  <2> HIDE DEF D
  <2>4. Is(0, f)
    BY <2>1, <2>3
  <2>5. QED
    BY <2>4
<1>3. ASSUME NEW n \in Nat, n \in T PROVE n + 1 \in T
  <2>1. PICK f : Is(n, f)
    BY <1>3
  <2>2. PICK g : g = [i \in D(n + 1) |-> IF i \in D(n) THEN f[i] ELSE Round(run, f, n + 1)]
    OBVIOUS
  <2>3. /\ \A i \in D(n) : i \in D(n + 1)
        /\ \A i \in D(n + 1) : i # 0 => i - 1 \in D(n)
        /\ \A i \in D(n + 1) : i \notin D(n) => i = n + 1
        /\ n + 1 # 0
    OBVIOUS
  <2> HIDE DEF D
  <2>4. \A i \in D(n) : g[i] = f[i]
    BY <2>2, <2>3
  <2>5. ASSUME NEW i \in D(n + 1) PROVE Round(run, f, i) = Round(run, g, i)
    <3>1. i # 0 => g[i - 1] = f[i - 1]
      BY <2>3, <2>4
    <3>2. QED
      BY <3>1 DEF Round
  <2>6. ASSUME NEW i \in D(n + 1) PROVE g[i] = Round(run, g, i)
    <3>1. CASE i \in D(n)
      <4>1. f[i] = Round(run, f, i)
        BY <2>1, <3>1
      <4>2. QED
        BY <2>4, <2>5, <3>1, <4>1
    <3>2. CASE i \notin D(n)
      <4>1. i = n + 1 /\ g[i] = Round(run, f, n + 1)
        BY <2>2, <2>3, <3>2
      <4>2. QED
        BY <2>5, <4>1
    <3>3. QED
      BY <3>1, <3>2
  <2>7. Is(n + 1, g)
    <3>1. g = [i \in D(n + 1) |-> g[i]]
      BY <2>2
    <3>2. QED
      BY <2>6, <3>1
  <2>8. QED
    BY <2>7
<1> HIDE DEF T
<1>4. Nat \subseteq T
  BY <1>2, <1>3, Counting
<1>5. PICK f : Is(MemorySize, f)
  BY <1>1, <1>4 DEF T
<1>6. QED
  BY <1>5 DEF IsRounds

\* defrag() is the last of them.
LEMMA DefragRounds ==
  ASSUME NEW run
  PROVE  \E f : IsRounds(run, f) /\ Defrag(run) = f[MemorySize].run
<1>1. PICK f : f = CHOOSE g : IsRounds(run, g)
  OBVIOUS
<1>2. IsRounds(run, f)
  BY <1>1, RoundsExist
<1>3. Defrag(run) = f[MemorySize].run
  BY <1>1, Zenon DEF Defrag, IsRounds, Round
<1>4. QED
  BY <1>2, <1>3

\* defrag() keeps all items, leaves no hole, and comes to an end.
LEMMA DefragOf ==
  ASSUME NEW m0, NEW run, RunOf(m0, run), NEW A, NEW e, Table(run.mem, A, e)
  PROVE  /\ GoesOn(m0, run, Defrag(run))
         /\ \E A2, e2 : /\ Table(Defrag(run).mem, A2, e2)
                        /\ SameHolds(run.mem, A, Defrag(run).mem, A2)
                        /\ \A a \in A2 : KeyLength(Defrag(run).mem, a) # 0
<1>1. PICK f : IsRounds(run, f) /\ Defrag(run) = f[MemorySize].run
  BY DefragRounds
<1>2. MemorySize \in Nat /\ \A n \in Nat : n <= MemorySize => n \in 0 .. MemorySize
  BY SizeAssumption
<1> DEFINE D == 0 .. MemorySize
           Good(n) == n <= MemorySize => \E A2, e2 : Packing(m0, run, A, f[n], A2, e2, n)
           T == {n \in Nat : Good(n)}
<1>3. \A n \in Nat : n <= MemorySize => f[n] = Round(run, f, n)
  <2>1. f = [n \in D |-> Round(run, f, n)]
    BY <1>1 DEF IsRounds
  <2>2. \A n \in D : f[n] = Round(run, f, n)
    BY <2>1
  <2>3. QED
    BY <1>2, <2>2
<1> HIDE DEF D
<1>4. 0 \in T
  <2>1. PICK m, h : m = run.mem /\ h = FindHole(m, 1)
    OBVIOUS
  <2>2. f[0] = [run |-> run, hole |-> h]
    <3>1. f[0] = Round(run, f, 0)
      BY <1>2, <1>3
    <3>2. QED
      BY <2>1, <3>1 DEF Round, FirstItem
  <2>3. Table(m, A, e) /\ 1 \in A \union {e}
    BY <2>1, Chained
  <2>4. \A a \in A \union {e} : a \in Nat /\ 1 <= a
    BY <2>3, Items
  <2>5. HoleIs(m, A, e, h, 0)
    <3>1. \/ h = Invalid /\ \A a \in A : 1 <= a => KeyLength(m, a) # 0
          \/ /\ h \in A \union {e} /\ 1 <= h /\ KeyLength(m, h) = 0
             /\ \A a \in A : 1 <= a /\ a < h => KeyLength(m, a) # 0
      BY <2>1, <2>3, FindHoleOf
    <3>2. CASE h = Invalid /\ \A a \in A : 1 <= a => KeyLength(m, a) # 0
      BY <2>4, <3>2 DEF HoleIs
    <3>3. CASE /\ h \in A \union {e} /\ 1 <= h /\ KeyLength(m, h) = 0
               /\ \A a \in A : 1 <= a /\ a < h => KeyLength(m, a) # 0
      <4>1. 0 < h
        BY <2>4, <3>3
      <4>2. QED
        BY <2>4, <3>3, <4>1 DEF HoleIs
    <3>4. QED
      BY <3>1, <3>2, <3>3
  <2>6. GoesOn(m0, run, run) /\ SameHolds(run.mem, A, m, A)
    BY <2>1 DEF GoesOn, SameHolds
  <2>7. Packing(m0, run, A, f[0], A, e, 0)
    BY <2>1, <2>2, <2>3, <2>5, <2>6 DEF Packing
  <2>8. QED
    BY <2>7
<1>5. ASSUME NEW n \in Nat, n \in T PROVE n + 1 \in T
  <2>1. SUFFICES ASSUME n + 1 <= MemorySize
                 PROVE  \E A2, e2 : Packing(m0, run, A, f[n + 1], A2, e2, n + 1)
    OBVIOUS
  <2>2. n <= MemorySize
    BY <1>2, <2>1
  <2>3. PICK A1, e1 : Packing(m0, run, A, f[n], A1, e1, n)
    BY <1>5, <2>2
  <2>4. f[n + 1] = IF f[n].hole = Invalid THEN f[n] ELSE FillHole(f[n])
    <3>1. n + 1 # 0 /\ (n + 1) - 1 = n /\ n + 1 \in Nat
      OBVIOUS
    <3>2. f[n + 1] = Round(run, f, n + 1)
      BY <1>3, <2>1, <3>1
    <3>3. QED
      BY <3>1, <3>2 DEF Round
  <2>5. CASE f[n].hole = Invalid
    <3>1. Invalid \notin A1 \union {e1}
      <4>1. \A a \in A1 \union {e1} : a \in Nat
        BY <2>3, Items DEF Packing
      <4>2. QED
        BY <4>1 DEF Invalid
    <3>2. Packing(m0, run, A, f[n], A1, e1, n + 1)
      BY <2>3, <2>5, <3>1 DEF Packing, HoleIs
    <3>3. QED
      BY <2>4, <2>5, <3>2
  <2>6. CASE f[n].hole # Invalid
    <3>1. PICK round, r : round = f[n] /\ r = FillHole(round)
      OBVIOUS
    <3>2. \E A2, e2 : Packing(m0, run, A, r, A2, e2, n + 1)
      BY <2>3, <2>6, <3>1, LastRound, MoveRound
    <3>3. QED
      BY <2>4, <2>6, <3>1, <3>2
  <2>7. QED
    BY <2>5, <2>6
<1> HIDE DEF T
<1>6. Nat \subseteq T
  BY <1>4, <1>5, Counting
<1>7. PICK A2, e2 : Packing(m0, run, A, f[MemorySize], A2, e2, MemorySize)
  BY <1>2, <1>6 DEF T
<1>8. PICK r : r = f[MemorySize]
  OBVIOUS
<1>9. /\ GoesOn(m0, run, r.run) /\ Table(r.run.mem, A2, e2)
      /\ SameHolds(run.mem, A, r.run.mem, A2)
      /\ HoleIs(r.run.mem, A2, e2, r.hole, MemorySize)
  BY <1>7, <1>8 DEF Packing
<1>10. \A a \in A2 : KeyLength(r.run.mem, a) # 0
  <2>1. \A a \in A2 \union {e2} : ~ (MemorySize < a)
    <3>1. \A a \in A2 \union {e2} : a \in Nat /\ a + 2 < MemorySize
      BY <1>9, Items
    <3>2. QED
      BY <1>2, <3>1
  <2>2. QED
    BY <1>9, <2>1 DEF HoleIs
<1>11. Defrag(run) = r.run
  BY <1>1, <1>8
<1>12. QED
  BY <1>9, <1>10, <1>11

-----------------------------------------------------------------------------
(* The operations on a table *)

\* What a table holds after the store of a value ...
Stored(m, A, key, value, m2, A2) ==
  \A k \in Keys : \A v :
    Holds(m2, A2, k, v) <=> (k = key /\ v = value) \/ (k # key /\ Holds(m, A, k, v))

\* ... and after the removal of a key
Dropped(m, A, key, m2, A2) ==
  \A k \in Keys : \A v : Holds(m2, A2, k, v) <=> (k # key /\ Holds(m, A, k, v))

\* An item with the value in the place of one with the key, or behind the last one,
\* is a store.
LEMMA ItemStored ==
  ASSUME NEW m, NEW A, NEW key \in Keys, NEW value, NEW m2, NEW a,
         ItemAt(m2, a, key, value),
         \A b \in A : b # a => SameAs(m, b, m2, b) /\ KeyOf(m, b) # key,
         a \in A => KeyOf(m, a) = key
  PROVE  Stored(m, A, key, value, m2, A \union {a})
<1>1. SUFFICES ASSUME NEW k \in Keys, NEW v
               PROVE  Holds(m2, A \union {a}, k, v)
                        <=> (k = key /\ v = value) \/ (k # key /\ Holds(m, A, k, v))
  BY DEF Stored
<1>2. KeyOf(m2, a) = key /\ GetBuffer(m2, a) = value
  BY DEF ItemAt
<1>3. \A b \in A : b # a => KeyOf(m2, b) = KeyOf(m, b) /\ GetBuffer(m2, b) = GetBuffer(m, b)
  BY DEF SameAs
<1>4. CASE k = key
  <2>1. \A b \in A \union {a} : KeyOf(m2, b) = k => b = a
    BY <1>3, <1>4
  <2>2. QED
    BY <1>2, <1>4, <2>1 DEF Holds
<1>5. CASE k # key
  <2>1. \A b \in A \union {a} : KeyOf(m2, b) = k => b \in A /\ b # a
    BY <1>2, <1>5
  <2>2. \A b \in A : KeyOf(m, b) = k => b # a
    BY <1>5
  <2>3. ASSUME Holds(m2, A \union {a}, k, v) PROVE Holds(m, A, k, v)
    BY <1>3, <2>1, <2>3 DEF Holds
  <2>4. ASSUME Holds(m, A, k, v) PROVE Holds(m2, A \union {a}, k, v)
    BY <1>3, <2>2, <2>4 DEF Holds
  <2>5. QED
    BY <1>5, <2>3, <2>4
<1>6. QED
  BY <1>4, <1>5

\* A store in a table that holds the same is the same store.
LEMMA StoredOn ==
  ASSUME NEW m, NEW A, NEW key \in Keys, NEW value, NEW m1, NEW A1, NEW m2, NEW A2,
         Stored(m1, A1, key, value, m2, A2),
         SameHolds(m, A, m1, A1) \/ Dropped(m, A, key, m1, A1)
  PROVE  Stored(m, A, key, value, m2, A2)
BY DEF Stored, SameHolds, Dropped

\* ... and the contents it has
LEMMA StoredContents ==
  ASSUME NEW m, NEW A, NEW e, Table(m, A, e), NEW m2, NEW A2, NEW e2, Table(m2, A2, e2),
         NEW key \in Keys, NEW value, Stored(m, A, key, value, m2, A2)
  PROVE  Contents(m2) = [Contents(m) EXCEPT ![key] = value]
<1>1. ASSUME NEW k \in Keys, k # key PROVE Contents(m2)[k] = Contents(m)[k]
  <2>1. \A v : Holds(m, A, k, v) <=> Holds(m2, A2, k, v)
    BY <1>1 DEF Stored
  <2>2. QED
    BY <2>1, SameContents
<1>2. Contents(m2)[key] = value
  <2>1. Holds(m2, A2, key, value)
    BY DEF Stored
  <2>2. QED
    BY <2>1, ContentsOf
<1>3. Contents(m) = [k \in Keys |-> Contents(m)[k]] /\ Contents(m2) = [k \in Keys |-> Contents(m2)[k]]
  BY DEF Contents
<1> HIDE DEF Contents
<1>4. QED
  BY <1>1, <1>2, <1>3

\* A table from which a key was removed holds what it held, but no value of the key.
LEMMA DroppedContents ==
  ASSUME NEW m, NEW A, NEW e, Table(m, A, e), NEW m2, NEW A2, NEW e2, Table(m2, A2, e2),
         NEW key \in Keys, Dropped(m, A, key, m2, A2)
  PROVE  Contents(m2) = [Contents(m) EXCEPT ![key] = <<>>]
<1>1. ASSUME NEW k \in Keys, k # key PROVE Contents(m2)[k] = Contents(m)[k]
  <2>1. \A v : Holds(m, A, k, v) <=> Holds(m2, A2, k, v)
    BY <1>1 DEF Dropped
  <2>2. QED
    BY <2>1, SameContents
<1>2. Contents(m2)[key] = <<>>
  <2>1. \A v : ~Holds(m2, A2, key, v)
    BY DEF Dropped
  <2>2. QED
    BY <2>1, ContentsOf
<1>3. Contents(m) = [k \in Keys |-> Contents(m)[k]] /\ Contents(m2) = [k \in Keys |-> Contents(m2)[k]]
  BY DEF Contents
<1> HIDE DEF Contents
<1>4. QED
  BY <1>1, <1>2, <1>3

\* A hole in the place of the item of a key is a removal.
LEMMA HoleDrops ==
  ASSUME NEW m, NEW A, NEW e, Table(m, A, e), NEW a \in A, NEW key \in Keys, KeyOf(m, a) = key,
         NEW m2, KeyLength(m2, a) = 0, \A b \in A : b # a => SameAs(m, b, m2, b)
  PROVE  Dropped(m, A, key, m2, A) /\ \A b \in A : KeyOf(m2, b) # key
<1>1. ASSUME NEW k \in Keys, NEW v PROVE Holds(m2, A, k, v) <=> (k # key /\ Holds(m, A, k, v))
  <2>1. Holds(m2, A, k, v) <=> (Holds(m, A, k, v) /\ KeyOf(m, a) # k)
    BY HoleHolds
  <2>2. QED
    BY <2>1
<1>2. Dropped(m, A, key, m2, A)
  BY <1>1 DEF Dropped
<1>3. \A b \in A : KeyOf(m2, b) # key
  <2>1. \A v : ~Holds(m2, A, key, v)
    BY <1>2 DEF Dropped
  <2>2. QED
    BY <2>1 DEF Holds
<1>4. QED
  BY <1>2, <1>3

\* A key that the table does not hold is not there to be dropped.
LEMMA NothingDropped ==
  ASSUME NEW m, NEW A, NEW key \in Keys, \A b \in A : KeyOf(m, b) # key, NEW m2, NEW A2,
         SameHolds(m, A, m2, A2)
  PROVE  Dropped(m, A, key, m2, A2)
<1>1. \A v : ~Holds(m, A, key, v)
  BY DEF Holds
<1>2. QED
  BY <1>1 DEF Dropped, SameHolds

\* A key that has been removed may be removed again.
LEMMA DroppedOn ==
  ASSUME NEW m, NEW A, NEW key \in Keys, NEW m1, NEW A1, NEW m2, NEW A2,
         Dropped(m, A, key, m1, A1), Dropped(m1, A1, key, m2, A2)
  PROVE  Dropped(m, A, key, m2, A2)
BY DEF Dropped

\* A full table has no hole, and no room for the item.
Full(m, A, e, key, value) == (\A a \in A : KeyLength(m, a) # 0) /\ ~Fits(e, key, value)

\* What the store of a value comes to
StoreEnds(m0, m, A, key, value, r) ==
  /\ RunOf(m0, r) /\ r.endless = FALSE
  /\ \E A2, e2 : /\ Table(r.mem, A2, e2)
                 /\ \/ r.ok = TRUE /\ Stored(m, A, key, value, r.mem, A2)
                    \/ r.ok = FALSE /\ Dropped(m, A, key, r.mem, A2) /\ Full(r.mem, A2, e2, key, value)

\* Appending to a table that does not hold the key
LEMMA AppendStores ==
  ASSUME NEW m0, NEW run, RunOf(m0, run), run.ok = TRUE, run.endless = FALSE,
         NEW m, m = run.mem, NEW A, NEW e, Table(m, A, e),
         NEW key \in Keys, NEW value \in Values, \A a \in A : KeyOf(m, a) # key,
         Fits(e, key, value), NEW r, r = AppendAt(run, e, key, value)
  PROVE  StoreEnds(m0, m, A, key, value, r)
<1>1. /\ GoesOn(m0, run, r) /\ ItemAt(r.mem, e, key, value)
      /\ Table(r.mem, A \union {e}, e + ItemLength(key, value))
      /\ \A b \in A : SameAs(m, b, r.mem, b)
  BY AppendOf
<1>2. e \notin A
  <2>1. e \in Nat /\ \A a \in A : a < e
    BY Items
  <2>2. QED
    BY <2>1
<1>3. Stored(m, A, key, value, r.mem, A \union {e})
  BY <1>1, <1>2, ItemStored
<1>4. RunOf(m0, r) /\ r.ok = TRUE /\ r.endless = FALSE
  BY <1>1 DEF GoesOn
<1>5. QED
  BY <1>1, <1>3, <1>4 DEF StoreEnds

\* appendItemToEnd()
LEMMA AppendItemOf ==
  ASSUME NEW m0, NEW run, RunOf(m0, run), run.ok = TRUE, run.endless = FALSE,
         NEW m, m = run.mem, NEW A, NEW e, Table(m, A, e),
         NEW key \in Keys, NEW value \in Values, \A a \in A : KeyOf(m, a) # key,
         NEW r, r = AppendItemToEnd(run, key, value)
  PROVE  StoreEnds(m0, m, A, key, value, r)
<1>1. FindEnd(run.mem, FirstItem) = e /\ IsValid(e)
  <2>1. 1 \in A \union {e}
    BY Chained
  <2>2. FindEnd(m, 1) = e
    BY <2>1, FindEndOf
  <2>3. IsValid(e)
    BY Items DEF IsValid
  <2>4. QED
    BY <2>2, <2>3 DEF FirstItem
<1>2. CASE Fits(e, key, value)
  <2>1. r = AppendAt(run, e, key, value)
    BY <1>1, <1>2, Zenon DEF AppendItemToEnd
  <2>2. QED
    BY <1>2, <2>1, AppendStores
<1>3. CASE ~Fits(e, key, value)
  <2>1. PICK packed : packed = Defrag(run)
    OBVIOUS
  <2>2. GoesOn(m0, run, packed)
    BY <2>1, DefragOf
  <2>3. PICK A2, e2 : /\ Table(packed.mem, A2, e2) /\ SameHolds(m, A, packed.mem, A2)
                      /\ \A a \in A2 : KeyLength(packed.mem, a) # 0
    BY <2>1, DefragOf
  <2>4. FindEnd(packed.mem, FirstItem) = e2 /\ IsValid(e2)
    <3>1. 1 \in A2 \union {e2}
      BY <2>3, Chained
    <3>2. FindEnd(packed.mem, 1) = e2
      BY <2>3, <3>1, FindEndOf
    <3>3. IsValid(e2)
      BY <2>3, Items DEF IsValid
    <3>4. QED
      BY <3>2, <3>3 DEF FirstItem
  <2>5. RunOf(m0, packed) /\ packed.ok = TRUE /\ packed.endless = FALSE
    BY <2>2 DEF GoesOn
  <2>6. \A a \in A2 : KeyOf(packed.mem, a) # key
    <3>1. \A v : ~Holds(m, A, key, v)
      BY DEF Holds
    <3>2. \A v : ~Holds(packed.mem, A2, key, v)
      BY <2>3, <3>1 DEF SameHolds
    <3>3. QED
      BY <3>2 DEF Holds
  <2>7. CASE Fits(e2, key, value)
    <3>1. r = AppendAt(packed, e2, key, value)
      BY <1>1, <1>3, <2>1, <2>4, <2>5, <2>7, Zenon DEF AppendItemToEnd
    <3>2. PICK m1 : m1 = packed.mem
      OBVIOUS
    <3>3. StoreEnds(m0, m1, A2, key, value, r)
      BY <2>3, <2>5, <2>6, <2>7, <3>1, <3>2, AppendStores
    <3>4. SameHolds(m, A, m1, A2) /\ Dropped(m, A, key, m1, A2)
      BY <2>3, <3>2, NothingDropped
    <3>5. QED
      BY <3>3, <3>4, StoredOn, DroppedOn DEF StoreEnds
  <2>8. CASE ~Fits(e2, key, value)
    <3>1. r = Fails(packed)
      BY <1>1, <1>3, <2>1, <2>4, <2>5, <2>8, Zenon DEF AppendItemToEnd
    <3>2. RunOf(m0, r) /\ r.ok = FALSE /\ r.mem = packed.mem /\ r.endless = FALSE
      BY <2>5, <3>1, RunFails
    <3>3. Dropped(m, A, key, r.mem, A2)
      BY <2>3, <3>2, NothingDropped
    <3>4. Full(r.mem, A2, e2, key, value)
      BY <2>3, <2>8, <3>2 DEF Full
    <3>5. QED
      BY <2>3, <3>2, <3>3, <3>4 DEF StoreEnds
  <2>9. QED
    BY <2>7, <2>8
<1>4. QED
  BY <1>2, <1>3

\* A hole goes on with a run.
LEMMA HoleMadeOf ==
  ASSUME NEW m, NEW A, NEW e, Table(m, A, e), NEW a \in A,
         NEW m0, NEW run, RunOf(m0, run), run.mem = m,
         NEW r, r = WriteHole(run, a, FullLength(m, a))
  PROVE  GoesOn(m0, run, r) /\ HoleMade(m, A, e, a, r.mem)
<1>1. RunOf(m0, r) /\ r.ok = run.ok /\ r.endless = run.endless
  BY HoleOf
<1>2. HoleMade(m, A, e, a, r.mem)
  BY HoleOf
<1>3. QED
  BY <1>1, <1>2 DEF GoesOn

\* storeItem()
LEMMA StoreOf ==
  ASSUME NEW m, NEW A, NEW e, Table(m, A, e), NEW key \in Keys, NEW value \in Values,
         NEW r, r = StoreItem(m, key, value)
  PROVE  StoreEnds(m, m, A, key, value, r)
<1>1. PICK item, run : item = FindItemByKey(m, key) /\ run = Start(m)
  OBVIOUS
<1>2. key \in Strings /\ key # <<>> /\ m \in Memories
  BY KeyFacts, Items
<1>3. RunOf(m, run) /\ run.mem = m /\ run.ok = TRUE /\ run.endless = FALSE
  BY <1>1, <1>2, RunStarts
<1>4. \/ item = Invalid /\ \A a \in A : KeyOf(m, a) # key
      \/ item \in A /\ KeyOf(m, item) = key /\ KeyLength(m, item) = Len(key)
  BY <1>1, <1>2, FindItemByKeyOf
<1>5. CASE item = Invalid /\ \A a \in A : KeyOf(m, a) # key
  <2>1. item # Endless
    BY <1>5 DEF Invalid, Endless
  <2>2. r = AppendItemToEnd(run, key, value)
    BY <1>1, <1>5, <2>1, Zenon DEF StoreItem
  <2>3. QED
    BY <1>3, <1>5, <2>2, AppendItemOf
<1>6. CASE item \in A /\ KeyOf(m, item) = key /\ KeyLength(m, item) = Len(key)
  <2>1. item \in Nat
    BY <1>6, Items
  <2>2. item # Endless /\ item # Invalid /\ IsValid(item)
    BY <2>1 DEF Endless, Invalid, IsValid
  <2>3. \A b \in A : b # item => KeyOf(m, b) # key
    <3>1. KeyLength(m, item) # 0
      BY <1>6, KeyFacts
    <3>2. \A a, b \in A : KeyLength(m, a) # 0 /\ KeyOf(m, a) = KeyOf(m, b) => a = b
      BY DEF Table
    <3>3. QED
      BY <1>6, <3>1, <3>2
  <2>4. CASE FullLength(m, item) = ItemLength(key, value)
    <3>1. r = WriteItem(run, item, key, value)
      BY <1>1, <2>2, <2>4, Zenon DEF StoreItem, FitsInPlace
    <3>2. /\ GoesOn(m, run, r) /\ Table(r.mem, A, e) /\ ItemAt(r.mem, item, key, value)
          /\ \A b \in A : b # item => SameAs(m, b, r.mem, b)
      BY <1>3, <1>6, <2>4, <3>1, InPlaceOf
    <3>3. Stored(m, A, key, value, r.mem, A \union {item})
      BY <1>6, <2>3, <3>2, ItemStored
    <3>4. A \union {item} = A
      BY <1>6
    <3>5. RunOf(m, r) /\ r.ok = TRUE /\ r.endless = FALSE
      BY <1>3, <3>2 DEF GoesOn
    <3>6. QED
      BY <3>2, <3>3, <3>4, <3>5 DEF StoreEnds
  <2>5. CASE FullLength(m, item) # ItemLength(key, value)
    <3>1. PICK w, m1 : w = WriteHole(run, item, FullLength(m, item)) /\ m1 = w.mem
      OBVIOUS
    <3>2. r = AppendItemToEnd(w, key, value)
      BY <1>1, <2>2, <2>5, <3>1, Zenon DEF StoreItem, FitsInPlace
    <3>3. /\ RunOf(m, w) /\ w.ok = TRUE /\ w.endless = FALSE
          /\ Table(m1, A, e) /\ KeyLength(m1, item) = 0
          /\ \A b \in A : b # item => SameAs(m, b, m1, b)
      <4>1. GoesOn(m, run, w) /\ HoleMade(m, A, e, item, w.mem)
        BY <1>3, <1>6, <3>1, HoleMadeOf
      <4>2. QED
        BY <1>3, <3>1, <4>1 DEF GoesOn, HoleMade
    <3>4. Dropped(m, A, key, m1, A) /\ \A b \in A : KeyOf(m1, b) # key
      BY <1>6, <3>3, HoleDrops
    <3>5. StoreEnds(m, m1, A, key, value, r)
      BY <3>1, <3>2, <3>3, <3>4, AppendItemOf
    <3>6. QED
      BY <3>4, <3>5, StoredOn, DroppedOn DEF StoreEnds
  <2>6. QED
    BY <2>4, <2>5
<1>7. QED
  BY <1>4, <1>5, <1>6

\* removeItem()
LEMMA RemoveOf ==
  ASSUME NEW m, NEW A, NEW e, Table(m, A, e), NEW key \in Keys,
         NEW r, r = RemoveItem(m, key)
  PROVE  /\ RunOf(m, r) /\ r.endless = FALSE
         /\ Table(r.mem, A, e) /\ Dropped(m, A, key, r.mem, A)
         /\ r.ok = (Contents(m)[key] # <<>>)
<1>1. PICK item, run : item = FindItemByKey(m, key) /\ run = Start(m)
  OBVIOUS
<1>2. key \in Strings /\ key # <<>> /\ m \in Memories
  BY KeyFacts, Items
<1>3. RunOf(m, run) /\ run.mem = m /\ run.ok = TRUE /\ run.endless = FALSE
  BY <1>1, <1>2, RunStarts
<1>4. \/ item = Invalid /\ \A a \in A : KeyOf(m, a) # key
      \/ item \in A /\ KeyOf(m, item) = key /\ KeyLength(m, item) = Len(key)
  BY <1>1, <1>2, FindItemByKeyOf
<1>5. Contents(m)[key] = Fetch(m, key)
  BY DEF Contents
<1>6. CASE item = Invalid /\ \A a \in A : KeyOf(m, a) # key
  <2>1. item # Endless
    BY <1>6 DEF Invalid, Endless
  <2>2. r = Fails(run)
    BY <1>1, <1>6, <2>1, Zenon DEF RemoveItem
  <2>3. RunOf(m, r) /\ r.ok = FALSE /\ r.mem = m /\ r.endless = FALSE
    BY <1>3, <2>2, RunFails
  <2>4. Fetch(m, key) = <<>>
    BY <1>2, <1>6, FetchOf
  <2>5. Dropped(m, A, key, r.mem, A)
    <3>1. SameHolds(m, A, r.mem, A)
      BY <2>3 DEF SameHolds
    <3>2. QED
      BY <1>6, <3>1, NothingDropped
  <2>6. QED
    BY <1>5, <2>3, <2>4, <2>5
<1>7. CASE item \in A /\ KeyOf(m, item) = key /\ KeyLength(m, item) = Len(key)
  <2>1. item \in Nat
    BY <1>7, Items
  <2>2. item # Endless /\ item # Invalid
    BY <2>1 DEF Endless, Invalid
  <2>3. r = WriteHole(run, item, FullLength(m, item))
    BY <1>1, <2>2, Zenon DEF RemoveItem
  <2>4. /\ RunOf(m, r) /\ r.ok = TRUE /\ r.endless = FALSE
        /\ Table(r.mem, A, e) /\ KeyLength(r.mem, item) = 0
        /\ \A b \in A : b # item => SameAs(m, b, r.mem, b)
    <3>1. GoesOn(m, run, r) /\ HoleMade(m, A, e, item, r.mem)
      BY <1>3, <1>7, <2>3, HoleMadeOf
    <3>2. QED
      BY <1>3, <3>1 DEF GoesOn, HoleMade
  <2>5. Dropped(m, A, key, r.mem, A)
    BY <1>7, <2>4, HoleDrops
  <2>6. Fetch(m, key) # <<>>
    BY <1>2, <1>7, FetchOf
  <2>7. QED
    BY <1>5, <2>4, <2>5, <2>6
<1>8. QED
  BY <1>4, <1>6, <1>7

\* A table without items
LEMMA EmptyTable ==
  ASSUME NEW m \in Memories, IsEnd(m, 1)
  PROVE  Table(m, {}, 1) /\ Contents(m) = [key \in Keys |-> <<>>]
<1>1. 1 \in 1 .. MemorySize - 3
  BY SizeAssumption
<1>2. Table(m, {}, 1)
  BY <1>1, Zenon DEF Table, FirstItem
<1>3. ASSUME NEW key \in Keys PROVE Contents(m)[key] = <<>>
  <2>1. \A v : ~Holds(m, {}, key, v)
    BY DEF Holds
  <2>2. QED
    BY <1>2, <2>1, ContentsOf
<1>4. Contents(m) = [key \in Keys |-> Contents(m)[key]]
  BY DEF Contents
<1> HIDE DEF Contents
<1>5. QED
  BY <1>2, <1>3, <1>4

\* dictionaryFormat(), whatever the memory holds
LEMMA FormatOf ==
  ASSUME NEW m \in Memories, NEW r, r = Format(m)
  PROVE  /\ RunOf(m, r) /\ r.endless = FALSE /\ r.ok = TRUE
         /\ Table(r.mem, {}, 1) /\ Contents(r.mem) = [key \in Keys |-> <<>>]
<1>1. PICK run, w : run = Start(m) /\ w = Write(run, 0, <<Version>>)
  OBVIOUS
<1>2. RunOf(m, run) /\ run.mem = m /\ run.ok = TRUE /\ run.endless = FALSE
  BY <1>1, RunStarts
<1>3. <<Version>> \in Strings /\ Len(<<Version>>) = 1 /\ <<Version>> # <<>>
  BY DEF Version, Strings
<1>4. MemorySize \in Nat /\ 4 <= MemorySize
  BY SizeAssumption
<1>5. Wrote(m, run, 0, <<Version>>, w)
  <2>1. 0 + Len(<<Version>>) <= MemorySize
    BY <1>3, <1>4
  <2>2. QED
    BY <1>1, <1>2, <1>3, <2>1, WroteMemory
<1>6. RunOf(m, w) /\ w.ok = TRUE /\ w.endless = FALSE
  BY <1>2, <1>5 DEF Wrote
<1>7. r = WriteEnd(w, 1)
  BY <1>1, Zenon DEF Format, FirstItem
<1>8. GoesOn(m, w, r) /\ IsEnd(r.mem, 1)
  <2>1. 1 + 2 <= MemorySize
    BY <1>4
  <2>2. QED
    BY <1>6, <1>7, <2>1, WriteEndOf
<1>9. RunOf(m, r) /\ r.ok = TRUE /\ r.endless = FALSE /\ r.mem \in Memories
  BY <1>6, <1>8 DEF GoesOn, RunOf
<1>10. QED
  BY <1>8, <1>9, EmptyTable

-----------------------------------------------------------------------------
(* foreach() *)

\* A scan stops at an address from its start up to its limit, if it stops.
LEMMA ScanRange ==
  ASSUME NEW m \in Memories, NEW limit \in Nat, limit <= MemorySize - 2, NEW stops,
         NEW from \in Nat, NEW r, r = Scan(m, from, limit, stops)
  PROVE  r = Invalid \/ r = Endless \/ (r \in Nat /\ from <= r /\ r < limit)
<1> DEFINE S(a) == Scan(m, a, limit, stops)
           In(a, x) == x = Invalid \/ x = Endless \/ (x \in Nat /\ a <= x /\ x < limit)
           T == {k \in Nat : \A a \in Nat : a + k >= limit => In(a, S(a))}
<1>1. \A a \in Nat : S(a) = IF a >= limit THEN Invalid
                            ELSE IF a \in stops THEN a
                            ELSE IF FullLength(m, a) = 0 THEN Endless
                            ELSE S(a + FullLength(m, a))
  BY ScanEquation
<1> HIDE DEF S
<1>2. 0 \in T
  BY <1>1
<1>3. ASSUME NEW k \in Nat, k \in T PROVE k + 1 \in T
  <2>1. ASSUME NEW a \in Nat, a + (k + 1) >= limit PROVE In(a, S(a))
    <3>1. CASE a >= limit \/ a \in stops \/ FullLength(m, a) = 0
      BY <1>1, <3>1
    <3>2. CASE ~ (a >= limit \/ a \in stops \/ FullLength(m, a) = 0)
      <4>1. PICK b : b = a + FullLength(m, a)
        OBVIOUS
      <4>2. S(a) = S(b)
        BY <1>1, <3>2, <4>1
      <4>3. b \in Nat /\ a < b /\ b + k >= limit
        <5>1. FullLength(m, a) \in Nat
          <6>1. a + 2 < MemorySize
            BY <3>2, SizeAssumption
          <6>2. QED
            BY <6>1, Lengths
        <5>2. QED
          BY <2>1, <3>2, <4>1, <5>1
      <4>4. In(b, S(b))
        BY <1>3, <4>3
      <4>5. QED
        BY <4>2, <4>3, <4>4
    <3>3. QED
      BY <3>1, <3>2
  <2>2. QED
    BY <2>1
<1> HIDE DEF T
<1>4. limit \in T
  BY <1>2, <1>3, Counting
<1>5. In(from, S(from))
  BY <1>4 DEF T
<1>6. QED
  BY <1>5 DEF S

\* ... and so does the search for the next item that foreach() visits.
LEMMA PrefixRange ==
  ASSUME NEW m \in Memories, NEW from \in Nat, NEW item, item = FindItemByPrefix(m, from)
  PROVE  \/ item = Invalid \/ item = Endless
         \/ /\ item \in Nat /\ from <= item /\ item + 2 < MemorySize
            /\ FullLength(m, item) \in Nat
<1> DEFINE stops == {a \in Nat : \/ IsEnd(m, a)
                                 \/ KeyLength(m, a) >= Len(Prefix) /\ HasKey(m, a, Prefix)}
           found == Scan(m, from, MemorySize - 3, stops)
<1>1. MemorySize \in Nat /\ MemorySize - 3 \in Nat /\ MemorySize - 3 <= MemorySize - 2
  BY SizeAssumption
<1>2. item = Unless(found, IsEnd(m, found))
  BY Zenon DEF FindItemByPrefix
<1>3. found = Invalid \/ found = Endless \/ (found \in Nat /\ from <= found /\ found < MemorySize - 3)
  BY <1>1, ScanRange
<1> HIDE DEF found
<1>4. item = found \/ item = Invalid
  BY <1>2 DEF Unless
<1>5. CASE item = found /\ found \in Nat /\ from <= found /\ found < MemorySize - 3
  <2>1. item + 2 < MemorySize
    BY <1>1, <1>5
  <2>2. QED
    BY <1>5, <2>1, Lengths
<1>6. QED
  BY <1>3, <1>4, <1>5

VisitStep(m, f, from) ==
  LET item == FindItemByPrefix(m, from)
  IN  IF item = Endless THEN <<Endless>>
      ELSE IF item = Invalid THEN <<>>
      ELSE IF FullLength(m, item) = 0 THEN <<item, Endless>>
      ELSE <<item>> \o f[item + FullLength(m, item)]

\* f and g agree where the visits that start at an address go on.
LEMMA VisitsAgree ==
  ASSUME NEW m \in Memories, NEW from \in Nat, NEW f, NEW g,
         \A a \in Nat : from < a => f[a] = g[a]
  PROVE  VisitStep(m, f, from) = VisitStep(m, g, from)
<1>1. PICK item : item = FindItemByPrefix(m, from)
  OBVIOUS
<1>2. CASE item = Invalid \/ item = Endless \/ FullLength(m, item) = 0
  BY <1>1, <1>2 DEF VisitStep
<1>3. CASE ~ (item = Invalid \/ item = Endless \/ FullLength(m, item) = 0)
  <2>1. item \in Nat /\ from <= item /\ FullLength(m, item) \in Nat /\ FullLength(m, item) # 0
    BY <1>1, <1>3, PrefixRange
  <2>2. item + FullLength(m, item) \in Nat /\ from < item + FullLength(m, item)
    BY <2>1
  <2>3. f[item + FullLength(m, item)] = g[item + FullLength(m, item)]
    BY <2>2
  <2>4. QED
    BY <1>1, <1>3, <2>3 DEF VisitStep
<1>4. QED
  BY <1>2, <1>3

IsVisits(m, f) == f = [a \in Nat |-> VisitStep(m, f, a)]

\* The visits from every address exist, for they go upwards through the memory.
LEMMA VisitsExist ==
  ASSUME NEW m \in Memories
  PROVE  \E f : IsVisits(m, f)
<1> DEFINE Good(f, k) == \A a \in Nat : a + k >= MemorySize => f[a] = VisitStep(m, f, a)
           T == {k \in Nat : \E f : Good(f, k)}
<1>1. MemorySize \in Nat
  BY SizeAssumption
<1>2. 0 \in T
  <2>1. PICK f : f = [a \in Nat |-> <<>>]
    OBVIOUS
  <2>2. ASSUME NEW a \in Nat, a >= MemorySize PROVE f[a] = VisitStep(m, f, a)
    <3>1. PICK item : item = FindItemByPrefix(m, a)
      OBVIOUS
    <3>2. item = Invalid
      <4> DEFINE stops == {b \in Nat : \/ IsEnd(m, b)
                                       \/ KeyLength(m, b) >= Len(Prefix) /\ HasKey(m, b, Prefix)}
                 found == Scan(m, a, MemorySize - 3, stops)
      <4>1. item = Unless(found, IsEnd(m, found))
        BY <3>1, Zenon DEF FindItemByPrefix
      <4>2. MemorySize - 3 \in Nat /\ MemorySize - 3 <= MemorySize - 2 /\ a >= MemorySize - 3
        BY <2>2, SizeAssumption
      <4>3. found = Invalid
        BY <4>2, ScanEquation
      <4> HIDE DEF found
      <4>4. QED
        BY <4>1, <4>3 DEF Unless
    <3>3. Invalid # Endless
      BY DEF Invalid, Endless
    <3>4. QED
      BY <2>1, <3>1, <3>2, <3>3 DEF VisitStep
  <2>3. Good(f, 0)
    BY <2>2
  <2>4. QED
    BY <2>3
<1>3. ASSUME NEW k \in Nat, k \in T PROVE k + 1 \in T
  <2>1. PICK f : Good(f, k)
    BY <1>3
  <2>2. PICK g : g = [a \in Nat |-> VisitStep(m, f, a)]
    OBVIOUS
  <2>3. \A a \in Nat : a + k >= MemorySize => g[a] = f[a]
    BY <2>1, <2>2
  <2>4. ASSUME NEW a \in Nat, a + (k + 1) >= MemorySize PROVE g[a] = VisitStep(m, g, a)
    <3>1. ASSUME NEW b \in Nat, a < b PROVE f[b] = g[b]
      <4>1. b + k >= MemorySize
        BY <1>1, <2>4, <3>1
      <4>2. QED
        BY <2>3, <4>1
    <3>2. VisitStep(m, f, a) = VisitStep(m, g, a)
      BY <3>1, VisitsAgree
    <3>3. QED
      BY <2>2, <3>2
  <2>5. Good(g, k + 1)
    BY <2>4
  <2>6. QED
    BY <2>5
<1> HIDE DEF T
<1>4. MemorySize \in T
  BY <1>1, <1>2, <1>3, Counting
<1>5. PICK f : Good(f, MemorySize)
  BY <1>4 DEF T
<1>6. \A a \in Nat : f[a] = VisitStep(m, f, a)
  <2>1. \A a \in Nat : a + MemorySize >= MemorySize
    BY <1>1
  <2>2. QED
    BY <1>5, <2>1
<1>7. PICK g : g = [a \in Nat |-> VisitStep(m, f, a)]
  OBVIOUS
<1>8. \A a \in Nat : f[a] = g[a]
  BY <1>6, <1>7
<1>9. \A a \in Nat : VisitStep(m, f, a) = VisitStep(m, g, a)
  BY <1>8, VisitsAgree
<1>10. g = [a \in Nat |-> VisitStep(m, g, a)]
  BY <1>7, <1>9
<1>11. QED
  BY <1>10, Zenon DEF IsVisits

\* foreach() makes those from the first item.
LEMMA ForeachVisits ==
  ASSUME NEW m \in Memories
  PROVE  \E f : (\A a \in Nat : f[a] = VisitStep(m, f, a)) /\ Foreach(m) = f[1]
<1>1. PICK f : f = CHOOSE g : IsVisits(m, g)
  OBVIOUS
<1>2. IsVisits(m, f)
  BY <1>1, VisitsExist
<1>3. Foreach(m) = f[1]
  BY <1>1, Zenon DEF Foreach, IsVisits, VisitStep, FirstItem
<1>4. ASSUME NEW a \in Nat PROVE f[a] = VisitStep(m, f, a)
  <2>1. PICK g : g = [b \in Nat |-> VisitStep(m, f, b)]
    OBVIOUS
  <2>2. g = f
    BY <1>2, <2>1 DEF IsVisits
  <2>3. QED
    BY <2>1, <2>2
<1>5. QED
  BY <1>3, <1>4

\* An item with a key of the firmware is seen to begin with the prefix.
LEMMA KeysBegin ==
  ASSUME NEW m, NEW A, NEW e, Table(m, A, e), NEW a \in A
  PROVE  (KeyLength(m, a) >= Len(Prefix) /\ HasKey(m, a, Prefix)) <=> KeyLength(m, a) # 0
<1> DEFINE p == Len(Prefix)
           n == KeyLength(m, a)
<1>1. /\ a \in Nat /\ n \in Nat /\ FullLength(m, a) \in Nat /\ e \in Nat /\ MemorySize \in Nat
      /\ a + FullLength(m, a) <= e /\ e + 3 <= MemorySize
      /\ (n = 0 \/ 3 + n < FullLength(m, a))
  BY Items, Chained
<1>2. p \in Nat /\ 1 <= p /\ Prefix \in Seq(0 .. 255)
  <2>1. Prefix \in Strings /\ Prefix # <<>>
    BY StringsAssumption
  <2>2. QED
    BY <2>1, StringFacts DEF Strings
<1> HIDE DEF p
<1>3. ASSUME n # 0 PROVE n >= p /\ HasKey(m, a, Prefix)
  <2>1. PICK key : key = KeyOf(m, a)
    OBVIOUS
  <2>2. key \in Keys
    BY <1>3, <2>1 DEF Table
  <2>3. IsPrefix(Prefix, key) /\ key \in Seq(0 .. 255)
    BY <2>2, StringsAssumption DEF Strings
  <2>4. Len(key) = n /\ \A i \in 1 .. n : key[i] = m[a + 3 + i - 1]
    BY <1>1, <2>1, BytesLength, Zenon DEF KeyOf, HeaderSize
  <2>5. p <= n /\ SubSeq(Prefix, 1, p) = SubSeq(key, 1, p)
    BY <2>3, <2>4 DEF IsPrefix, p
  <2> HIDE DEF n
  <2>6. \A i \in 1 .. p : i \in 1 .. n
    BY <1>1, <1>2, <2>5
  <2>7. \A i \in 1 .. p : Prefix[i] = key[i]
    <3>1. 1 \in Int /\ p \in Int /\ p - 1 + 1 = p /\ \A i \in 1 .. p : 1 + i - 1 = i
      BY <1>2
    <3>2. \A i \in 1 .. p : Prefix[i] \in 0 .. 255
      BY <1>2, StringFacts DEF p, Strings
    <3>3. \A i \in 1 .. p : SubSeq(Prefix, 1, p)[i] = Prefix[i]
      BY <3>1, <3>2, SubSeqProperties
    <3>4. \A i \in 1 .. p : key[i] \in 0 .. 255
      <4>1. \A i \in 1 .. n : key[i] \in 0 .. 255
        BY <2>3, <2>4, StringFacts DEF Strings
      <4>2. QED
        BY <2>6, <4>1
    <3>5. \A i \in 1 .. p : SubSeq(key, 1, p)[i] = key[i]
      BY <3>1, <3>4, SubSeqProperties
    <3>6. QED
      BY <2>5, <3>3, <3>5
  <2>8. Bytes(m, a + 3, p) = Prefix
    <3>1. \A i \in 1 .. p : m[a + 3 + i - 1] = Prefix[i]
      BY <2>4, <2>6, <2>7
    <3>2. Prefix = [i \in 1 .. p |-> Prefix[i]]
      BY <1>2 DEF p
    <3>3. Bytes(m, a + 3, p) = [i \in 1 .. p |-> m[a + 3 + i - 1]]
      BY DEF Bytes
    <3>4. QED
      BY <3>1, <3>2, <3>3
  <2>9. a + 3 + p <= MemorySize
    <3>1. 3 + n < FullLength(m, a)
      BY <1>1, <1>3 DEF n
    <3>2. QED
      BY <1>1, <1>2, <2>5, <3>1 DEF n
  <2>10. QED
    BY <1>1, <1>2, <2>5, <2>8, <2>9 DEF HasKey, HeaderSize, p, n
<1>4. ASSUME n >= p PROVE n # 0
  BY <1>1, <1>2, <1>4
<1>5. QED
  BY <1>3, <1>4 DEF p

\* findItemByPrefix() finds the next item with a key, since each has the prefix.
LEMMA FindItemByPrefixOf ==
  ASSUME NEW m, NEW A, NEW e, Table(m, A, e), NEW from \in A \union {e},
         NEW item, item = FindItemByPrefix(m, from)
  PROVE  \/ item = Invalid /\ \A a \in A : from <= a => KeyLength(m, a) = 0
         \/ /\ item \in A /\ from <= item /\ KeyLength(m, item) # 0
            /\ \A a \in A : from <= a /\ a < item => KeyLength(m, a) = 0
<1> DEFINE stops == {a \in Nat : \/ IsEnd(m, a)
                                 \/ KeyLength(m, a) >= Len(Prefix) /\ HasKey(m, a, Prefix)}
           found == Scan(m, from, MemorySize - 3, stops)
<1>1. MemorySize - 3 \in Nat /\ MemorySize - 3 <= MemorySize - 2
  BY SizeAssumption
<1>2. item = Unless(found, IsEnd(m, found))
  BY Zenon DEF FindItemByPrefix
<1>3. Found(A, e, from, MemorySize - 3, stops, found)
  BY <1>1, ScanFinds
<1>4. /\ \A a \in A : a \in Nat /\ a < e /\ a < MemorySize - 3 /\ ~IsEnd(m, a)
      /\ e \in Nat /\ IsEnd(m, e)
  BY Items, Chained
<1>5. \A a \in A : a \in stops <=> KeyLength(m, a) # 0
  BY <1>4, KeysBegin
<1> HIDE DEF stops, found
<1>6. CASE /\ found = Invalid
           /\ \A b \in A \union {e} : from <= b /\ b < MemorySize - 3 => b \notin stops
  <2>1. item = Invalid
    BY <1>2, <1>6 DEF Unless
  <2>2. \A a \in A : from <= a => KeyLength(m, a) = 0
    BY <1>4, <1>5, <1>6
  <2>3. QED
    BY <2>1, <2>2
<1>7. CASE /\ found \in A \union {e} /\ from <= found
           /\ found < MemorySize - 3 /\ found \in stops
           /\ \A b \in A \union {e} : from <= b /\ b < found => b \notin stops
  <2>1. IsValid(found)
    BY <1>4, <1>7 DEF IsValid
  <2>2. CASE found = e
    <3>1. item = Invalid
      BY <1>2, <1>4, <2>1, <2>2 DEF Unless
    <3>2. \A a \in A : from <= a => KeyLength(m, a) = 0
      BY <1>4, <1>5, <1>7, <2>2
    <3>3. QED
      BY <3>1, <3>2
  <2>3. CASE found \in A
    <3>1. item = found
      BY <1>2, <1>4, <2>1, <2>3 DEF Unless
    <3>2. \A a \in A : from <= a /\ a < found => KeyLength(m, a) = 0
      BY <1>5, <1>7
    <3>3. QED
      BY <1>5, <1>7, <2>3, <3>1, <3>2
  <2>4. QED
    BY <1>7, <2>2, <2>3
<1>8. QED
  BY <1>3, <1>6, <1>7 DEF Found

\* s are the items from an address, in order.
Visited(m, A, from, s) ==
  /\ s \in Seq(A)
  /\ \A i \in 1 .. Len(s) : from <= s[i] /\ KeyLength(m, s[i]) # 0
  /\ \A a \in A : from <= a /\ KeyLength(m, a) # 0 => \E i \in 1 .. Len(s) : s[i] = a
  /\ \A i, j \in 1 .. Len(s) : i < j => s[i] < s[j]

\* foreach() visits every item with a key once, in order, and returns.
LEMMA ForeachOf ==
  ASSUME NEW m, NEW A, NEW e, Table(m, A, e)
  PROVE  Visited(m, A, 1, Foreach(m))
<1>1. m \in Memories
  BY Items
<1>2. PICK f : (\A a \in Nat : f[a] = VisitStep(m, f, a)) /\ Foreach(m) = f[1]
  BY <1>1, ForeachVisits
<1> DEFINE V(a) == Visited(m, A, a, f[a])
           T == {k \in Nat : \A a \in A \union {e} : e - a < k => V(a)}
<1>3. /\ e \in Nat /\ \A a \in A \union {e} : a \in Nat /\ a <= e /\ 1 <= a
      /\ \A a \in A : /\ FullLength(m, a) \in Nat /\ 4 <= FullLength(m, a)
                      /\ a + FullLength(m, a) \in A \union {e}
      /\ \A a \in A : \A b \in A \union {e} : a < b => a + FullLength(m, a) <= b
  BY Items, Chained
<1>4. ASSUME NEW from \in A \union {e}, \A a \in A \union {e} : from < a => V(a)
      PROVE  V(from)
  <2>1. PICK item : item = FindItemByPrefix(m, from)
    OBVIOUS
  <2>2. \/ item = Invalid /\ \A a \in A : from <= a => KeyLength(m, a) = 0
        \/ /\ item \in A /\ from <= item /\ KeyLength(m, item) # 0
           /\ \A a \in A : from <= a /\ a < item => KeyLength(m, a) = 0
    BY <2>1, FindItemByPrefixOf
  <2>3. f[from] = VisitStep(m, f, from)
    BY <1>2, <1>3
  <2>4. CASE item = Invalid /\ \A a \in A : from <= a => KeyLength(m, a) = 0
    <3>1. f[from] = <<>>
      BY <2>1, <2>3, <2>4 DEF VisitStep, Invalid, Endless
    <3>2. <<>> \in Seq(A) /\ Len(<<>>) = 0 /\ \A i : i \notin 1 .. 0
      OBVIOUS
    <3>3. QED
      BY <2>4, <3>1, <3>2 DEF Visited
  <2>5. CASE /\ item \in A /\ from <= item /\ KeyLength(m, item) # 0
             /\ \A a \in A : from <= a /\ a < item => KeyLength(m, a) = 0
    <3>1. PICK next, t : next = item + FullLength(m, item) /\ t = f[next]
      OBVIOUS
    <3>2. f[from] = <<item>> \o t
      <4>1. item # Invalid /\ item # Endless /\ FullLength(m, item) # 0
        BY <1>3, <2>5 DEF Invalid, Endless
      <4>2. QED
        BY <2>1, <2>3, <3>1, <4>1 DEF VisitStep
    <3>3. /\ next \in A \union {e} /\ next \in Nat /\ item < next /\ from < next
          /\ \A a \in A : item < a => next <= a
      BY <1>3, <2>5, <3>1
    <3>4. Visited(m, A, next, t)
      BY <1>4, <3>1, <3>3
    <3>5. /\ t \in Seq(A) /\ Len(t) \in Nat
          /\ \A i \in 1 .. Len(t) : next <= t[i] /\ KeyLength(m, t[i]) # 0 /\ t[i] \in A
          /\ \A i, j \in 1 .. Len(t) : i < j => t[i] < t[j]
          /\ \A a \in A : next <= a /\ KeyLength(m, a) # 0 => \E i \in 1 .. Len(t) : t[i] = a
      BY <3>4 DEF Visited
    <3>6. PICK s, n : s = <<item>> \o t /\ n = Len(t)
      OBVIOUS
    <3>7. /\ s \in Seq(A) /\ Len(s) = n + 1 /\ s[1] = item
          /\ \A i \in 1 .. n : s[i + 1] = t[i]
      <4>1. <<item>> \in Seq(A) /\ Len(<<item>>) = 1
        BY <2>5
      <4>2. QED
        BY <3>5, <3>6, <4>1, ConcatProperties
    <3>8. n \in Nat /\ \A i \in 1 .. n + 1 : i = 1 \/ (i # 1 /\ i - 1 \in 1 .. n /\ s[i] = t[i - 1])
      <4>1. n \in Nat
        BY <3>5, <3>6
      <4>2. ASSUME NEW i \in 1 .. n + 1, i # 1 PROVE i - 1 \in 1 .. n /\ s[i] = t[i - 1]
        <5>1. i - 1 \in 1 .. n /\ (i - 1) + 1 = i
          BY <4>1, <4>2
        <5>2. QED
          BY <3>7, <5>1
      <4>3. QED
        BY <4>1, <4>2
    <3>9. \A i \in 1 .. n + 1 : from <= s[i] /\ KeyLength(m, s[i]) # 0
      <4>1. ASSUME NEW i \in 1 .. n PROVE from <= t[i] /\ KeyLength(m, t[i]) # 0
        <5>1. PICK x : x = t[i]
          OBVIOUS
        <5>2. next <= x /\ x \in A /\ KeyLength(m, x) # 0
          BY <3>5, <3>6, <5>1
        <5>3. x \in Nat /\ from \in Nat /\ next \in Nat /\ from < next
          BY <1>3, <3>3, <5>2
        <5>4. from <= x
          BY <5>2, <5>3
        <5>5. QED
          BY <5>1, <5>2, <5>4
      <4>2. ASSUME NEW i \in 1 .. n + 1 PROVE from <= s[i] /\ KeyLength(m, s[i]) # 0
        <5>1. CASE i = 1
          BY <2>5, <3>7, <5>1
        <5>2. CASE i # 1
          BY <3>8, <4>1, <5>2
        <5>3. QED
          BY <5>1, <5>2
      <4>3. QED
        BY <4>2
    <3>10. ASSUME NEW a \in A, from <= a, KeyLength(m, a) # 0
           PROVE  \E i \in 1 .. n + 1 : s[i] = a
      <4>1. CASE a = item
        <5>1. 1 \in 1 .. n + 1
          BY <3>8
        <5>2. QED
          BY <3>7, <4>1, <5>1
      <4>2. CASE a # item
        <5>1. next <= a
          BY <1>3, <2>5, <3>3, <3>10, <4>2
        <5>2. PICK i \in 1 .. n : t[i] = a
          BY <3>5, <3>6, <3>10, <5>1
        <5>3. i + 1 \in 1 .. n + 1 /\ s[i + 1] = a
          BY <3>7, <3>8, <5>2
        <5>4. QED
          BY <5>3
      <4>3. QED
        BY <4>1, <4>2
    <3>11. ASSUME NEW i \in 1 .. n + 1, NEW j \in 1 .. n + 1, i < j PROVE s[i] < s[j]
      <4>1. j # 1 /\ j - 1 \in 1 .. n /\ s[j] = t[j - 1]
        BY <3>8, <3>11
      <4>2. CASE i = 1
        <5>1. PICK x : x = t[j - 1]
          OBVIOUS
        <5>2. next <= x /\ x \in A
          BY <3>5, <3>6, <4>1, <5>1
        <5>3. x \in Nat /\ item \in Nat /\ next \in Nat /\ item < next
          BY <1>3, <2>5, <3>3, <5>2
        <5>4. item < x
          BY <5>2, <5>3
        <5>5. QED
          BY <3>7, <4>1, <4>2, <5>1, <5>4
      <4>3. CASE i # 1
        <5>1. i - 1 \in 1 .. n /\ s[i] = t[i - 1] /\ i - 1 < j - 1
          BY <3>8, <3>11, <4>3
        <5>2. QED
          BY <3>5, <3>6, <4>1, <5>1
      <4>4. QED
        BY <4>2, <4>3
    <3>12. Visited(m, A, from, s)
      BY <3>7, <3>9, <3>10, <3>11 DEF Visited
    <3>13. QED
      BY <3>2, <3>6, <3>12
  <2>6. QED
    BY <2>2, <2>4, <2>5
<1> HIDE DEF V
<1>5. 0 \in T
  BY <1>3
<1>6. ASSUME NEW k \in Nat, k \in T PROVE k + 1 \in T
  <2>1. ASSUME NEW a \in A \union {e}, e - a < k + 1 PROVE V(a)
    <3>1. ASSUME NEW b \in A \union {e}, a < b PROVE V(b)
      <4>1. e - b < k
        BY <1>3, <2>1, <3>1
      <4>2. QED
        BY <1>6, <4>1
    <3>2. QED
      BY <1>4, <3>1
  <2>2. QED
    BY <2>1
<1>7. Nat \subseteq T
  <2> HIDE DEF T
  <2>1. QED
    BY <1>5, <1>6, Counting
<1>8. 1 \in A \union {e} /\ e + 1 \in Nat /\ e - 1 < e + 1
  BY <1>3, Chained
<1>9. V(1)
  BY <1>7, <1>8
<1>10. QED
  BY <1>2, <1>9 DEF V

\* The keys that are stored are those of the items that foreach() visits ...
LEMMA VisitedKeys ==
  ASSUME NEW m, NEW A, NEW e, Table(m, A, e), NEW s, s = Foreach(m)
  PROVE  /\ {key \in Keys : Fetch(m, key) # <<>>} = {KeyOf(m, s[i]) : i \in 1 .. Len(s)}
         /\ \A i \in 1 .. Len(s) : GetBuffer(m, s[i]) = Fetch(m, KeyOf(m, s[i]))
<1>1. Visited(m, A, 1, s)
  BY ForeachOf
<1>2. ASSUME NEW i \in 1 .. Len(s)
      PROVE  /\ KeyOf(m, s[i]) \in Keys /\ Fetch(m, KeyOf(m, s[i])) # <<>>
             /\ GetBuffer(m, s[i]) = Fetch(m, KeyOf(m, s[i]))
  <2>1. PICK a : a = s[i]
    OBVIOUS
  <2>2. a \in A /\ KeyLength(m, a) # 0
    BY <1>1, <2>1 DEF Visited
  <2>3. PICK key : key = KeyOf(m, a)
    OBVIOUS
  <2>4. key \in Keys
    BY <2>2, <2>3 DEF Table
  <2>5. key \in Strings /\ key # <<>>
    BY <2>4, KeyFacts
  <2>6. Fetch(m, key) = GetBuffer(m, a) /\ GetBuffer(m, a) # <<>>
    BY <2>2, <2>3, <2>5, FetchOf
  <2>7. QED
    BY <2>1, <2>3, <2>4, <2>6
<1>3. ASSUME NEW key \in Keys, Fetch(m, key) # <<>>
      PROVE  \E i \in 1 .. Len(s) : key = KeyOf(m, s[i])
  <2>1. key \in Strings /\ key # <<>>
    BY KeyFacts
  <2>2. PICK a \in A : KeyOf(m, a) = key
    BY <1>3, <2>1, FetchOf
  <2>3. KeyLength(m, a) # 0 /\ 1 <= a
    BY <2>2, HoleHasNoKey, Items
  <2>4. PICK i \in 1 .. Len(s) : s[i] = a
    BY <1>1, <2>3 DEF Visited
  <2>5. QED
    BY <2>2, <2>4
<1>4. QED
  BY <1>2, <1>3

\* ... each of them once.
LEMMA VisitedOnce ==
  ASSUME NEW m, NEW A, NEW e, Table(m, A, e), NEW s, s = Foreach(m)
  PROVE  Len(s) = Cardinality({KeyOf(m, s[i]) : i \in 1 .. Len(s)})
<1> DEFINE S == 1 .. Len(s)
           T == {KeyOf(m, s[i]) : i \in 1 .. Len(s)}
<1>1. Visited(m, A, 1, s)
  BY ForeachOf
<1>2. Len(s) \in Nat /\ \A i \in S : s[i] \in A /\ KeyLength(m, s[i]) # 0
  BY <1>1 DEF Visited
<1>3. PICK f : f = [i \in S |-> KeyOf(m, s[i])]
  OBVIOUS
<1>4. \A i \in S : f[i] = KeyOf(m, s[i]) /\ f[i] \in T
  BY <1>3
<1>5. \A t \in T : \E i \in S : f[i] = t
  BY <1>3
<1>6. DOMAIN f = S /\ f \in [S -> T]
  BY <1>3
<1>7. ASSUME NEW i \in S, NEW j \in S, f[i] = f[j] PROVE i = j
  <2>1. PICK a, b : a = s[i] /\ b = s[j]
    OBVIOUS
  <2>2. a \in A /\ b \in A /\ KeyLength(m, a) # 0 /\ KeyOf(m, a) = KeyOf(m, b)
    BY <1>2, <1>4, <1>7, <2>1
  <2>3. a = b
    BY <2>2 DEF Table
  <2>4. a \in Nat
    BY <2>2, Items
  <2>5. ~ (i < j) /\ ~ (j < i)
    <3>1. i < j => a < b
      BY <1>1, <2>1 DEF Visited
    <3>2. j < i => b < a
      BY <1>1, <2>1 DEF Visited
    <3>3. QED
      BY <2>3, <2>4, <3>1, <3>2
  <2>6. i \in Int /\ j \in Int
    BY <1>2
  <2>7. QED
    BY <2>5, <2>6
<1>8. IsFiniteSet(S) /\ Cardinality(S) = Len(s)
  <2>1. PICK n : n = Len(s)
    OBVIOUS
  <2>2. n \in Nat /\ n \in Int /\ 1 \in Int
    BY <1>2, <2>1
  <2>3. IsFiniteSet(1 .. n) /\ Cardinality(1 .. n) = IF 1 > n THEN 0 ELSE n - 1 + 1
    BY <2>2, FS_Interval
  <2>4. (IF 1 > n THEN 0 ELSE n - 1 + 1) = n
    BY <2>2
  <2>5. QED
    BY <2>1, <2>3, <2>4
<1> HIDE DEF S, T
<1>9. f \in Bijection(S, T)
  <2>1. f \in Injection(S, T)
    BY <1>6, <1>7 DEF Injection, IsInjective
  <2>2. f \in Surjection(S, T)
    BY <1>5, <1>6 DEF Surjection
  <2>3. QED
    BY <2>1, <2>2 DEF Bijection
<1>10. ExistsBijection(S, T)
  BY <1>9 DEF ExistsBijection
<1>11. Cardinality(T) = Cardinality(S)
  BY <1>8, <1>10, FS_Bijection
<1>12. QED
  BY <1>8, <1>11 DEF T

\* foreach() returns.
LEMMA ForeachReturns ==
  ASSUME NEW m, NEW A, NEW e, Table(m, A, e)
  PROVE  Endless \notin ToSet(Foreach(m))
<1>1. PICK s : s = Foreach(m)
  OBVIOUS
<1>2. s \in Seq(A)
  BY <1>1, ForeachOf DEF Visited
<1>3. \A i \in DOMAIN s : s[i] \in A
  BY <1>2
<1>4. Endless \notin A
  <2>1. \A a \in A : a \in Nat
    BY Items
  <2>2. QED
    BY <2>1 DEF Endless
<1>5. QED
  BY <1>1, <1>3, <1>4 DEF ToSet

-----------------------------------------------------------------------------
(* The room that the items take *)

\* Every address below the end is in an item.
LEMMA Covered ==
  ASSUME NEW m, NEW A, NEW e, Table(m, A, e), NEW x \in Nat, 1 <= x, x < e
  PROVE  \E a \in A : a <= x /\ x < a + FullLength(m, a)
<1>1. /\ e \in Nat /\ \A a \in A \union {e} : a \in Nat
      /\ \A a \in A : FullLength(m, a) \in Nat /\ a + FullLength(m, a) \in A \union {e}
                      /\ 4 <= FullLength(m, a)
      /\ 1 \in A \union {e}
  BY Items, Chained
<1> DEFINE T == {k \in Nat : \E a \in A \union {e} : a <= x /\ k = x - a}
<1>2. T \subseteq Nat /\ T # {}
  <2>1. x - 1 \in T
    BY <1>1
  <2>2. QED
    BY <2>1
<1>3. PICK k \in T : \A i \in T : k <= i
  <2> HIDE DEF T
  <2>1. QED
    BY <1>2, Least
<1>4. PICK a \in A \union {e} : a <= x /\ k = x - a
  BY <1>3
<1>5. a \in A /\ a \in Nat
  BY <1>1, <1>4
<1>6. PICK b : b = a + FullLength(m, a)
  OBVIOUS
<1>7. b \in A \union {e} /\ b \in Nat /\ a < b
  BY <1>1, <1>5, <1>6
<1>8. ~ (b <= x)
  <2>1. SUFFICES ASSUME b <= x PROVE FALSE
    OBVIOUS
  <2>2. x - b \in T
    BY <1>7, <2>1
  <2>3. k <= x - b
    BY <1>3, <2>2
  <2>4. QED
    BY <1>4, <1>5, <1>7, <2>1, <2>3
<1>9. x < b
  BY <1>7, <1>8
<1>10. QED
  BY <1>4, <1>5, <1>6, <1>9

\* The length of an item is that of its key and its value.
LEMMA LengthOf ==
  ASSUME NEW m, NEW A, NEW e, Table(m, A, e), NEW a \in A, KeyLength(m, a) # 0
  PROVE  ItemLength(KeyOf(m, a), GetBuffer(m, a)) = FullLength(m, a)
<1> DEFINE n == FullLength(m, a)
           k == KeyLength(m, a)
<1>1. n \in Nat /\ k \in Nat /\ 3 + k < n
  BY Items, Chained
<1>2. Len(KeyOf(m, a)) = k
  BY <1>1, BytesLength DEF KeyOf
<1>3. Len(GetBuffer(m, a)) = n - 3 - k
  <2>1. n - HeaderSize - k \in Nat
    BY <1>1 DEF HeaderSize
  <2>2. Len(GetBuffer(m, a)) = n - HeaderSize - k
    BY <2>1, BytesLength DEF GetBuffer
  <2>3. QED
    BY <2>2 DEF HeaderSize
<1>4. ItemLength(KeyOf(m, a), GetBuffer(m, a)) = 3 + k + (n - 3 - k)
  BY <1>2, <1>3 DEF ItemLength, HeaderSize
<1> HIDE DEF n, k
<1>5. 3 + k + (n - 3 - k) = n
  BY <1>1
<1>6. QED
  BY <1>4, <1>5 DEF n, k

\* k is a key other than the given one, a the item in which it is kept.
Owner(m2, A2, key, k, a) == k \in Keys /\ k # key /\ a \in A2 /\ KeyOf(m2, a) = k

\* The keys that are kept when one is dropped
LEMMA KeptItems ==
  ASSUME NEW m, NEW A, NEW e, Table(m, A, e), NEW m2, NEW A2, NEW e2, Table(m2, A2, e2),
         NEW key \in Keys, Dropped(m, A, key, m2, A2), NEW k \in Keys, k # key
  PROVE  /\ Fetch(m, k) # <<>> => \E a : Owner(m2, A2, key, k, a)
         /\ \A a : Owner(m2, A2, key, k, a) =>
              /\ Fetch(m, k) # <<>> /\ FindItemByKey(m2, k) = a
              /\ ItemLength(k, Fetch(m, k)) = FullLength(m2, a)
<1>1. Fetch(m2, k) = Fetch(m, k)
  <2>1. Contents(m2)[k] = Contents(m)[k]
    <3>1. \A v : Holds(m, A, k, v) <=> Holds(m2, A2, k, v)
      BY DEF Dropped
    <3>2. QED
      BY <3>1, SameContents
  <2>2. QED
    BY <2>1 DEF Contents
<1>2. k \in Strings /\ k # <<>>
  BY KeyFacts
<1>3. ASSUME Fetch(m, k) # <<>> PROVE \E a : Owner(m2, A2, key, k, a)
  <2>1. PICK a \in A2 : KeyOf(m2, a) = k
    BY <1>1, <1>2, <1>3, FetchOf
  <2>2. QED
    BY <2>1 DEF Owner
<1>4. ASSUME NEW a, Owner(m2, A2, key, k, a)
      PROVE  /\ Fetch(m, k) # <<>> /\ FindItemByKey(m2, k) = a
             /\ ItemLength(k, Fetch(m, k)) = FullLength(m2, a)
  <2>1. a \in A2 /\ KeyOf(m2, a) = k
    BY <1>4 DEF Owner
  <2>2. /\ FindItemByKey(m2, k) = a /\ Fetch(m2, k) = GetBuffer(m2, a)
        /\ GetBuffer(m2, a) # <<>>
    BY <1>2, <2>1, FetchOf
  <2>3. KeyLength(m2, a) # 0
    BY <2>1, HoleHasNoKey
  <2>4. ItemLength(KeyOf(m2, a), GetBuffer(m2, a)) = FullLength(m2, a)
    BY <2>1, <2>3, LengthOf
  <2>5. QED
    BY <1>1, <2>1, <2>2, <2>4
<1>5. QED
  BY <1>3, <1>4

\* The bytes of the items that are kept
Room(m, key) ==
  UNION {{k} \X (1 .. ItemLength(k, Fetch(m, k))) : k \in {k \in Keys \ {key} : Fetch(m, k) # <<>>}}

\* A table without holes has them and no others.
LEMMA LiveOf ==
  ASSUME NEW m, NEW A, NEW e, Table(m, A, e), NEW m2, NEW A2, NEW e2, Table(m2, A2, e2),
         NEW key \in Keys, Dropped(m, A, key, m2, A2),
         \A a \in A2 : KeyLength(m2, a) # 0
  PROVE  Live(m, Keys \ {key}) = e2 - 1
<1> DEFINE U == Room(m, key)
           P == 1 .. e2 - 1
<1>1. /\ e2 \in Nat /\ 1 <= e2
      /\ \A a \in A2 \union {e2} : a \in Nat /\ 1 <= a
      /\ \A a \in A2 : FullLength(m2, a) \in Nat /\ a + FullLength(m2, a) <= e2
      /\ \A a \in A2 : \A b \in A2 \union {e2} : a < b => a + FullLength(m2, a) <= b
  BY Items, Chained
<1>2. ASSUME NEW k, NEW a, Owner(m2, A2, key, k, a), NEW i \in 1 .. FullLength(m2, a)
      PROVE  <<k, i>> \in U
  <2>1. k \in Keys \ {key} /\ Fetch(m, k) # <<>> /\ ItemLength(k, Fetch(m, k)) = FullLength(m2, a)
    BY <1>2, KeptItems DEF Owner
  <2>2. QED
    BY <2>1 DEF Room
<1>3. ASSUME NEW u \in U
      PROVE  \E k, a, i : /\ Owner(m2, A2, key, k, a) /\ i \in 1 .. FullLength(m2, a)
                          /\ u = <<k, i>> /\ FindItemByKey(m2, u[1]) + u[2] - 1 = a + i - 1
  <2>1. PICK k \in Keys \ {key} : Fetch(m, k) # <<>> /\ u \in {k} \X (1 .. ItemLength(k, Fetch(m, k)))
    BY <1>3 DEF Room
  <2>2. PICK i : i \in 1 .. ItemLength(k, Fetch(m, k)) /\ u = <<k, i>>
    BY <2>1
  <2>3. PICK a : Owner(m2, A2, key, k, a)
    BY <2>1, KeptItems
  <2>4. FindItemByKey(m2, k) = a /\ ItemLength(k, Fetch(m, k)) = FullLength(m2, a)
    BY <2>1, <2>3, KeptItems
  <2>5. QED
    BY <2>2, <2>3, <2>4
<1>4. PICK f : f = [u \in U |-> FindItemByKey(m2, u[1]) + u[2] - 1]
  OBVIOUS
<1> HIDE DEF U
<1>5. ASSUME NEW u \in U
      PROVE  \E k, a, i : /\ Owner(m2, A2, key, k, a) /\ i \in 1 .. FullLength(m2, a)
                          /\ u = <<k, i>> /\ f[u] = a + i - 1
  BY <1>3, <1>4
<1>6. f \in [U -> P]
  <2>1. ASSUME NEW u \in U PROVE f[u] \in P
    <3>1. PICK k, a, i : /\ Owner(m2, A2, key, k, a) /\ i \in 1 .. FullLength(m2, a)
                         /\ f[u] = a + i - 1
      BY <1>5
    <3>2. a \in A2
      BY <3>1 DEF Owner
    <3>3. PICK n : n = FullLength(m2, a)
      OBVIOUS
    <3>4. a \in Nat /\ 1 <= a /\ n \in Nat /\ a + n <= e2 /\ i \in 1 .. n
      BY <1>1, <3>1, <3>2, <3>3
    <3>5. a + i - 1 \in P
      BY <1>1, <3>4
    <3>6. QED
      BY <3>1, <3>5
  <2>2. QED
    BY <1>4, <2>1
<1>7. ASSUME NEW u \in U, NEW v \in U, f[u] = f[v] PROVE u = v
  <2>1. PICK k, a, i : /\ Owner(m2, A2, key, k, a) /\ i \in 1 .. FullLength(m2, a)
                       /\ u = <<k, i>> /\ f[u] = a + i - 1
    BY <1>5
  <2>2. PICK l, b, j : /\ Owner(m2, A2, key, l, b) /\ j \in 1 .. FullLength(m2, b)
                       /\ v = <<l, j>> /\ f[v] = b + j - 1
    BY <1>5
  <2>3. a \in A2 /\ b \in A2 /\ k = KeyOf(m2, a) /\ l = KeyOf(m2, b)
    BY <2>1, <2>2 DEF Owner
  <2>4. PICK n, p : n = FullLength(m2, a) /\ p = FullLength(m2, b)
    OBVIOUS
  <2>5. a \in Nat /\ b \in Nat /\ n \in Nat /\ p \in Nat /\ i \in 1 .. n /\ j \in 1 .. p
    BY <1>1, <2>1, <2>2, <2>3, <2>4
  <2>6. (a < b => a + n <= b) /\ (b < a => b + p <= a)
    BY <1>1, <2>3, <2>4
  <2>7. a + i - 1 = b + j - 1
    BY <1>7, <2>1, <2>2
  <2>8. a = b /\ i = j
    BY <2>5, <2>6, <2>7
  <2>9. QED
    BY <2>1, <2>2, <2>3, <2>8
<1>8. ASSUME NEW x \in P PROVE \E u \in U : f[u] = x
  <2>1. x \in Nat /\ 1 <= x /\ x < e2
    BY <1>1
  <2>2. PICK a \in A2 : a <= x /\ x < a + FullLength(m2, a)
    BY <2>1, Covered
  <2>3. PICK k, n, i : k = KeyOf(m2, a) /\ n = FullLength(m2, a) /\ i = x - a + 1
    OBVIOUS
  <2>4. a \in Nat /\ n \in Nat /\ i \in 1 .. n /\ a + i - 1 = x
    BY <1>1, <2>1, <2>2, <2>3
  <2>5. k \in Keys
    BY <2>3 DEF Table
  <2>6. k # key
    <3>1. Holds(m2, A2, k, GetBuffer(m2, a))
      BY <2>3 DEF Holds
    <3>2. QED
      BY <2>5, <3>1 DEF Dropped
  <2>7. Owner(m2, A2, key, k, a)
    BY <2>3, <2>5, <2>6 DEF Owner
  <2>8. <<k, i>> \in U
    BY <1>2, <2>3, <2>4, <2>7
  <2>9. f[<<k, i>>] = FindItemByKey(m2, k) + i - 1
    BY <1>4, <2>8
  <2>10. FindItemByKey(m2, k) = a
    BY <2>5, <2>6, <2>7, KeptItems
  <2>11. QED
    BY <2>4, <2>8, <2>9, <2>10
<1>9. IsFiniteSet(P) /\ Cardinality(P) = e2 - 1
  <2>1. e2 - 1 \in Int /\ 1 \in Int
    BY <1>1
  <2>2. IsFiniteSet(P) /\ Cardinality(P) = IF 1 > e2 - 1 THEN 0 ELSE e2 - 1 - 1 + 1
    BY <2>1, FS_Interval
  <2>3. (IF 1 > e2 - 1 THEN 0 ELSE e2 - 1 - 1 + 1) = e2 - 1
    BY <1>1
  <2>4. QED
    BY <2>2, <2>3
<1> HIDE DEF P
<1>10. f \in Injection(U, P) /\ f \in Surjection(U, P)
  <2>1. DOMAIN f = U
    BY <1>4
  <2>2. f \in Injection(U, P)
    BY <1>6, <1>7, <2>1 DEF Injection, IsInjective
  <2>3. QED
    BY <1>6, <1>8, <2>2 DEF Surjection
<1>11. Cardinality(U) = Cardinality(P)
  BY <1>9, <1>10, FS_Injection
<1>12. Live(m, Keys \ {key}) = Cardinality(U)
  BY Zenon DEF Live, Room, U
<1>13. QED
  BY <1>9, <1>11, <1>12

-----------------------------------------------------------------------------
(* Operations that stay within an item *)

\* The page writes that are left write what the memory will hold.
Settling(ws, m2) ==
  \A i \in 1 .. Len(ws) : \A k \in 1 .. Len(ws[i].bytes) :
    ws[i].bytes[k] = m2[ws[i].at + k - 1]

WritesIn(ws, lo, hi, m2) ==
  \A i \in 1 .. Len(ws) : \A k \in 1 .. Len(ws[i].bytes) :
    /\ lo <= ws[i].at + k - 1 /\ ws[i].at + k - 1 < hi
    /\ ws[i].bytes[k] = m2[ws[i].at + k - 1]

\* A write behind those of a run
LEMMA WritesOn ==
  ASSUME NEW m0, NEW run, RunOf(m0, run), NEW lo \in Nat, NEW at \in Nat, lo <= at,
         WritesIn(run.writes, lo, at, run.mem),
         NEW bytes \in Strings, bytes # <<>>, at + Len(bytes) <= MemorySize,
         NEW r, r = Write(run, at, bytes)
  PROVE  WritesIn(r.writes, lo, at + Len(bytes), r.mem)
<1>1. PICK ws, ps, m, m2 : ws = run.writes /\ ps = Pages(at, bytes) /\ m = run.mem /\ m2 = r.mem
  OBVIOUS
<1>2. Wrote(m0, run, at, bytes, r) /\ Covers(m, at, bytes, m2)
  BY <1>1, WroteMemory
<1>3. r.writes = ws \o ps /\ ws \in Seq(PageWrites) /\ m \in Memories
  BY <1>1, <1>2 DEF Wrote, RunOf
<1>4. /\ ps \in Seq(PageWrites)
      /\ \A i \in 1 .. Len(ps) :
           /\ at <= ps[i].at /\ ps[i].at + Len(ps[i].bytes) <= at + Len(bytes)
           /\ \A k \in 1 .. Len(ps[i].bytes) : ps[i].bytes[k] = bytes[ps[i].at - at + k]
  <2>1. ps \in Seq(PageWrites) /\ PartsOf(ps, at, bytes)
    BY <1>1, <1>3, PagesLead
  <2>2. QED
    BY <2>1 DEF PartsOf
<1>5. PICK n : n = Len(bytes) /\ n \in Nat
  BY StringFacts
<1>6. \A x \in Nat : x < at + n => m2[x] = IF at <= x THEN bytes[x - at + 1] ELSE m[x]
  <2>1. ASSUME NEW x \in Nat, x < at + n PROVE x \in Cells
    BY <1>5, <2>1, CellFacts
  <2>2. QED
    BY <1>2, <1>5, <2>1 DEF Covers
<1>7. PICK vs : vs = ws \o ps
  OBVIOUS
<1>8. /\ Len(ws) \in Nat /\ Len(ps) \in Nat /\ Len(vs) = Len(ws) + Len(ps)
      /\ \A i \in 1 .. Len(ws) + Len(ps) :
           vs[i] = IF i <= Len(ws) THEN ws[i] ELSE ps[i - Len(ws)]
  BY <1>3, <1>4, <1>7, ConcatProperties, LenProperties
<1>9. \A i \in 1 .. Len(ws) : ws[i] \in PageWrites
  BY <1>3
<1>10. \A i \in 1 .. Len(ps) : ps[i] \in PageWrites
  BY <1>4
<1>11. ASSUME NEW i \in 1 .. Len(ws), NEW k \in 1 .. Len(ws[i].bytes)
       PROVE  /\ lo <= ws[i].at + k - 1 /\ ws[i].at + k - 1 < at + n
              /\ ws[i].bytes[k] = m2[ws[i].at + k - 1]
  <2>1. PICK x : x = ws[i].at + k - 1
    OBVIOUS
  <2>2. lo <= x /\ x < at /\ ws[i].bytes[k] = m[x]
    BY <1>1, <2>1 DEF WritesIn
  <2>3. x \in Nat
    <3>1. ws[i].at \in Nat /\ ws[i].bytes \in Strings
      BY <1>9 DEF PageWrites
    <3>2. Len(ws[i].bytes) \in Nat
      BY <3>1, StringFacts
    <3>3. QED
      BY <2>1, <3>1, <3>2
  <2>4. x < at + n /\ ~ (at <= x)
    BY <1>5, <2>2, <2>3
  <2>5. m2[x] = m[x]
    BY <1>6, <2>3, <2>4
  <2>6. QED
    BY <2>1, <2>2, <2>4, <2>5
<1>12. ASSUME NEW i \in 1 .. Len(ps), NEW k \in 1 .. Len(ps[i].bytes)
       PROVE  /\ lo <= ps[i].at + k - 1 /\ ps[i].at + k - 1 < at + n
              /\ ps[i].bytes[k] = m2[ps[i].at + k - 1]
  <2>1. PICK x, y, l : x = ps[i].at + k - 1 /\ y = ps[i].at /\ l = Len(ps[i].bytes)
    OBVIOUS
  <2>2. y \in Nat /\ l \in Nat
    <3>1. ps[i].at \in Nat /\ ps[i].bytes \in Strings
      BY <1>10 DEF PageWrites
    <3>2. QED
      BY <2>1, <3>1, StringFacts
  <2>3. at <= y /\ y + l <= at + n /\ k \in 1 .. l /\ x = y + k - 1
    BY <1>4, <1>5, <2>1
  <2>4. x \in Nat /\ lo <= x /\ at <= x /\ x < at + n /\ x - at + 1 = y - at + k
    BY <1>5, <2>2, <2>3
  <2>5. m2[x] = bytes[x - at + 1]
    BY <1>6, <2>4
  <2>6. ps[i].bytes[k] = bytes[y - at + k]
    BY <1>4, <2>1
  <2>7. QED
    BY <2>1, <2>4, <2>5, <2>6
<1>13. ASSUME NEW i \in 1 .. Len(vs), NEW k \in 1 .. Len(vs[i].bytes)
       PROVE  /\ lo <= vs[i].at + k - 1 /\ vs[i].at + k - 1 < at + n
              /\ vs[i].bytes[k] = m2[vs[i].at + k - 1]
  <2>1. CASE i <= Len(ws)
    <3>1. i \in 1 .. Len(ws) /\ vs[i] = ws[i]
      BY <1>8, <2>1
    <3>2. QED
      BY <1>11, <3>1
  <2>2. CASE ~ (i <= Len(ws))
    <3>1. PICK j : j = i - Len(ws)
      OBVIOUS
    <3>2. j \in 1 .. Len(ps) /\ vs[i] = ps[j]
      BY <1>8, <2>2, <3>1
    <3>3. QED
      BY <1>12, <3>2
  <2>3. QED
    BY <2>1, <2>2
<1>14. WritesIn(vs, lo, at + n, m2)
  BY <1>13 DEF WritesIn
<1>15. QED
  BY <1>1, <1>3, <1>5, <1>7, <1>14

\* The memory m is between m0, in which the item a has the key, and m2, in which
\* it is a hole or has another value.
Between(m0, A, e, a, key, m, m2) ==
  /\ Table(m0, A, e) /\ Table(m2, A, e) /\ a \in A /\ key \in Keys /\ KeyOf(m0, a) = key
  /\ FullLength(m2, a) = FullLength(m0, a) /\ KeyLength(m2, a) \in {0, KeyLength(m0, a)}
  /\ \A x \in Cells : a + 3 <= x /\ x < a + 3 + KeyLength(m0, a) => m2[x] = m0[x]
  /\ Outside(m0, a, a + FullLength(m0, a), m2)
  /\ m \in Memories /\ \A x \in Cells : m[x] = m0[x] \/ m[x] = m2[x]

\* A memory with the bytes of the key has the key.
LEMMA KeptKey ==
  ASSUME NEW m0, NEW A, NEW e, Table(m0, A, e), NEW a \in A, KeyLength(m0, a) # 0, NEW m,
         KeyLength(m, a) = KeyLength(m0, a),
         \A x \in Cells : a + 3 <= x /\ x < a + 3 + KeyLength(m0, a) => m[x] = m0[x]
  PROVE  KeyOf(m, a) = KeyOf(m0, a)
<1>1. PICK n : n = KeyLength(m0, a)
  OBVIOUS
<1>2. /\ a \in Nat /\ n \in Nat /\ a + 3 + n < MemorySize /\ MemorySize \in Nat
  <2>1. /\ e \in Nat /\ MemorySize \in Nat /\ a \in Nat /\ n \in Nat
        /\ FullLength(m0, a) \in Nat /\ a + FullLength(m0, a) <= e /\ e + 3 <= MemorySize
        /\ 3 + n < FullLength(m0, a)
    BY <1>1, Items, Chained
  <2>2. QED
    BY <2>1
<1>3. ASSUME NEW i \in 1 .. n PROVE m[a + 3 + i - 1] = m0[a + 3 + i - 1]
  <2>1. a + 3 + i - 1 \in Nat /\ a + 3 <= a + 3 + i - 1 /\ a + 3 + i - 1 < a + 3 + n
        /\ a + 3 + i - 1 < MemorySize
    BY <1>2
  <2>2. a + 3 + i - 1 \in Cells
    BY <2>1, CellFacts
  <2>3. QED
    BY <1>1, <2>1, <2>2
<1>4. Bytes(m, a + 3, n) = Bytes(m0, a + 3, n)
  BY <1>3 DEF Bytes
<1>5. QED
  BY <1>1, <1>4 DEF KeyOf, HeaderSize

\* ... so it is a table too, and has the same values under all other keys.
LEMMA BetweenTable ==
  ASSUME NEW m0, NEW A, NEW e, NEW a, NEW key, NEW m, NEW m2, Between(m0, A, e, a, key, m, m2)
  PROVE  Table(m, A, e) /\ m[0] = m2[0]
<1>1. /\ Table(m0, A, e) /\ Table(m2, A, e) /\ a \in A /\ key \in Keys /\ KeyOf(m0, a) = key
      /\ FullLength(m2, a) = FullLength(m0, a) /\ KeyLength(m2, a) \in {0, KeyLength(m0, a)}
      /\ \A x \in Cells : a + 3 <= x /\ x < a + 3 + KeyLength(m0, a) => m2[x] = m0[x]
      /\ Outside(m0, a, a + FullLength(m0, a), m2)
      /\ m \in Memories /\ \A x \in Cells : m[x] = m0[x] \/ m[x] = m2[x]
  BY DEF Between
<1>2. PICK n : n = FullLength(m0, a)
  OBVIOUS
<1>3. /\ a \in Nat /\ 1 <= a /\ n \in Nat /\ 4 <= n /\ a + n <= e /\ e \in Nat
      /\ e + 3 <= MemorySize /\ MemorySize \in Nat /\ m0 \in Memories /\ m2 \in Memories
  BY <1>1, <1>2, Items
<1>4. \A x \in Cells : x < a \/ a + n <= x => m[x] = m0[x] /\ m2[x] = m0[x]
  BY <1>1, <1>2 DEF Outside
<1>5. Outside(m0, a, a + n, m)
  BY <1>1, <1>4 DEF Outside
<1>6. /\ a \in Cells /\ a + 1 \in Cells /\ a + 2 \in Cells /\ 0 \in Cells
      /\ e \in Cells /\ e + 1 \in Cells /\ 0 < a /\ a + n <= e + 1
  BY <1>3, CellFacts
<1>7. FullLength(m, a) = n
  <2>1. PICK x, y, x2, y2 : x = m0[a] /\ y = m0[a + 1] /\ x2 = m2[a] /\ y2 = m2[a + 1]
    OBVIOUS
  <2>2. x \in 0 .. 255 /\ y \in 0 .. 255 /\ x2 \in 0 .. 255 /\ y2 \in 0 .. 255
    BY <1>3, <1>6, <2>1 DEF Memories
  <2>3. x + 256 * y = x2 + 256 * y2
    BY <1>1, <2>1 DEF FullLength
  <2>4. x = x2 /\ y = y2
    BY <2>2, <2>3
  <2>5. m[a] = m0[a] /\ m[a + 1] = m0[a + 1]
    BY <1>1, <1>6, <2>1, <2>4
  <2>6. QED
    BY <1>2, <2>5 DEF FullLength
<1>8. KeyLength(m0, a) # 0
  BY <1>1, HoleHasNoKey
<1>9. KeyLength(m, a) = 0 \/ (KeyLength(m, a) = KeyLength(m0, a) /\ KeyOf(m, a) = KeyOf(m0, a))
  <2>1. KeyLength(m, a) = 0 \/ KeyLength(m, a) = KeyLength(m0, a)
    BY <1>1, <1>6 DEF KeyLength
  <2>2. \A x \in Cells : a + 3 <= x /\ x < a + 3 + KeyLength(m0, a) => m[x] = m0[x]
    BY <1>1
  <2>3. QED
    BY <1>1, <1>8, <2>1, <2>2, KeptKey
<1>10. IsEnd(m, e)
  <2>1. m[e] = m0[e] /\ m[e + 1] = m0[e + 1]
    BY <1>3, <1>4, <1>6
  <2>2. IsEnd(m0, e)
    BY <1>1, Chained
  <2>3. QED
    BY <2>1, <2>2 DEF IsEnd, FullLength
<1>11. ASSUME NEW b \in A
       PROVE  /\ FullLength(m, b) = FullLength(m0, b)
              /\ \/ KeyLength(m, b) = 0
                 \/ KeyLength(m, b) = KeyLength(m0, b) /\ KeyOf(m, b) = KeyOf(m0, b)
  <2>1. CASE b = a
    BY <1>2, <1>7, <1>9, <2>1
  <2>2. CASE b # a
    <3>1. b + FullLength(m0, b) <= a \/ a + n <= b
      <4>1. (b < a => b + FullLength(m0, b) <= a) /\ (a < b => a + n <= b)
        BY <1>1, <1>2, Chained
      <4>2. b \in Nat
        BY <1>1, Items
      <4>3. QED
        BY <1>3, <2>2, <4>1, <4>2
    <3>2. a + n \in Nat
      BY <1>3
    <3>3. SameAs(m0, b, m, b)
      BY <1>1, <1>3, <1>5, <3>1, <3>2, Untouched
    <3>4. QED
      BY <3>3 DEF SameAs
  <2>3. QED
    BY <2>1, <2>2
<1>12. Table(m, A, e)
  BY <1>1, <1>10, <1>11, SameChain
<1>13. m[0] = m2[0]
  BY <1>4, <1>6
<1>14. QED
  BY <1>12, <1>13

\* A memory between the old and the new one holds all other keys as the new one does.
LEMMA BetweenHolds ==
  ASSUME NEW m0, NEW A, NEW e, NEW a, NEW key, NEW m, NEW m2, Between(m0, A, e, a, key, m, m2),
         NEW k \in Keys, k # key, NEW v
  PROVE  Holds(m2, A, k, v) <=> Holds(m, A, k, v)
<1>1. /\ Table(m0, A, e) /\ a \in A /\ KeyOf(m0, a) = key
      /\ KeyLength(m2, a) \in {0, KeyLength(m0, a)}
      /\ \A x \in Cells : a + 3 <= x /\ x < a + 3 + KeyLength(m0, a) => m2[x] = m0[x]
      /\ Outside(m0, a, a + FullLength(m0, a), m2)
      /\ m \in Memories /\ \A x \in Cells : m[x] = m0[x] \/ m[x] = m2[x]
      /\ key \in Keys
  BY DEF Between
<1>2. PICK n : n = FullLength(m0, a)
  OBVIOUS
<1>3. a \in Nat /\ n \in Nat /\ a + n \in Nat /\ KeyLength(m0, a) # 0 /\ a + 2 \in Cells
  <2>1. a \in Nat /\ n \in Nat /\ a + 2 < MemorySize
    BY <1>1, <1>2, Items
  <2>2. a + n \in Nat /\ a + 2 \in Nat
    BY <2>1
  <2>3. a + 2 \in Cells
    BY <2>1, <2>2, CellFacts
  <2>4. QED
    BY <1>1, <2>1, <2>2, <2>3, HoleHasNoKey
<1>4. Outside(m0, a, a + n, m) /\ Outside(m0, a, a + n, m2)
  BY <1>1, <1>2 DEF Outside
<1>5. ASSUME NEW w, KeyLength(w, a) = 0 \/ KeyLength(w, a) = KeyLength(m0, a),
             \A x \in Cells : a + 3 <= x /\ x < a + 3 + KeyLength(m0, a) => w[x] = m0[x]
      PROVE  KeyOf(w, a) # k
  <2>1. CASE KeyLength(w, a) = 0
    BY <2>1, HoleHasNoKey
  <2>2. CASE KeyLength(w, a) = KeyLength(m0, a)
    BY <1>1, <1>3, <1>5, <2>2, KeptKey
  <2>3. QED
    BY <1>5, <2>1, <2>2
<1>6. KeyOf(m, a) # k /\ KeyOf(m2, a) # k
  <2>1. KeyLength(m, a) = 0 \/ KeyLength(m, a) = KeyLength(m0, a)
    BY <1>1, <1>3 DEF KeyLength
  <2>2. QED
    BY <1>1, <1>5, <2>1
<1>7. ASSUME NEW b \in A, b # a
      PROVE  KeyOf(m, b) = KeyOf(m2, b) /\ GetBuffer(m, b) = GetBuffer(m2, b)
  <2>1. b + FullLength(m0, b) <= a \/ a + n <= b
    <3>1. (b < a => b + FullLength(m0, b) <= a) /\ (a < b => a + n <= b)
      BY <1>1, <1>2, Chained
    <3>2. b \in Nat
      BY <1>1, Items
    <3>3. QED
      BY <1>3, <1>7, <3>1, <3>2
  <2>2. SameAs(m0, b, m, b) /\ SameAs(m0, b, m2, b)
    BY <1>1, <1>3, <1>4, <2>1, Untouched
  <2>3. QED
    BY <2>2 DEF SameAs
<1>8. QED
  BY <1>6, <1>7 DEF Holds

\* An operation on the item of a key that is not finished
Halfway(m, ws, m2, key) ==
  \E m0, A, e, a : Between(m0, A, e, a, key, m, m2) /\ Settling(ws, m2)

\* ... and its next page write
LEMMA HalfwayOn ==
  ASSUME NEW m, NEW ws \in Seq(PageWrites), ws # <<>>, NEW m2, NEW key, Halfway(m, ws, m2, key),
         Apply(m, Head(ws)) \in Memories
  PROVE  Halfway(Apply(m, Head(ws)), Tail(ws), m2, key)
<1>1. PICK m0, A, e, a : Between(m0, A, e, a, key, m, m2) /\ Settling(ws, m2)
  BY DEF Halfway
<1>2. PICK w, n : w = Apply(m, Head(ws)) /\ n = Len(ws)
  OBVIOUS
<1>3. /\ n \in Nat \ {0} /\ Head(ws) = ws[1] /\ Len(Tail(ws)) = n - 1
      /\ \A i \in 1 .. n - 1 : Tail(ws)[i] = ws[i + 1]
  BY <1>2, EmptySeq, LenProperties, HeadTailProperties
<1>4. Settling(Tail(ws), m2)
  <2>1. \A i \in 1 .. n - 1 : i + 1 \in 1 .. n
    BY <1>3
  <2>2. QED
    BY <1>1, <1>2, <1>3, <2>1 DEF Settling
<1>5. \A x \in Cells : w[x] = m0[x] \/ w[x] = m2[x]
  <2>1. \A x \in Cells : m[x] = m0[x] \/ m[x] = m2[x]
    BY <1>1 DEF Between
  <2>2. DOMAIN m = Cells
    BY <1>1 DEF Between, Memories
  <2>3. PICK at, bytes, l : at = ws[1].at /\ bytes = ws[1].bytes /\ l = Len(bytes)
    OBVIOUS
  <2>4. 1 \in 1 .. n /\ ws[1] \in PageWrites
    BY <1>2, <1>3
  <2>5. at \in Nat /\ bytes \in Strings /\ l \in Nat
    BY <2>3, <2>4, StringFacts DEF PageWrites
  <2>6. \A k \in 1 .. l : bytes[k] = m2[at + k - 1]
    BY <1>1, <1>2, <2>3, <2>4 DEF Settling
  <2>7. \A x \in Cells : w[x] = IF x \in at .. at + l - 1 THEN bytes[x - at + 1] ELSE m[x]
    BY <1>2, <1>3, <2>2, <2>3 DEF Apply
  <2>8. ASSUME NEW x \in Cells, x \in at .. at + l - 1 PROVE w[x] = m2[x]
    <3>1. x - at + 1 \in 1 .. l /\ at + (x - at + 1) - 1 = x
      BY <2>5, <2>8
    <3>2. QED
      BY <2>6, <2>7, <2>8, <3>1
  <2>9. QED
    BY <2>1, <2>7, <2>8
<1>6. Between(m0, A, e, a, key, w, m2)
  BY <1>1, <1>2, <1>5 DEF Between
<1>7. QED
  BY <1>2, <1>4, <1>6 DEF Halfway

\* Writes in order of their addresses are settling.
LEMMA SettlingOf ==
  ASSUME NEW ws, NEW lo, NEW hi, NEW m2, WritesIn(ws, lo, hi, m2)
  PROVE  Settling(ws, m2)
BY DEF WritesIn, Settling

\* writeItem() and the write of a hole are.
LEMMA WriteItemSettles ==
  ASSUME NEW m0, NEW run, RunOf(m0, run), run.writes = <<>>, NEW at \in Nat,
         NEW key \in Keys, NEW value \in Values, at + ItemLength(key, value) <= MemorySize,
         NEW r, r = WriteItem(run, at, key, value)
  PROVE  Settling(r.writes, r.mem)
<1>1. PICK full, n, v, h, r1, r2 :
        /\ full = ItemLength(key, value) /\ n = Len(key) /\ v = Len(value)
        /\ h = Header(full, n) /\ r1 = Write(run, at, h) /\ r2 = Write(r1, at + 3, key)
  OBVIOUS
<1>2. /\ MemorySize \in Nat /\ MemorySize <= 65535
      /\ full \in Nat /\ full = 3 + n + v /\ n \in Nat /\ v \in Nat /\ 1 <= n /\ n <= 255 /\ 1 <= v
      /\ key \in Strings /\ key # <<>> /\ value \in Strings /\ value # <<>>
      /\ at + full <= MemorySize
  <2>1. MemorySize \in Nat /\ MemorySize <= 65535
    BY SizeAssumption
  <2>2. key \in Strings /\ key # <<>> /\ n \in Nat /\ 1 <= n /\ n <= 255
    BY <1>1, KeyFacts
  <2>3. value \in Strings /\ value # <<>> /\ v \in Nat /\ 1 <= v
    BY <1>1, ValueFacts
  <2>4. full \in Nat /\ full = 3 + n + v
    BY <1>1, ItemLengths
  <2>5. at + full <= MemorySize
    BY <1>1
  <2>6. QED
    BY <2>1, <2>2, <2>3, <2>4, <2>5
<1>3. r = Write(r2, at + 3 + n, value)
  BY <1>1, Zenon DEF WriteItem, HeaderSize
<1>4. h \in Strings /\ Len(h) = 3 /\ h # <<>>
  <2>1. full <= 65535
    BY <1>2
  <2>2. QED
    BY <1>1, <1>2, <2>1, HeaderFacts
<1>5. /\ at + 3 \in Nat /\ at + 3 + n \in Nat /\ at <= at /\ at <= at + 3 /\ at <= at + 3 + n
      /\ at + 3 <= MemorySize /\ at + 3 + n <= MemorySize /\ at + 3 + n + v <= MemorySize
  BY <1>2
<1>6. RunOf(m0, r1) /\ WritesIn(r1.writes, at, at + 3, r1.mem)
  <2>1. WritesIn(run.writes, at, at, run.mem)
    <3>1. Len(<<>>) = 0 /\ \A i : i \notin 1 .. 0
      OBVIOUS
    <3>2. QED
      BY <3>1 DEF WritesIn
  <2>2. at + Len(h) <= MemorySize
    BY <1>4, <1>5
  <2>3. WritesIn(r1.writes, at, at + Len(h), r1.mem)
    BY <1>1, <1>4, <1>5, <2>1, <2>2, WritesOn
  <2>4. Wrote(m0, run, at, h, r1)
    BY <1>1, <1>4, <2>2, WroteMemory
  <2>5. QED
    BY <1>4, <2>3, <2>4 DEF Wrote
<1>7. RunOf(m0, r2) /\ WritesIn(r2.writes, at, at + 3 + n, r2.mem)
  <2>1. at + 3 + Len(key) <= MemorySize
    BY <1>1, <1>5
  <2>2. WritesIn(r2.writes, at, at + 3 + Len(key), r2.mem)
    <3>1. PICK b : b = at + 3
      OBVIOUS
    <3>2. b \in Nat /\ at <= b /\ b + Len(key) <= MemorySize
      BY <1>5, <2>1, <3>1
    <3>3. WritesIn(r1.writes, at, b, r1.mem) /\ r2 = Write(r1, b, key)
      BY <1>1, <1>6, <3>1
    <3>4. key \in Strings /\ key # <<>> /\ RunOf(m0, r1)
      BY <1>2, <1>6
    <3>5. WritesIn(r2.writes, at, b + Len(key), r2.mem)
      BY <3>2, <3>3, <3>4, WritesOn
    <3>6. QED
      BY <3>1, <3>5
  <2>3. Wrote(m0, r1, at + 3, key, r2)
    BY <1>1, <1>2, <1>5, <1>6, <2>1, WroteMemory
  <2>4. QED
    BY <1>1, <2>2, <2>3 DEF Wrote
<1>8. WritesIn(r.writes, at, at + 3 + n + Len(value), r.mem)
  <2>1. at + 3 + n + Len(value) <= MemorySize
    BY <1>1, <1>5
  <2>2. PICK b : b = at + 3 + n
    OBVIOUS
  <2>3. b \in Nat /\ at <= b /\ b + Len(value) <= MemorySize
    BY <1>5, <2>1, <2>2
  <2>4. WritesIn(r2.writes, at, b, r2.mem) /\ r = Write(r2, b, value)
    BY <1>3, <1>7, <2>2
  <2>5. value \in Strings /\ value # <<>> /\ RunOf(m0, r2)
    BY <1>2, <1>7
  <2>6. WritesIn(r.writes, at, b + Len(value), r.mem)
    BY <2>3, <2>4, <2>5, WritesOn
  <2>7. QED
    BY <2>2, <2>6
<1>9. QED
  BY <1>8, SettlingOf

\* The writes of a hole write what the memory will be.
LEMMA WriteHoleSettles ==
  ASSUME NEW m0, NEW run, RunOf(m0, run), run.writes = <<>>, NEW at \in Nat,
         NEW full \in Nat, full <= 65535, at + 3 <= MemorySize,
         NEW r, r = WriteHole(run, at, full)
  PROVE  Settling(r.writes, r.mem)
<1>1. PICK h : h = Header(full, 0)
  OBVIOUS
<1>2. h \in Strings /\ Len(h) = 3 /\ h # <<>>
  BY <1>1, HeaderFacts
<1>3. r = Write(run, at, h)
  BY <1>1 DEF WriteHole
<1>4. WritesIn(run.writes, at, at, run.mem)
  <2>1. Len(<<>>) = 0 /\ \A i : i \notin 1 .. 0
    OBVIOUS
  <2>2. QED
    BY <2>1 DEF WritesIn
<1>5. at + Len(h) <= MemorySize /\ at <= at
  BY <1>2
<1>6. WritesIn(r.writes, at, at + Len(h), r.mem)
  <2>1. h \in Strings /\ h # <<>>
    BY <1>2
  <2>2. QED
    BY <1>3, <1>4, <1>5, <2>1, WritesOn
<1>7. QED
  BY <1>6, SettlingOf

\* A store that writes over the item of its key
LEMMA StoreHalfway ==
  ASSUME NEW m, NEW A, NEW e, Table(m, A, e), NEW a \in A, NEW key \in Keys, NEW value \in Values,
         KeyOf(m, a) = key, KeyLength(m, a) = Len(key), FullLength(m, a) = ItemLength(key, value),
         NEW run, RunOf(m, run), run.mem = m, run.writes = <<>>,
         NEW r, r = WriteItem(run, a, key, value)
  PROVE  Halfway(m, r.writes, r.mem, key)
<1>1. PICK full, n, m2 : full = ItemLength(key, value) /\ n = Len(key) /\ m2 = r.mem
  OBVIOUS
<1>2. /\ MemorySize \in Nat /\ m \in Memories /\ a \in Nat /\ full \in Nat /\ 3 + n < full
      /\ a + full <= e /\ e \in Nat /\ e + 3 <= MemorySize /\ n \in Nat
  BY <1>1, Items, ItemLengths, KeyFacts
<1>3. a + ItemLength(key, value) <= MemorySize
  BY <1>1, <1>2
<1>4. Settling(r.writes, m2)
  <2>1. a \in Nat
    BY <1>2
  <2>2. Settling(r.writes, r.mem)
    BY <1>3, <2>1, WriteItemSettles
  <2>3. QED
    BY <1>1, <2>2
<1>5. Outside(m, a, a + FullLength(m, a), m2) /\ ItemAt(m2, a, key, value)
  <2>1. a \in Nat
    BY <1>2
  <2>2. Outside(run.mem, a, a + ItemLength(key, value), r.mem) /\ ItemAt(r.mem, a, key, value)
    BY <1>3, <2>1, WriteItemOf
  <2>3. QED
    BY <1>1, <2>2
<1>6. Table(m2, A, e)
  BY <1>1, InPlaceOf
<1>7. FullLength(m2, a) = FullLength(m, a) /\ KeyLength(m2, a) = n /\ KeyLength(m, a) = n
      /\ Bytes(m2, a + 3, n) = Bytes(m, a + 3, n)
  BY <1>1, <1>5 DEF ItemAt, KeyOf, HeaderSize
<1>8. ASSUME NEW x \in Cells, a + 3 <= x, x < a + 3 + n PROVE m2[x] = m[x]
  <2>1. PICK i : i = x - (a + 3) + 1
    OBVIOUS
  <2>2. i \in 1 .. n /\ a + 3 + i - 1 = x
    BY <1>2, <1>8, <2>1, CellFacts
  <2>3. Bytes(m2, a + 3, n)[i] = m2[a + 3 + i - 1] /\ Bytes(m, a + 3, n)[i] = m[a + 3 + i - 1]
    BY <1>2, <2>2, BytesLength
  <2>4. QED
    BY <1>7, <2>2, <2>3
<1>9. Between(m, A, e, a, key, m, m2)
  BY <1>2, <1>5, <1>6, <1>7, <1>8 DEF Between
<1>10. QED
  BY <1>1, <1>4, <1>9 DEF Halfway

\* A delete
LEMMA DeleteHalfway ==
  ASSUME NEW m, NEW A, NEW e, Table(m, A, e), NEW a \in A, NEW key \in Keys, KeyOf(m, a) = key,
         NEW run, RunOf(m, run), run.mem = m, run.writes = <<>>,
         NEW r, r = WriteHole(run, a, FullLength(m, a))
  PROVE  Halfway(m, r.writes, r.mem, key)
<1>1. PICK n, m2 : n = FullLength(m, a) /\ m2 = r.mem
  OBVIOUS
<1>2. /\ MemorySize \in Nat /\ MemorySize <= 65535 /\ m \in Memories /\ a \in Nat
      /\ n \in Nat /\ 4 <= n /\ a + n <= e /\ e \in Nat /\ e + 3 <= MemorySize
  BY <1>1, Items, SizeAssumption
<1>3. Settling(r.writes, m2)
  <2>1. n \in Nat /\ n <= 65535 /\ a \in Nat /\ a + 3 <= MemorySize
    BY <1>2
  <2>2. r = WriteHole(run, a, n)
    BY <1>1
  <2>3. Settling(r.writes, r.mem)
    BY <2>1, <2>2, WriteHoleSettles
  <2>4. QED
    BY <1>1, <2>3
<1>4. RunOf(m, r) /\ Table(m2, A, e) /\ KeyLength(m2, a) = 0
  BY <1>1, HoleMadeOf DEF HoleMade, GoesOn
<1>5. \A x \in Cells : m2[x] = IF x = a + 2 THEN 0 ELSE m[x]
  <2>1. Unkeyed(m, a, r.mem)
    BY HoleOf
  <2>2. QED
    BY <1>1, <2>1 DEF Unkeyed
<1>6. \A x \in Cells : x # a + 2 => m2[x] = m[x]
  BY <1>5
<1>7. FullLength(m2, a) = FullLength(m, a)
  <2>1. a \in Cells /\ a + 1 \in Cells /\ a # a + 2 /\ a + 1 # a + 2
    BY <1>2, CellFacts
  <2>2. QED
    BY <1>6, <2>1 DEF FullLength
<1>8. \A x \in Cells : a + 3 <= x => m2[x] = m[x]
  <2>1. \A x \in Cells : a + 3 <= x => x # a + 2
    BY <1>2, CellFacts
  <2>2. QED
    BY <1>6, <2>1
<1>9. Outside(m, a, a + FullLength(m, a), m2)
  <2>1. \A x \in Cells : x < a \/ a + n <= x => x # a + 2
    BY <1>2, CellFacts
  <2>2. m2 \in Memories
    BY <1>4, Items
  <2>3. QED
    BY <1>1, <1>6, <2>1, <2>2 DEF Outside
<1>10. Between(m, A, e, a, key, m, m2)
  BY <1>2, <1>4, <1>7, <1>8, <1>9 DEF Between
<1>11. QED
  BY <1>1, <1>3, <1>10 DEF Halfway

\* The last of the writes ends behind the item of the key, if there are any.
LastBehind(ws, m2, key) ==
  \/ ws = <<>>
  \/ ~ (ws[Len(ws)].at + Len(ws[Len(ws)].bytes)
          <= FindItemByKey(m2, key) + FullLength(m2, FindItemByKey(m2, key)))

\* The last write stays the last when the first is done.
LEMMA LastBehindOn ==
  ASSUME NEW ws \in Seq(PageWrites), ws # <<>>, NEW m2, NEW key, LastBehind(ws, m2, key)
  PROVE  LastBehind(Tail(ws), m2, key)
<1>1. PICK n, t : n = Len(ws) /\ t = Tail(ws)
  OBVIOUS
<1>2. /\ n \in Nat \ {0} /\ Len(t) = n - 1 /\ t \in Seq(PageWrites)
      /\ \A i \in 1 .. n - 1 : t[i] = ws[i + 1]
  BY <1>1, EmptySeq, LenProperties, HeadTailProperties
<1>3. CASE t = <<>>
  BY <1>1, <1>3 DEF LastBehind
<1>4. CASE t # <<>>
  <2>1. n - 1 # 0
    BY <1>2, <1>4, EmptySeq
  <2>2. n - 1 \in 1 .. n - 1 /\ (n - 1) + 1 = n
    BY <1>2, <2>1
  <2>3. t[Len(t)] = ws[Len(ws)]
    BY <1>1, <1>2, <2>2
  <2>4. QED
    BY <1>1, <2>3 DEF LastBehind
<1>5. QED
  BY <1>3, <1>4

\* That of an item behind the others writes the end tag.
LEMMA AppendLast ==
  ASSUME NEW m0, NEW run, RunOf(m0, run), NEW m, m = run.mem, NEW A, NEW e, Table(m, A, e),
         NEW key \in Keys, NEW value \in Values, \A a \in A : KeyOf(m, a) # key,
         Fits(e, key, value), NEW r, r = AppendAt(run, e, key, value)
  PROVE  LastBehind(r.writes, r.mem, key)
<1>1. PICK full, r1, m2 :
        full = ItemLength(key, value) /\ r1 = WriteItem(run, e, key, value) /\ m2 = r.mem
  OBVIOUS
<1>2. /\ MemorySize \in Nat /\ full \in Nat /\ e \in Nat /\ e + full + 2 < MemorySize
  <2>1. e + full + 2 < MemorySize
    BY <1>1 DEF Fits, EndTagLength
  <2>2. QED
    BY <1>1, <2>1, Items, ItemLengths
<1>3. r = WriteEnd(r1, e + full)
  BY <1>1, Zenon DEF AppendAt
<1>4. RunOf(m0, r1)
  <2>1. e + ItemLength(key, value) <= MemorySize
    BY <1>1, <1>2
  <2>2. GoesOn(m0, run, r1)
    BY <1>1, <1>2, <2>1, WriteItemOf
  <2>3. QED
    BY <2>2 DEF GoesOn
<1>5. r.writes = r1.writes \o Pages(e + full, EndBytes)
  <2>1. e + full \in Nat /\ e + full + 2 <= MemorySize
    BY <1>2
  <2>2. QED
    BY <1>3, <1>4, <2>1, WriteEndOf
<1>6. PICK ws, ps : ws = r1.writes /\ ps = Pages(e + full, EndBytes)
  OBVIOUS
<1>7. ws \in Seq(PageWrites)
  BY <1>4, <1>6 DEF RunOf
<1>8. /\ ps \in Seq(PageWrites) /\ Len(ps) \in Nat \ {0}
      /\ ps[Len(ps)].at + Len(ps[Len(ps)].bytes) = e + full + 2
  <2>1. EndBytes \in Strings /\ Len(EndBytes) = 2 /\ EndBytes # <<>>
    <3>1. EndBytes = <<255, 255>>
      BY DEF EndBytes, EndTag
    <3>2. <<255, 255>> \in Seq(0 .. 255)
      OBVIOUS
    <3>3. QED
      BY <3>1, <3>2 DEF Strings
  <2>2. e + full \in Nat /\ e + full + Len(EndBytes) <= MemorySize
    BY <1>2, <2>1
  <2>3. m \in Memories
    BY Items
  <2>4. /\ ps \in Seq(PageWrites) /\ Len(ps) \in Nat \ {0}
        /\ ps[Len(ps)].at + Len(ps[Len(ps)].bytes) = e + full + Len(EndBytes)
    <3>1. PICK at : at = e + full
      OBVIOUS
    <3>2. at \in Nat /\ at + Len(EndBytes) <= MemorySize /\ ps = Pages(at, EndBytes)
      BY <1>6, <2>2, <3>1
    <3>3. EndBytes \in Strings /\ EndBytes # <<>>
      BY <2>1
    <3>4. PICK bytes : bytes = EndBytes
      OBVIOUS
    <3>5. ps \in Seq(PageWrites) /\ Len(ps) \in Nat \ {0}
      BY <2>3, <3>2, <3>3, <3>4, PagesLead
    <3>6. ps[Len(ps)].at + Len(ps[Len(ps)].bytes) = at + Len(bytes)
      BY <2>3, <3>2, <3>3, <3>4, PagesLead
    <3>7. QED
      BY <3>1, <3>4, <3>5, <3>6
  <2>5. QED
    BY <2>1, <2>4
<1>9. PICK vs : vs = ws \o ps
  OBVIOUS
<1>10. vs[Len(vs)] = ps[Len(ps)]
  <2>1. /\ Len(ws) \in Nat /\ Len(vs) = Len(ws) + Len(ps)
        /\ \A i \in 1 .. Len(ws) + Len(ps) :
             vs[i] = IF i <= Len(ws) THEN ws[i] ELSE ps[i - Len(ws)]
    BY <1>7, <1>8, <1>9, ConcatProperties, LenProperties
  <2>2. PICK j : j = Len(ws) + Len(ps)
    OBVIOUS
  <2>3. j \in 1 .. Len(ws) + Len(ps) /\ ~ (j <= Len(ws)) /\ j - Len(ws) = Len(ps)
    BY <1>8, <2>1, <2>2
  <2>4. QED
    BY <2>1, <2>2, <2>3
<1>11. FindItemByKey(m2, key) = e /\ FullLength(m2, e) = full
  <2>1. ItemAt(m2, e, key, value) /\ Table(m2, A \union {e}, e + ItemLength(key, value))
    BY <1>1, AppendOf
  <2>2. key \in Strings /\ key # <<>>
    BY KeyFacts
  <2>3. KeyOf(m2, e) = key /\ FullLength(m2, e) = full
    BY <1>1, <2>1 DEF ItemAt
  <2>4. QED
    BY <2>1, <2>2, <2>3, FetchOf
<1>12. ~ (e + full + 2 <= e + full)
  BY <1>2
<1>13. r.writes = vs
  BY <1>5, <1>6, <1>9
<1>14. QED
  BY <1>1, <1>8, <1>10, <1>11, <1>12, <1>13 DEF LastBehind

-----------------------------------------------------------------------------
(* The storage *)

\* The table that an operation leaves behind is a table, and the writes that are
\* still to be done lead to it.
DictInv ==
  /\ writes \in Seq(PageWrites) /\ Leads(mem, writes, settled)
  /\ (call = NoCall => writes = <<>>)
  /\ hung = FALSE
  /\ \E A, e : Table(settled, A, e)

\* While no call is served the memory is the settled one.
LEMMA FreeTable ==
  ASSUME DictInv, MutexFree
  PROVE  mem = settled /\ mem \in Memories /\ \E A, e : Table(mem, A, e)
<1>1. PICK A, e : Table(settled, A, e)
  BY DEF DictInv
<1>2. settled \in Memories
  BY <1>1, Items
<1>3. writes = <<>> /\ Leads(mem, <<>>, settled)
  BY DEF DictInv, MutexFree
<1>4. mem \in Memories
  <2>1. PICK t \in [0 .. Len(<<>>) -> Memories] : t[0] = mem
    BY <1>3 DEF Leads
  <2>2. 0 \in 0 .. Len(<<>>)
    OBVIOUS
  <2>3. QED
    BY <2>1, <2>2
<1>5. mem = settled
  BY <1>3, <1>4, LeadsNowhere
<1>6. QED
  BY <1>1, <1>4, <1>5

\* An erased memory is a table without items.
LEMMA DictInit == Init => DictInv
<1> SUFFICES ASSUME Init PROVE DictInv
  OBVIOUS
<1>1. mem = [address \in Cells |-> 255] /\ writes = <<>> /\ settled = mem /\ hung = FALSE
  BY DEF Init, Cells
<1>2. mem \in Memories
  BY <1>1 DEF Memories
<1>3. IsEnd(mem, 1)
  <2>1. 1 \in Cells /\ 2 \in Cells
    BY SizeAssumption DEF Cells
  <2>2. mem[1] = 255 /\ mem[2] = 255
    BY <1>1, <2>1
  <2>3. FullLength(mem, 1) = 255 + 256 * 255
    BY <2>2 DEF FullLength
  <2>4. QED
    BY <2>3 DEF IsEnd, EndTag
<1>4. \E A, e : Table(settled, A, e)
  BY <1>1, <1>2, <1>3, EmptyTable
<1>5. Leads(mem, writes, settled)
  BY <1>1, <1>2, LeadsNowhere
<1>6. <<>> \in Seq(PageWrites)
  OBVIOUS
<1>7. QED
  BY <1>1, <1>4, <1>5, <1>6 DEF DictInv

\* An operation that keeps the table a table keeps the invariant.
LEMMA Performs ==
  ASSUME DictInv, NEW run, NEW what, Perform(run, what), UNCHANGED mem,
         RunOf(mem, run), run.endless = FALSE, \E A, e : Table(run.mem, A, e), what # NoCall
  PROVE  DictInv' /\ call' = what /\ settled' = run.mem /\ call = NoCall
<1>1. hung' = FALSE /\ call' = what /\ writes' = run.writes /\ settled' = run.mem /\ call = NoCall
  BY DEF Perform, MutexFree
<1>2. writes' \in Seq(PageWrites) /\ Leads(mem', writes', settled')
  BY <1>1 DEF RunOf
<1>3. QED
  BY <1>1, <1>2 DEF DictInv

\* A store leaves a table with the new value, or fails and leaves one without the key.
LEMMA StorePerforms ==
  ASSUME DictInv, NEW key \in Keys, NEW value \in Values, StorageStore(key, value)
  PROVE  /\ DictInv' /\ call = NoCall
         /\ \/ /\ call' = [op |-> "store", key |-> key, value |-> value, ok |-> TRUE]
               /\ Contents(settled') = [Contents(settled) EXCEPT ![key] = value]
            \/ /\ call' = [op |-> "store", key |-> key, value |-> value, ok |-> FALSE]
               /\ Contents(settled') = [Contents(settled) EXCEPT ![key] = <<>>]
<1>1. PICK run, what :
        /\ run = StoreItem(mem, key, value)
        /\ what = [op |-> "store", key |-> key, value |-> value, ok |-> run.ok]
  OBVIOUS
<1>2. Perform(run, what) /\ UNCHANGED mem
  BY <1>1 DEF StorageStore
<1>3. mem = settled /\ \E A, e : Table(mem, A, e)
  BY <1>2, FreeTable DEF Perform
<1>4. PICK A, e : Table(mem, A, e)
  BY <1>3
<1>5. StoreEnds(mem, mem, A, key, value, run)
  BY <1>1, <1>4, StoreOf
<1>6. PICK A2, e2 : /\ RunOf(mem, run) /\ run.endless = FALSE /\ Table(run.mem, A2, e2)
                    /\ \/ run.ok = TRUE /\ Stored(mem, A, key, value, run.mem, A2)
                       \/ run.ok = FALSE /\ Dropped(mem, A, key, run.mem, A2)
  BY <1>5 DEF StoreEnds
<1>7. what # NoCall
  BY <1>1 DEF NoCall
<1>8. DictInv' /\ call' = what /\ settled' = run.mem /\ call = NoCall
  BY <1>2, <1>6, <1>7, Performs
<1>9. CASE run.ok = TRUE /\ Stored(mem, A, key, value, run.mem, A2)
  <2>1. Contents(run.mem) = [Contents(mem) EXCEPT ![key] = value]
    BY <1>4, <1>6, <1>9, StoredContents
  <2>2. QED
    BY <1>1, <1>3, <1>8, <1>9, <2>1
<1>10. CASE run.ok = FALSE /\ Dropped(mem, A, key, run.mem, A2)
  <2>1. Contents(run.mem) = [Contents(mem) EXCEPT ![key] = <<>>]
    BY <1>4, <1>6, <1>10, DroppedContents
  <2>2. QED
    BY <1>1, <1>3, <1>8, <1>10, <2>1
<1>11. QED
  BY <1>6, <1>9, <1>10

\* A delete leaves a table without the key, and fails when there was none.
LEMMA DeletePerforms ==
  ASSUME DictInv, NEW key \in Keys, StorageDelete(key)
  PROVE  /\ DictInv' /\ call = NoCall
         /\ call' = [op |-> "delete", key |-> key, ok |-> Contents(settled)[key] # <<>>]
         /\ Contents(settled') = [Contents(settled) EXCEPT ![key] = <<>>]
<1>1. PICK run, what :
        run = RemoveItem(mem, key) /\ what = [op |-> "delete", key |-> key, ok |-> run.ok]
  OBVIOUS
<1>2. Perform(run, what) /\ UNCHANGED mem
  BY <1>1 DEF StorageDelete
<1>3. mem = settled /\ \E A, e : Table(mem, A, e)
  BY <1>2, FreeTable DEF Perform
<1>4. PICK A, e : Table(mem, A, e)
  BY <1>3
<1>5. /\ RunOf(mem, run) /\ run.endless = FALSE
      /\ Table(run.mem, A, e) /\ Dropped(mem, A, key, run.mem, A)
      /\ run.ok = (Contents(mem)[key] # <<>>)
  BY <1>1, <1>4, RemoveOf
<1>6. what # NoCall
  BY <1>1 DEF NoCall
<1>7. DictInv' /\ call' = what /\ settled' = run.mem /\ call = NoCall
  BY <1>2, <1>5, <1>6, Performs
<1>8. Contents(run.mem) = [Contents(mem) EXCEPT ![key] = <<>>]
  BY <1>4, <1>5, DroppedContents
<1>9. QED
  BY <1>1, <1>3, <1>5, <1>7, <1>8

\* A reformat leaves a table without items.
LEMMA FormatPerforms ==
  ASSUME DictInv, Perform(Format(mem), [op |-> "format"]), UNCHANGED mem
  PROVE  /\ DictInv' /\ call = NoCall /\ call' = [op |-> "format"]
         /\ Contents(settled') = [key \in Keys |-> <<>>]
<1>1. PICK run, what : run = Format(mem) /\ what = [op |-> "format"]
  OBVIOUS
<1>2. Perform(run, what)
  BY <1>1
<1>3. mem \in Memories
  BY <1>2, FreeTable DEF Perform
<1>4. /\ RunOf(mem, run) /\ run.endless = FALSE
      /\ Table(run.mem, {}, 1) /\ Contents(run.mem) = [key \in Keys |-> <<>>]
  BY <1>1, <1>3, FormatOf
<1>5. what # NoCall
  BY <1>1 DEF NoCall
<1>6. DictInv' /\ call' = what /\ settled' = run.mem /\ call = NoCall
  BY <1>2, <1>4, <1>5, Performs
<1>7. QED
  BY <1>1, <1>4, <1>6

\* The next page write brings the memory nearer to the settled one.
LEMMA WritePageKeeps ==
  ASSUME DictInv, WritePage
  PROVE  DictInv' /\ UNCHANGED <<call, settled>>
<1>1. /\ writes # <<>> /\ mem' = Apply(mem, Head(writes)) /\ writes' = Tail(writes)
      /\ UNCHANGED <<call, settled, hung>>
  BY DEF WritePage
<1>2. writes \in Seq(PageWrites) /\ Leads(mem, writes, settled)
  BY DEF DictInv
<1>3. Leads(mem', writes', settled') /\ writes' \in Seq(PageWrites)
  BY <1>1, <1>2, LeadsTail
<1>4. call # NoCall
  BY <1>1 DEF DictInv
<1>5. QED
  BY <1>1, <1>3, <1>4 DEF DictInv

\* The start of the PARAM task reads the table to its end and changes nothing.
LEMMA LoadKeeps ==
  ASSUME DictInv, LoadParams
  PROVE  DictInv' /\ UNCHANGED <<mem, writes, call, settled>>
<1>1. MutexFree /\ hung' = (Endless \in ToSet(Foreach(mem))) /\ UNCHANGED <<mem, writes, call, settled>>
  BY DEF LoadParams
<1>2. hung' = FALSE
  <2>1. PICK A, e : Table(mem, A, e)
    BY <1>1, FreeTable
  <2>2. Endless \notin ToSet(Foreach(mem))
    BY <2>1, ForeachReturns
  <2>3. (Endless \in ToSet(Foreach(mem))) = FALSE
    BY <2>2
  <2>4. QED
    BY <1>1, <2>3, Zenon
<1>3. QED
  BY <1>1, <1>2 DEF DictInv

\* Every step keeps the invariant.
LEMMA DictStep == DictInv /\ [Next]_vars => DictInv'
<1> SUFFICES ASSUME DictInv, [Next]_vars PROVE DictInv'
  OBVIOUS
<1>1. CASE WritePage
  BY <1>1, WritePageKeeps
<1>2. CASE GiveMutex
  BY <1>2 DEF GiveMutex, DictInv
<1>3. CASE LoadParams
  BY <1>3, LoadKeeps
<1>4. CASE \E key \in Keys, value \in Values : StorageStore(key, value)
  BY <1>4, StorePerforms
<1>5. CASE \E key \in Keys : StorageDelete(key)
  BY <1>5, DeletePerforms
<1>6. CASE StorageReformat
  BY <1>6, FormatPerforms DEF StorageReformat
<1>7. CASE StorageTest
  BY <1>7 DEF StorageTest, DictInv
<1>8. CASE TestReformat
  BY <1>8, FormatPerforms DEF TestReformat
<1>9. CASE UNCHANGED vars
  BY <1>9 DEF vars, DictInv
<1>10. QED
  BY <1>1, <1>2, <1>3, <1>4, <1>5, <1>6, <1>7, <1>8, <1>9 DEF Next, ParamTask, SystemTask

\* The inductive invariant of the storage.
THEOREM DictInvariant == Spec => []DictInv
<1>1. QED
  BY DictInit, DictStep, PTL DEF Spec

\* Without a power loss no scan of storage.cpp runs forever with the mutex held.
THEOREM ScansEnd == Spec => []BootEnds
<1>1. DictInv => BootEnds
  BY DEF DictInv, BootEnds
<1>2. QED
  BY <1>1, DictInvariant, PTL

\* foreach() visits each stored key once, with its value, whatever was stored,
\* deleted and moved before.
THEOREM ForeachIsComplete == Spec => []ForeachVisitsAll
<1>1. DictInv => ForeachVisitsAll
  <2>1. SUFFICES ASSUME DictInv, MutexFree, NEW s, s = Foreach(mem)
                 PROVE  /\ {key \in Keys : Fetch(mem, key) # <<>>} =
                             {KeyOf(mem, s[i]) : i \in 1 .. Len(s)}
                        /\ \A i \in 1 .. Len(s) :
                             GetBuffer(mem, s[i]) = Fetch(mem, KeyOf(mem, s[i]))
                        /\ Len(s) = Cardinality({key \in Keys : Fetch(mem, key) # <<>>})
    BY Zenon DEF ForeachVisitsAll, KeyOf
  <2>2. PICK A, e : Table(mem, A, e)
    BY <2>1, FreeTable
  <2>3. QED
    BY <2>1, <2>2, VisitedKeys, VisitedOnce
<1>2. QED
  BY <1>1, DictInvariant, PTL

\* While the power stays on the storage is a map: each call takes effect at once,
\* as the holders of the mutex see it, and changes the value of its key only.
THEOREM StorageImplementsMap == Spec => StorageIsMap
<1>1. Init => Map!Init
  <2>1. SUFFICES ASSUME Init PROVE Map!Init
    OBVIOUS
  <2>2. settled \in Memories /\ IsEnd(settled, 1)
    <3>1. settled = [address \in Cells |-> 255]
      BY <2>1 DEF Init, Cells
    <3>2. settled[1] = 255 /\ settled[2] = 255
      BY <3>1, SizeAssumption DEF Cells
    <3>3. FullLength(settled, 1) = 65535
      BY <3>2 DEF FullLength
    <3>4. QED
      BY <3>1, <3>3 DEF IsEnd, EndTag, Memories
  <2>3. Contents(settled) = [key \in Keys |-> <<>>]
    BY <2>2, EmptyTable
  <2>4. QED
    BY <2>1, <2>3 DEF Init, Map!Init, Map!NotStored, Map!NoCall, NoCall
<1>2. DictInv /\ [Next]_vars => [Map!Next]_(Map!vars)
  <2> SUFFICES ASSUME DictInv, [Next]_vars PROVE [Map!Next]_(Map!vars)
    OBVIOUS
  <2> USE DEF Map!vars
  <2>1. CASE WritePage
    BY <2>1, WritePageKeeps
  <2>2. CASE GiveMutex
    BY <2>2 DEF GiveMutex, Map!Next, Map!Return, Map!NoCall, NoCall
  <2>3. CASE LoadParams
    BY <2>3, LoadKeeps
  <2>4. ASSUME NEW key \in Keys, NEW value \in Values, StorageStore(key, value)
        PROVE  Map!Next
    <3>1. call = NoCall
      BY <2>4, StorePerforms
    <3>2. Map!Store(key, value) \/ Map!StoreFails(key, value)
      BY <2>4, StorePerforms DEF Map!Store, Map!StoreFails, Map!NotStored
    <3>3. QED
      BY <3>1, <3>2 DEF Map!Next, Map!NoCall, NoCall
  <2>5. ASSUME NEW key \in Keys, StorageDelete(key)
        PROVE  Map!Next
    <3>1. call = NoCall /\ Map!Delete(key)
      BY <2>5, DeletePerforms DEF Map!Delete, Map!NotStored
    <3>2. QED
      BY <3>1 DEF Map!Next, Map!NoCall, NoCall
  <2>6. CASE StorageReformat \/ TestReformat
    <3>1. call = NoCall /\ Map!Format
      BY <2>6, FormatPerforms DEF StorageReformat, TestReformat, Map!Format, Map!NotStored
    <3>2. QED
      BY <3>1 DEF Map!Next, Map!NoCall, NoCall
  <2>7. CASE StorageTest
    BY <2>7 DEF StorageTest
  <2>8. CASE UNCHANGED vars
    BY <2>8 DEF vars
  <2>9. QED
    BY <2>1, <2>2, <2>3, <2>4, <2>5, <2>6, <2>7, <2>8 DEF Next, ParamTask, SystemTask
<1>3. QED
  BY <1>1, <1>2, DictInvariant, PTL DEF Spec, StorageIsMap, Map!Spec

-----------------------------------------------------------------------------
(* What a call that stays within the item of its key can do to the others *)

\* appendItemToEnd() ends with the end tag, behind the item of the key.
LEMMA AppendItemLast ==
  ASSUME NEW m0, NEW run, RunOf(m0, run), run.ok = TRUE, run.endless = FALSE,
         NEW m, m = run.mem, NEW A, NEW e, Table(m, A, e),
         NEW key \in Keys, NEW value \in Values, \A a \in A : KeyOf(m, a) # key,
         NEW r, r = AppendItemToEnd(run, key, value), r.ok = TRUE
  PROVE  LastBehind(r.writes, r.mem, key)
<1>1. FindEnd(run.mem, FirstItem) = e /\ IsValid(e)
  <2>1. 1 \in A \union {e}
    BY Chained
  <2>2. FindEnd(m, 1) = e
    BY <2>1, FindEndOf
  <2>3. IsValid(e)
    BY Items DEF IsValid
  <2>4. QED
    BY <2>2, <2>3 DEF FirstItem
<1>2. CASE Fits(e, key, value)
  <2>1. r = AppendAt(run, e, key, value)
    BY <1>1, <1>2, Zenon DEF AppendItemToEnd
  <2>2. QED
    BY <1>2, <2>1, AppendLast
<1>3. CASE ~Fits(e, key, value)
  <2>1. PICK packed, m1 : packed = Defrag(run) /\ m1 = packed.mem
    OBVIOUS
  <2>2. GoesOn(m0, run, packed)
    BY <2>1, DefragOf
  <2>3. PICK A2, e2 : Table(m1, A2, e2) /\ SameHolds(m, A, m1, A2)
    BY <2>1, DefragOf
  <2>4. FindEnd(packed.mem, FirstItem) = e2 /\ IsValid(e2)
    <3>1. 1 \in A2 \union {e2}
      BY <2>3, Chained
    <3>2. FindEnd(m1, 1) = e2
      BY <2>3, <3>1, FindEndOf
    <3>3. IsValid(e2)
      BY <2>3, Items DEF IsValid
    <3>4. QED
      BY <2>1, <3>2, <3>3 DEF FirstItem
  <2>5. RunOf(m0, packed) /\ packed.ok = TRUE /\ packed.endless = FALSE
    BY <2>2 DEF GoesOn
  <2>6. \A a \in A2 : KeyOf(m1, a) # key
    <3>1. \A v : ~Holds(m, A, key, v)
      BY DEF Holds
    <3>2. \A v : ~Holds(m1, A2, key, v)
      BY <2>3, <3>1 DEF SameHolds
    <3>3. QED
      BY <3>2 DEF Holds
  <2>7. CASE Fits(e2, key, value)
    <3>1. r = AppendAt(packed, e2, key, value)
      BY <1>1, <1>3, <2>1, <2>4, <2>5, <2>7, Zenon DEF AppendItemToEnd
    <3>2. QED
      BY <2>1, <2>3, <2>5, <2>6, <2>7, <3>1, AppendLast
  <2>8. CASE ~Fits(e2, key, value)
    <3>1. r = Fails(packed)
      BY <1>1, <1>3, <2>1, <2>4, <2>5, <2>8, Zenon DEF AppendItemToEnd
    <3>2. r.ok = FALSE
      BY <2>5, <3>1, RunFails
    <3>3. QED
      BY <3>2
  <2>9. QED
    BY <2>7, <2>8
<1>4. QED
  BY <1>2, <1>3

\* storeItem() stays within the item of its key, ends behind it, or leaves no item.
LEMMA StoreWrites ==
  ASSUME NEW m, NEW A, NEW e, Table(m, A, e), NEW key \in Keys, NEW value \in Values,
         NEW r, r = StoreItem(m, key, value), r.ok = TRUE
  PROVE  LastBehind(r.writes, r.mem, key) \/ Halfway(m, r.writes, r.mem, key)
<1>1. PICK item, run : item = FindItemByKey(m, key) /\ run = Start(m)
  OBVIOUS
<1>2. key \in Strings /\ key # <<>> /\ m \in Memories
  BY KeyFacts, Items
<1>3. /\ RunOf(m, run) /\ run.mem = m /\ run.ok = TRUE /\ run.endless = FALSE
      /\ run.writes = <<>>
  BY <1>1, <1>2, RunStarts
<1>4. \/ item = Invalid /\ \A a \in A : KeyOf(m, a) # key
      \/ item \in A /\ KeyOf(m, item) = key /\ KeyLength(m, item) = Len(key)
  BY <1>1, <1>2, FindItemByKeyOf
<1>5. CASE item = Invalid /\ \A a \in A : KeyOf(m, a) # key
  <2>1. item # Endless
    BY <1>5 DEF Invalid, Endless
  <2>2. r = AppendItemToEnd(run, key, value)
    BY <1>1, <1>5, <2>1, Zenon DEF StoreItem
  <2>3. QED
    BY <1>3, <1>5, <2>2, AppendItemLast
<1>6. CASE item \in A /\ KeyOf(m, item) = key /\ KeyLength(m, item) = Len(key)
  <2>1. item \in Nat
    BY <1>6, Items
  <2>2. item # Endless /\ item # Invalid /\ IsValid(item)
    BY <2>1 DEF Endless, Invalid, IsValid
  <2>3. CASE FullLength(m, item) = ItemLength(key, value)
    <3>1. r = WriteItem(run, item, key, value)
      BY <1>1, <2>2, <2>3, Zenon DEF StoreItem, FitsInPlace
    <3>2. QED
      BY <1>3, <1>6, <2>3, <3>1, StoreHalfway
  <2>4. CASE FullLength(m, item) # ItemLength(key, value)
    <3>1. PICK w, m1 : w = WriteHole(run, item, FullLength(m, item)) /\ m1 = w.mem
      OBVIOUS
    <3>2. r = AppendItemToEnd(w, key, value)
      BY <1>1, <2>2, <2>4, <3>1, Zenon DEF StoreItem, FitsInPlace
    <3>3. /\ RunOf(m, w) /\ w.ok = TRUE /\ w.endless = FALSE
          /\ Table(m1, A, e) /\ KeyLength(m1, item) = 0
          /\ \A b \in A : b # item => SameAs(m, b, m1, b)
      <4>1. GoesOn(m, run, w) /\ HoleMade(m, A, e, item, w.mem)
        BY <1>3, <1>6, <3>1, HoleMadeOf
      <4>2. QED
        BY <1>3, <3>1, <4>1 DEF GoesOn, HoleMade
    <3>4. \A b \in A : KeyOf(m1, b) # key
      BY <1>6, <3>3, HoleDrops
    <3>5. QED
      BY <3>1, <3>2, <3>3, <3>4, AppendItemLast
  <2>5. QED
    BY <2>3, <2>4
<1>7. QED
  BY <1>4, <1>5, <1>6

\* removeItem() stays within the item of its key.
LEMMA RemoveWrites ==
  ASSUME NEW m, NEW A, NEW e, Table(m, A, e), NEW key \in Keys,
         NEW r, r = RemoveItem(m, key)
  PROVE  r.writes = <<>> \/ Halfway(m, r.writes, r.mem, key)
<1>1. PICK item, run : item = FindItemByKey(m, key) /\ run = Start(m)
  OBVIOUS
<1>2. key \in Strings /\ key # <<>> /\ m \in Memories
  BY KeyFacts, Items
<1>3. RunOf(m, run) /\ run.mem = m /\ run.writes = <<>>
  BY <1>1, <1>2, RunStarts
<1>4. \/ item = Invalid
      \/ item \in A /\ KeyOf(m, item) = key
  BY <1>1, <1>2, FindItemByKeyOf
<1>5. CASE item = Invalid
  <2>1. item # Endless
    BY <1>5 DEF Invalid, Endless
  <2>2. r = Fails(run)
    BY <1>1, <1>5, <2>1, Zenon DEF RemoveItem
  <2>3. r.writes = <<>>
    BY <1>1, <2>2 DEF Fails, Start
  <2>4. QED
    BY <2>3
<1>6. CASE item \in A /\ KeyOf(m, item) = key
  <2>1. item \in Nat
    BY <1>6, Items
  <2>2. item # Endless /\ item # Invalid
    BY <2>1 DEF Endless, Invalid
  <2>3. r = WriteHole(run, item, FullLength(m, item))
    BY <1>1, <2>2, Zenon DEF RemoveItem
  <2>4. QED
    BY <1>3, <1>6, <2>3, DeleteHalfway
<1>7. QED
  BY <1>4, <1>5, <1>6

\* The call that is being served
CallInv ==
  /\ call.op = "store" =>
       /\ call.key \in Keys
       /\ \/ FindItemByKey(settled, call.key) = Invalid
          \/ LastBehind(writes, settled, call.key)
          \/ Halfway(mem, writes, settled, call.key)
  /\ call.op = "delete" =>
       /\ call.key \in Keys
       /\ writes = <<>> \/ Halfway(mem, writes, settled, call.key)

\* A call that is over, and a reformat, have nothing to keep.
LEMMA IdleCall ==
  ASSUME call' = NoCall \/ call' = [op |-> "format"]
  PROVE  CallInv'
<1>1. call'.op \in {"none", "format"}
  BY DEF NoCall
<1>2. call'.op # "store" /\ call'.op # "delete"
  BY <1>1
<1>3. QED
  BY <1>2 DEF CallInv

\* A store starts behind the item of its key, or with a memory that is halfway.
LEMMA StoreCalls ==
  ASSUME DictInv, NEW key \in Keys, NEW value \in Values, StorageStore(key, value)
  PROVE  CallInv'
<1>1. PICK run, what :
        /\ run = StoreItem(mem, key, value)
        /\ what = [op |-> "store", key |-> key, value |-> value, ok |-> run.ok]
  OBVIOUS
<1>2. Perform(run, what) /\ UNCHANGED mem
  BY <1>1 DEF StorageStore
<1>3. PICK A, e : Table(mem, A, e)
  BY <1>2, FreeTable DEF Perform
<1>4. StoreEnds(mem, mem, A, key, value, run)
  BY <1>1, <1>3, StoreOf
<1>5. PICK A2, e2 : /\ run.endless = FALSE /\ Table(run.mem, A2, e2)
                    /\ run.ok = TRUE \/ Dropped(mem, A, key, run.mem, A2)
  BY <1>4 DEF StoreEnds
<1>6. call' = what /\ writes' = run.writes /\ settled' = run.mem /\ mem' = mem
  BY <1>2, <1>5 DEF Perform
<1>7. call'.op = "store" /\ call'.key = key
  BY <1>1, <1>6
<1>8. \/ FindItemByKey(run.mem, key) = Invalid
      \/ LastBehind(run.writes, run.mem, key)
      \/ Halfway(mem, run.writes, run.mem, key)
  <2>1. CASE run.ok = TRUE
    BY <1>1, <1>3, <2>1, StoreWrites
  <2>2. CASE Dropped(mem, A, key, run.mem, A2)
    <3>1. \A v : ~Holds(run.mem, A2, key, v)
      BY <2>2 DEF Dropped
    <3>2. \A a \in A2 : KeyOf(run.mem, a) # key
      BY <3>1 DEF Holds
    <3>3. key \in Strings /\ key # <<>>
      BY KeyFacts
    <3>4. QED
      BY <1>5, <3>2, <3>3, FetchOf
  <2>3. QED
    BY <1>5, <2>1, <2>2
<1>9. "store" # "delete"
  OBVIOUS
<1>10. QED
  BY <1>6, <1>7, <1>8, <1>9 DEF CallInv

\* A delete starts with a memory that is halfway.
LEMMA DeleteCalls ==
  ASSUME DictInv, NEW key \in Keys, StorageDelete(key)
  PROVE  CallInv'
<1>1. PICK run, what :
        run = RemoveItem(mem, key) /\ what = [op |-> "delete", key |-> key, ok |-> run.ok]
  OBVIOUS
<1>2. Perform(run, what) /\ UNCHANGED mem
  BY <1>1 DEF StorageDelete
<1>3. PICK A, e : Table(mem, A, e)
  BY <1>2, FreeTable DEF Perform
<1>4. run.endless = FALSE
  BY <1>1, <1>3, RemoveOf
<1>5. call' = what /\ writes' = run.writes /\ settled' = run.mem /\ mem' = mem
  BY <1>2, <1>4 DEF Perform
<1>6. call'.op = "delete" /\ call'.key = key
  BY <1>1, <1>5
<1>7. run.writes = <<>> \/ Halfway(mem, run.writes, run.mem, key)
  BY <1>1, <1>3, RemoveWrites
<1>8. "store" # "delete"
  OBVIOUS
<1>9. QED
  BY <1>5, <1>6, <1>7, <1>8 DEF CallInv

\* A page write keeps it so.
LEMMA PageCalls ==
  ASSUME DictInv, CallInv, WritePage
  PROVE  CallInv'
<1>1. /\ writes # <<>> /\ mem' = Apply(mem, Head(writes)) /\ writes' = Tail(writes)
      /\ call' = call /\ settled' = settled
  BY DEF WritePage
<1>2. writes \in Seq(PageWrites) /\ Apply(mem, Head(writes)) \in Memories
  BY <1>1, LeadsTail DEF DictInv
<1>3. ASSUME NEW key, Halfway(mem, writes, settled, key)
      PROVE  Halfway(mem', writes', settled', key)
  BY <1>1, <1>2, <1>3, HalfwayOn
<1>4. ASSUME NEW key, LastBehind(writes, settled, key)
      PROVE  LastBehind(writes', settled', key)
  BY <1>1, <1>2, <1>4, LastBehindOn
<1>5. QED
  BY <1>1, <1>3, <1>4 DEF CallInv

\* Every step keeps what is known of the call.
LEMMA CallStep == DictInv /\ CallInv /\ [Next]_vars => CallInv'
<1> SUFFICES ASSUME DictInv, CallInv, [Next]_vars PROVE CallInv'
  OBVIOUS
<1>1. CASE WritePage
  BY <1>1, PageCalls
<1>2. CASE GiveMutex
  BY <1>2, IdleCall DEF GiveMutex
<1>3. CASE LoadParams
  BY <1>3 DEF LoadParams, CallInv
<1>4. CASE \E key \in Keys, value \in Values : StorageStore(key, value)
  BY <1>4, StoreCalls
<1>5. CASE \E key \in Keys : StorageDelete(key)
  BY <1>5, DeleteCalls
<1>6. CASE StorageReformat \/ TestReformat
  <2>1. call' = [op |-> "format"]
    BY <1>6, FormatPerforms DEF StorageReformat, TestReformat
  <2>2. QED
    BY <2>1, IdleCall
<1>7. CASE StorageTest
  BY <1>7 DEF StorageTest, CallInv
<1>8. CASE UNCHANGED vars
  BY <1>8 DEF vars, CallInv
<1>9. QED
  BY <1>1, <1>2, <1>3, <1>4, <1>5, <1>6, <1>7, <1>8 DEF Next, ParamTask, SystemTask

\* At first there is no call.
LEMMA CallInit == Init => CallInv
<1> SUFFICES ASSUME Init PROVE CallInv
  OBVIOUS
<1>1. call.op = "none"
  BY DEF Init, NoCall
<1>2. call.op # "store" /\ call.op # "delete"
  BY <1>1
<1>3. QED
  BY <1>2 DEF CallInv

\* An item between its old and its new bytes leaves the table whole.
LEMMA HalfwayIsSafe ==
  ASSUME NEW m, NEW ws, NEW m2, NEW key, Halfway(m, ws, m2, key)
  PROVE  /\ Check(m) = Check(m2)
         /\ \A k \in Keys : k # key => Contents(m)[k] = Contents(m2)[k]
<1>1. PICK m0, A, e, a : Between(m0, A, e, a, key, m, m2)
  BY DEF Halfway
<1>2. Table(m, A, e) /\ m[0] = m2[0]
  BY <1>1, BetweenTable
<1>3. Table(m2, A, e)
  BY <1>1 DEF Between
<1>4. FindEnd(m, FirstItem) = e /\ FindEnd(m2, FirstItem) = e
  <2>1. 1 \in A \union {e}
    BY <1>2, Chained
  <2>2. FindEnd(m, 1) = e /\ FindEnd(m2, 1) = e
    BY <1>2, <1>3, <2>1, FindEndOf
  <2>3. QED
    BY <2>2 DEF FirstItem
<1>5. Check(m) = Check(m2)
  BY <1>2, <1>4, Zenon DEF Check
<1>6. ASSUME NEW k \in Keys, k # key PROVE Contents(m)[k] = Contents(m2)[k]
  <2>1. \A v : Holds(m2, A, k, v) <=> Holds(m, A, k, v)
    BY <1>1, <1>6, BetweenHolds
  <2>2. QED
    BY <1>2, <1>3, <2>1, SameContents
<1>7. QED
  BY <1>5, <1>6

\* Without writes left the memory is the settled one.
LEMMA Settled ==
  ASSUME DictInv, writes = <<>>
  PROVE  mem = settled
<1>1. PICK t \in [0 .. Len(<<>>) -> Memories] : t[0] = mem
  BY DEF DictInv, Leads
<1>2. 0 \in 0 .. Len(<<>>)
  OBVIOUS
<1>3. mem \in Memories
  BY <1>1, <1>2
<1>4. QED
  BY <1>3, LeadsNowhere DEF DictInv

\* A delete, and a store whose writes stay within the item of its key, keep the
\* table whole and the values of all other keys at each of their page writes: at
\* each of them power may be lost.
THEOREM InPlaceStaysSafe == Spec => []InPlaceIsSafe
<1>1. DictInv /\ CallInv => InPlaceIsSafe
  <2> SUFFICES ASSUME DictInv, CallInv, InPlace
               PROVE  /\ Check(mem) = Check(settled)
                      /\ \A key \in Keys \ {call.key} :
                           Contents(mem)[key] = Contents(settled)[key]
    BY Zenon DEF InPlaceIsSafe
  <2>1. CASE writes = <<>>
    <3>1. mem = settled
      BY <2>1, Settled
    <3>2. QED
      BY <3>1
  <2>2. CASE Halfway(mem, writes, settled, call.key)
    BY <2>2, HalfwayIsSafe
  <2>3. CASE call.op = "delete"
    BY <2>1, <2>2, <2>3 DEF CallInv
  <2>4. CASE call.op = "store" /\ call.op # "delete" /\ writes # <<>>
    <3>1. PICK item, n :
            item = FindItemByKey(settled, call.key) /\ n = Len(writes)
      OBVIOUS
    <3>2. /\ IsValid(item)
          /\ \A i \in 1 .. n :
               writes[i].at + Len(writes[i].bytes) <= item + FullLength(settled, item)
      BY <2>4, <3>1, Zenon DEF InPlace
    <3>3. item # Invalid
      BY <3>2 DEF IsValid, Invalid
    <3>4. n \in 1 .. n
      <4>1. writes \in Seq(PageWrites)
        BY DEF DictInv
      <4>2. n \in Nat /\ n # 0
        BY <2>4, <3>1, <4>1, EmptySeq, LenProperties
      <4>3. QED
        BY <4>2
    <3>5. ~LastBehind(writes, settled, call.key)
      BY <2>4, <3>1, <3>2, <3>4, Zenon DEF LastBehind
    <3>6. QED
      BY <2>2, <2>4, <3>1, <3>3, <3>5 DEF CallInv
  <2>5. QED
    BY <2>1, <2>3, <2>4, Zenon DEF InPlace
<1>2. Init => DictInv /\ CallInv
  BY DictInit, CallInit
<1>3. (DictInv /\ CallInv) /\ [Next]_vars => (DictInv /\ CallInv)'
  BY DictStep, CallStep
<1>4. QED
  BY <1>1, <1>2, <1>3, PTL DEF Spec

\* The defragmentation finds all the room there is: a store fails only when the
\* items that would be kept leave none for the new one.
THEOREM OnlyFullFails == Spec => []StoreFailsOnlyWhenFull
<1>1. DictInv => StoreFailsOnlyWhenFull
  <2> SUFFICES ASSUME DictInv, MutexFree, NEW key \in Keys, NEW value \in Values,
                      ~StoreItem(mem, key, value).ok
               PROVE  ~Fits(FirstItem + Live(mem, Keys \ {key}), key, value)
    BY Zenon DEF StoreFailsOnlyWhenFull
  <2>1. PICK A, e : Table(mem, A, e)
    BY FreeTable
  <2>2. PICK run : run = StoreItem(mem, key, value)
    OBVIOUS
  <2>3. StoreEnds(mem, mem, A, key, value, run)
    BY <2>1, <2>2, StoreOf
  <2>4. run.ok # TRUE
    BY <2>2
  <2>5. PICK A2, e2 : /\ Table(run.mem, A2, e2) /\ Dropped(mem, A, key, run.mem, A2)
                      /\ Full(run.mem, A2, e2, key, value)
    BY <2>3, <2>4 DEF StoreEnds
  <2>6. (\A a \in A2 : KeyLength(run.mem, a) # 0) /\ ~Fits(e2, key, value)
    BY <2>5 DEF Full
  <2>7. Live(mem, Keys \ {key}) = e2 - 1
    BY <2>1, <2>5, <2>6, LiveOf
  <2>8. FirstItem + Live(mem, Keys \ {key}) = e2
    <3>1. e2 \in Nat
      BY <2>5, Items
    <3>2. QED
      BY <2>7, <3>1 DEF FirstItem
  <2>9. QED
    BY <2>6, <2>8
<1>2. QED
  BY <1>1, DictInvariant, PTL
=============================================================================
