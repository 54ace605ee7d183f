--------------------------- MODULE DictionaryTable ---------------------------
(***************************************************************************)
(* Lemmas about the table of Dictionary: what its scans find, what its     *)
(* writes leave behind, and how the items behind a hole fill it.           *)
(***************************************************************************)
EXTENDS Dictionary, TLAPS, FiniteSetTheorems, SequenceTheorems, FunctionTheorems,
        NaturalsInduction, WellFoundedInduction

Cells == 0 .. MemorySize - 1
Memories == [Cells -> 0 .. 255]

-----------------------------------------------------------------------------
(* Induction over the numbers *)

Less == {p \in Nat \X Nat : p[1] < p[2]}

\* A set of numbers has a least one.
LEMMA Least ==
  ASSUME NEW T, T \subseteq Nat, T # {}
  PROVE  \E x \in T : \A y \in T : x <= y
<1>1. OpToRel(<, Nat) = Less
  BY Zenon DEF OpToRel, Less
<1>2. IsWellFoundedOn(Less, Nat)
  BY <1>1, NatLessThanWellFounded, Zenon
<1>3. PICK x \in T : \A y \in T : ~ (<<y, x>> \in Less)
  BY <1>2, WFMin
<1>4. ASSUME NEW y \in T PROVE x <= y
  <2>1. ~ (<<y, x>> \in Less) /\ x \in Nat /\ y \in Nat
    BY <1>3
  <2>2. QED
    BY <2>1 DEF Less
<1>5. QED
  BY <1>4

\* A set of numbers with zero and every successor of its members has them all.
LEMMA Counting ==
  ASSUME NEW T, 0 \in T, \A n \in Nat : n \in T => n + 1 \in T
  PROVE  Nat \subseteq T
<1> DEFINE missing == Nat \ T
<1>1. SUFFICES ASSUME missing # {} PROVE FALSE
  OBVIOUS
<1>2. PICK m \in missing : \A n \in missing : m <= n
  BY <1>1, Least
<1>3. m - 1 \in Nat /\ m - 1 \in T
  BY <1>2
<1>4. QED
  BY <1>2, <1>3

-----------------------------------------------------------------------------
(* Scan *)

ScanStep(m, limit, stops, at, address) ==
  IF address >= limit THEN Invalid
  ELSE IF address \in stops THEN address
  ELSE IF FullLength(m, address) = 0 THEN Endless
  ELSE at[address + FullLength(m, address)]

\* The bytes of a memory are numbers, and so are the lengths in it.
LEMMA Lengths ==
  ASSUME NEW m \in Memories, NEW a \in Nat, a + 2 < MemorySize
  PROVE  /\ FullLength(m, a) \in Nat /\ FullLength(m, a) <= 65535 /\ KeyLength(m, a) \in 0 .. 255
         /\ KeyLength(m, a) \in Nat /\ {a, a + 1, a + 2} \subseteq Cells
<1>1. MemorySize \in Nat /\ {a, a + 1, a + 2} \subseteq Cells
  BY SizeAssumption DEF Cells
<1>2. m[a] \in 0 .. 255 /\ m[a + 1] \in 0 .. 255 /\ m[a + 2] \in 0 .. 255
  BY <1>1 DEF Memories
<1>3. FullLength(m, a) \in Nat /\ FullLength(m, a) <= 65535
  <2>1. PICK x \in 0 .. 255 : x = m[a]
    BY <1>2
  <2>2. PICK y \in 0 .. 255 : y = m[a + 1]
    BY <1>2
  <2>3. FullLength(m, a) = x + 256 * y
    BY <2>1, <2>2 DEF FullLength
  <2>4. x \in Nat /\ y \in Nat /\ x <= 255 /\ y <= 255
    OBVIOUS
  <2>5. x + 256 * y \in Nat /\ x + 256 * y <= 65535
    BY <2>4
  <2>6. QED
    BY <2>3, <2>5
<1>4. KeyLength(m, a) \in 0 .. 255 /\ KeyLength(m, a) \in Nat
  BY <1>2 DEF KeyLength
<1>5. QED
  BY <1>1, <1>3, <1>4

\* There is a function that a scan can follow.
LEMMA ScanExists ==
  ASSUME NEW m \in Memories, NEW limit \in Nat, limit <= MemorySize - 2, NEW stops
  PROVE  \E at : at = [a \in Nat |-> ScanStep(m, limit, stops, at, a)]
<1> DEFINE Good(f, k) == /\ DOMAIN f = Nat
                         /\ \A a \in Nat : a + k >= limit => f[a] = ScanStep(m, limit, stops, f, a)
           T == {k \in Nat : \E f : Good(f, k)}
<1>1. 0 \in T
  <2> DEFINE f == [a \in Nat |-> Invalid]
  <2>1. Good(f, 0)
    BY DEF ScanStep
  <2>2. QED
    BY <2>1
<1>2. ASSUME NEW k \in Nat, k \in T PROVE k + 1 \in T
  <2>1. PICK f : Good(f, k)
    BY <1>2
  <2> DEFINE g == [a \in Nat |-> IF a + k >= limit THEN f[a] ELSE ScanStep(m, limit, stops, f, a)]
  <2>2. DOMAIN g = Nat /\ \A a \in Nat : a + k >= limit => g[a] = f[a]
    OBVIOUS
  <2>3. ASSUME NEW a \in Nat, a + k + 1 >= limit PROVE g[a] = ScanStep(m, limit, stops, g, a)
    <3>1. g[a] = ScanStep(m, limit, stops, f, a)
      BY <2>1
    <3> HIDE DEF g
    <3>2. CASE a >= limit
      BY <3>1, <3>2 DEF ScanStep
    <3>3. CASE a < limit /\ FullLength(m, a) = 0
      BY <3>1, <3>3 DEF ScanStep
    <3>4. CASE a < limit /\ FullLength(m, a) # 0
      <4>1. FullLength(m, a) \in Nat
        <5>1. a + 2 < MemorySize
          BY <3>4, SizeAssumption
        <5>2. QED
          BY <5>1, Lengths
      <4>2. a + FullLength(m, a) \in Nat /\ a + FullLength(m, a) + k >= limit
        BY <2>3, <3>4, <4>1
      <4>3. g[a + FullLength(m, a)] = f[a + FullLength(m, a)]
        BY <2>2, <4>2
      <4>4. QED
        BY <3>1, <3>4, <4>3 DEF ScanStep
    <3>5. QED
      BY <3>2, <3>3, <3>4
  <2>4. Good(g, k + 1)
    <3> HIDE DEF g
    <3>1. QED
      BY <2>2, <2>3
  <2>5. QED
    <3> HIDE DEF g
    <3>1. QED
      BY <2>4
<1>3. limit \in T
  BY <1>1, <1>2, Counting
<1>4. PICK f : Good(f, limit)
  BY <1>3
<1>5. DOMAIN f = Nat /\ \A a \in Nat : f[a] = ScanStep(m, limit, stops, f, a)
  BY <1>4
<1>6. QED
  <2>1. ASSUME NEW g, DOMAIN g = Nat, \A a \in Nat : g[a] = ScanStep(m, limit, stops, g, a),
               NEW h, h = [a \in Nat |-> ScanStep(m, limit, stops, g, a)]
        PROVE  \A a \in Nat : h[a] = ScanStep(m, limit, stops, h, a)
    <3>1. \A a \in Nat : h[a] = g[a]
      BY <2>1
    <3>2. ASSUME NEW a \in Nat PROVE h[a] = ScanStep(m, limit, stops, h, a)
      <4>1. CASE a < limit
        <5>1. FullLength(m, a) \in Nat
          <6>1. a + 2 < MemorySize
            BY <4>1, SizeAssumption
          <6>2. QED
            BY <6>1, Lengths
        <5>2. a + FullLength(m, a) \in Nat
          BY <5>1
        <5>3. h[a + FullLength(m, a)] = g[a + FullLength(m, a)]
          BY <3>1, <5>2
        <5>4. QED
          BY <2>1, <5>3 DEF ScanStep
      <4>2. CASE a >= limit
        BY <2>1, <4>2 DEF ScanStep
      <4>3. QED
        BY <4>1, <4>2
    <3>3. QED
      BY <3>2
  <2> DEFINE h == [a \in Nat |-> ScanStep(m, limit, stops, f, a)]
  <2>2. \A a \in Nat : h[a] = ScanStep(m, limit, stops, h, a)
    <3>1. h = [a \in Nat |-> ScanStep(m, limit, stops, f, a)]
      OBVIOUS
    <3> HIDE DEF h
    <3>2. QED
      BY <1>5, <2>1, <3>1
  <2>3. h = [a \in Nat |-> h[a]]
    OBVIOUS
  <2> HIDE DEF h
  <2>4. h = [a \in Nat |-> ScanStep(m, limit, stops, h, a)]
    BY <2>2, <2>3
  <2>5. QED
    BY <2>4, Zenon

\* A scan stops where it is, or goes on behind the item.
LEMMA ScanEquation ==
  ASSUME NEW m \in Memories, NEW limit \in Nat, limit <= MemorySize - 2, NEW stops,
         NEW from \in Nat
  PROVE  Scan(m, from, limit, stops) =
           IF from >= limit THEN Invalid
           ELSE IF from \in stops THEN from
           ELSE IF FullLength(m, from) = 0 THEN Endless
           ELSE Scan(m, from + FullLength(m, from), limit, stops)
<1> DEFINE at == CHOOSE at : at = [a \in Nat |-> ScanStep(m, limit, stops, at, a)]
<1>1. at = [a \in Nat |-> ScanStep(m, limit, stops, at, a)]
  <2>1. \E f : f = [a \in Nat |-> ScanStep(m, limit, stops, f, a)]
    BY ScanExists
  <2>2. QED
    BY <2>1, Zenon
<1>2. \A a : Scan(m, a, limit, stops) = at[a]
  BY Zenon DEF Scan, ScanStep
<1> HIDE DEF at
<1>3. at[from] = ScanStep(m, limit, stops, at, from)
  <2> DEFINE F(f) == [a \in Nat |-> ScanStep(m, limit, stops, f, a)]
  <2>1. F(at)[from] = ScanStep(m, limit, stops, at, from)
    BY Zenon
  <2>2. QED
    BY <1>1, <2>1, Zenon
<1>4. QED
  BY <1>2, <1>3 DEF ScanStep

-----------------------------------------------------------------------------
(* Tables *)

KeyOf(m, a) == Bytes(m, a + HeaderSize, KeyLength(m, a))

\* The items at the addresses A are a chain that begins at FirstItem and ends at
\* the end tag at e.  They have keys of the firmware, no two the same, or are holes.
Table(m, A, e) ==
  /\ m \in Memories
  /\ A \subseteq 1 .. e - 1 /\ e \in 1 .. MemorySize - 3 /\ IsEnd(m, e)
  /\ FirstItem \in A \union {e}
  /\ \A a \in A : /\ FullLength(m, a) >= HeaderSize + 1
                  /\ a + FullLength(m, a) \in A \union {e}
                  /\ KeyLength(m, a) = 0 \/ HeaderSize + KeyLength(m, a) < FullLength(m, a)
  /\ \A a \in A : \A b \in A \union {e} : a < b => a + FullLength(m, a) <= b
  /\ \A a \in A : KeyLength(m, a) = 0 \/ KeyOf(m, a) \in Keys
  /\ \A a, b \in A : KeyLength(m, a) # 0 /\ KeyOf(m, a) = KeyOf(m, b) => a = b

\* What is known of one item
LEMMA Items ==
  ASSUME NEW m, NEW A, NEW e, Table(m, A, e)
  PROVE  /\ MemorySize \in Nat /\ m \in Memories
         /\ e \in Nat /\ 1 <= e /\ e + 3 <= MemorySize /\ FullLength(m, e) = 65535
         /\ \A a \in A \union {e} : /\ a \in Nat /\ 1 <= a /\ a <= e /\ a + 2 < MemorySize
                                    /\ FullLength(m, a) \in Nat /\ KeyLength(m, a) \in Nat
         /\ \A a \in A : /\ a < e /\ 4 <= FullLength(m, a) /\ a + FullLength(m, a) <= e
                         /\ ~IsEnd(m, a)
<1>1. MemorySize \in Nat /\ MemorySize <= 65535 /\ m \in Memories
  BY SizeAssumption DEF Table
<1>2. /\ e \in Nat /\ 1 <= e /\ e + 3 <= MemorySize /\ FullLength(m, e) = 65535
      /\ \A a \in A \union {e} : a \in Nat /\ 1 <= a /\ a <= e /\ a + 2 < MemorySize
  BY <1>1 DEF Table, IsEnd, EndTag
<1>3. \A a \in A \union {e} : FullLength(m, a) \in Nat /\ KeyLength(m, a) \in Nat
  BY <1>1, <1>2, Lengths
<1>4. ASSUME NEW a \in A
      PROVE  a < e /\ 4 <= FullLength(m, a) /\ a + FullLength(m, a) <= e /\ ~IsEnd(m, a)
  <2>1. a < e /\ 4 <= FullLength(m, a)
    BY <1>2, <1>3 DEF Table, HeaderSize
  <2>2. a + FullLength(m, a) <= e
    BY <1>2, <2>1 DEF Table
  <2>3. FullLength(m, a) # 65535
    BY <1>1, <1>2, <1>3, <2>2
  <2>4. QED
    BY <2>1, <2>2, <2>3 DEF IsEnd, EndTag
<1>5. QED
  BY <1>1, <1>2, <1>3, <1>4

\* ... and of the chain
LEMMA Chained ==
  ASSUME NEW m, NEW A, NEW e, Table(m, A, e)
  PROVE  /\ 1 \in A \union {e} /\ IsEnd(m, e)
         /\ \A a \in A : a + FullLength(m, a) \in A \union {e}
         /\ \A a \in A : \A b \in A \union {e} : a < b => a + FullLength(m, a) <= b
         /\ \A a \in A : KeyLength(m, a) = 0 \/ 3 + KeyLength(m, a) < FullLength(m, a)
  BY Zenon DEF Table, FirstItem, HeaderSize

\* r is what a scan from an item finds: the first item or end below the limit at
\* which it stops.
Found(A, e, from, limit, stops, r) ==
  \/ /\ r = Invalid
     /\ \A b \in A \union {e} : from <= b /\ b < limit => b \notin stops
  \/ /\ r \in A \union {e} /\ from <= r /\ r < limit /\ r \in stops
     /\ \A b \in A \union {e} : from <= b /\ b < r => b \notin stops

\* A scan of a table finds the first of the addresses at which it stops.
LEMMA ScanFinds ==
  ASSUME NEW m, NEW A, NEW e, Table(m, A, e),
         NEW limit \in Nat, limit <= MemorySize - 2, NEW stops, NEW from \in A \union {e}
  PROVE  Found(A, e, from, limit, stops, Scan(m, from, limit, stops))
<1> DEFINE S(a) == Scan(m, a, limit, stops)
           F(a) == Found(A, e, a, limit, stops, S(a))
           T == {k \in Nat : \A a \in A \union {e} : e - a <= k => F(a)}
<1>0. MemorySize \in Nat /\ MemorySize <= 65535
  BY SizeAssumption
<1>1. /\ m \in Memories /\ e \in Nat
      /\ \A a \in A \union {e} : a \in Nat /\ a <= e
      /\ \A a \in A : /\ FullLength(m, a) \in Nat /\ 4 <= FullLength(m, a)
                      /\ a + FullLength(m, a) \in A \union {e}
      /\ \A a \in A : \A b \in A \union {e} : a < b => a + FullLength(m, a) <= b
      /\ FullLength(m, e) = 65535
  BY Items, Chained
<1>2. \A a \in Nat : S(a) = IF a >= limit THEN Invalid
                            ELSE IF a \in stops THEN a
                            ELSE IF FullLength(m, a) = 0 THEN Endless
                            ELSE S(a + FullLength(m, a))
  BY <1>1, ScanEquation
<1> HIDE DEF S
<1>3. F(e)
  <2>1. CASE e >= limit
    <3>1. S(e) = Invalid
      BY <1>1, <1>2, <2>1
    <3>2. QED
      BY <1>1, <2>1, <3>1 DEF Found
  <2>2. CASE e < limit /\ e \in stops
    <3>1. S(e) = e
      BY <1>1, <1>2, <2>2
    <3>2. QED
      BY <1>1, <2>2, <3>1 DEF Found
  <2>3. CASE e < limit /\ e \notin stops
    <3>1. e + 65535 \in Nat /\ e + 65535 >= limit
      BY <1>0, <1>1
    <3>2. S(e) = S(e + 65535)
      BY <1>1, <1>2, <2>3
    <3>3. S(e + 65535) = Invalid
      BY <1>2, <3>1
    <3>4. QED
      BY <1>1, <2>3, <3>2, <3>3 DEF Found
  <2>4. QED
    BY <1>1, <2>1, <2>2, <2>3
<1>4. ASSUME NEW a \in A, F(a + FullLength(m, a)) PROVE F(a)
  <2>1. CASE a >= limit
    <3>1. S(a) = Invalid
      BY <1>1, <1>2, <2>1
    <3>2. QED
      BY <1>1, <2>1, <3>1 DEF Found
  <2>2. CASE a < limit /\ a \in stops
    <3>1. S(a) = a
      BY <1>1, <1>2, <2>2
    <3>2. QED
      BY <1>1, <2>2, <3>1 DEF Found
  <2>3. CASE a < limit /\ a \notin stops
    <3> DEFINE next == a + FullLength(m, a)
    <3>1. S(a) = S(next)
      BY <1>1, <1>2, <2>3
    <3>2. /\ next \in A \union {e} /\ next \in Nat /\ a < next
          /\ \A b \in A \union {e} : a <= b => b = a \/ next <= b
      BY <1>1
    <3>3. Found(A, e, next, limit, stops, S(next))
      BY <1>4
    <3> HIDE DEF next
    <3>4. Found(A, e, a, limit, stops, S(next))
      <4>1. CASE /\ S(next) = Invalid
                 /\ \A b \in A \union {e} : next <= b /\ b < limit => b \notin stops
        <5>1. \A b \in A \union {e} : a <= b /\ b < limit => b \notin stops
          BY <2>3, <3>2, <4>1
        <5>2. QED
          BY <4>1, <5>1 DEF Found
      <4>2. CASE /\ S(next) \in A \union {e} /\ next <= S(next)
                 /\ S(next) < limit /\ S(next) \in stops
                 /\ \A b \in A \union {e} : next <= b /\ b < S(next) => b \notin stops
        <5>1. \A b \in A \union {e} : a <= b /\ b < S(next) => b \notin stops
          BY <2>3, <3>2, <4>2
        <5>2. \A b \in A \union {e} : next <= b => a <= b
          BY <1>1, <3>2
        <5>3. QED
          BY <4>2, <5>1, <5>2 DEF Found
      <4>3. QED
        BY <3>3, <4>1, <4>2 DEF Found
    <3>5. QED
      BY <3>1, <3>4
  <2>4. QED
    BY <1>1, <2>1, <2>2, <2>3
<1> HIDE DEF F
<1>5. 0 \in T
  BY <1>1, <1>3
<1>6. ASSUME NEW k \in Nat, k \in T PROVE k + 1 \in T
  <2>1. ASSUME NEW a \in A, e - a <= k + 1 PROVE F(a)
    <3>1. /\ a + FullLength(m, a) \in A \union {e} /\ a + FullLength(m, a) \in Nat
          /\ e - (a + FullLength(m, a)) <= k
      BY <1>1, <2>1
    <3>2. F(a + FullLength(m, a))
      BY <1>6, <3>1
    <3>3. QED
      BY <1>4, <3>2
  <2>2. QED
    BY <1>3, <2>1
<1>7. Nat \subseteq T
  BY <1>5, <1>6, Counting
<1>8. e - from \in Nat
  BY <1>1
<1>9. F(from)
  BY <1>7, <1>8
<1>10. QED
  BY <1>9 DEF F, S

\* What the searches find in a table
LEMMA FindEndOf ==
  ASSUME NEW m, NEW A, NEW e, Table(m, A, e), NEW from \in A \union {e}
  PROVE  FindEnd(m, from) = e
<1> DEFINE stops == {a \in Nat : FullLength(m, a) < HeaderSize + 1 \/ IsEnd(m, a)}
           end == Scan(m, from, MemorySize - 2, stops)
<1>1. MemorySize - 2 \in Nat /\ MemorySize - 2 <= MemorySize - 2
  BY SizeAssumption
<1>2. Found(A, e, from, MemorySize - 2, stops, end)
  BY <1>1, ScanFinds
<1>3. \A a \in A : a \notin stops
  BY Items DEF HeaderSize
<1>4. e \in stops /\ from <= e /\ e < MemorySize - 2 /\ IsEnd(m, e) /\ IsValid(e)
  BY Items, Chained DEF IsValid
<1>5. FindEnd(m, from) = Unless(end, ~IsEnd(m, end))
  BY Zenon DEF FindEnd
<1> HIDE DEF stops, end
<1>6. end = e
  BY <1>2, <1>3, <1>4 DEF Found
<1>7. QED
  BY <1>4, <1>5, <1>6 DEF Unless

\* findHole() finds the first hole; the end tag may look like one.
LEMMA FindHoleOf ==
  ASSUME NEW m, NEW A, NEW e, Table(m, A, e), NEW from \in A \union {e},
         NEW hole, hole = FindHole(m, from)
  PROVE  \/ hole = Invalid /\ \A a \in A : from <= a => KeyLength(m, a) # 0
         \/ /\ hole \in A \union {e} /\ from <= hole /\ KeyLength(m, hole) = 0
            /\ \A a \in A : from <= a /\ a < hole => KeyLength(m, a) # 0
<1> DEFINE stops == {a \in Nat : KeyLength(m, a) = 0}
<1>1. MemorySize - 2 \in Nat /\ MemorySize - 2 <= MemorySize - 2
  BY SizeAssumption
<1>2. Found(A, e, from, MemorySize - 2, stops, hole)
  BY <1>1, ScanFinds DEF FindHole
<1>3. \A a \in A \union {e} : a < MemorySize - 2 /\ (a \in stops <=> KeyLength(m, a) = 0)
  BY Items
<1> HIDE DEF stops
<1>4. QED
  BY <1>2, <1>3 DEF Found

\* findNextItem() finds the next item with a key.
LEMMA FindNextItemOf ==
  ASSUME NEW m, NEW A, NEW e, Table(m, A, e), NEW from \in A \union {e},
         NEW item, item = FindNextItem(m, from)
  PROVE  \/ item = Invalid /\ \A a \in A : from < a => KeyLength(m, a) = 0
         \/ /\ item \in A /\ from < item /\ KeyLength(m, item) # 0
            /\ \A a \in A : from < a /\ a < item => KeyLength(m, a) = 0
<1> DEFINE stops == {a \in Nat : KeyLength(m, a) # 0 \/ IsEnd(m, a)}
           next == from + FullLength(m, from)
           found == Scan(m, next, MemorySize - 3, stops)
<1>1. MemorySize - 3 \in Nat /\ MemorySize - 3 <= MemorySize - 2
  BY SizeAssumption
<1>2. item = IF IsEnd(m, from) THEN Invalid ELSE Unless(found, IsEnd(m, found))
  BY Zenon DEF FindNextItem
<1>3. /\ \A a \in A : a \in Nat /\ a < e /\ a < MemorySize - 3 /\ ~IsEnd(m, a)
      /\ \A a \in A : a \in stops <=> KeyLength(m, a) # 0
      /\ e \in Nat /\ IsEnd(m, e)
  BY Items, Chained
<1>4. CASE from = e
  BY <1>2, <1>3, <1>4
<1>5. CASE from \in A
  <2>1. next \in A \union {e} /\ from < next /\ \A a \in A : from < a => next <= a
    BY <1>5, Items, Chained
  <2>2. Found(A, e, next, MemorySize - 3, stops, found)
    BY <1>1, <2>1, ScanFinds
  <2>3. item = Unless(found, IsEnd(m, found))
    BY <1>2, <1>3, <1>5
  <2> HIDE DEF stops, next, found
  <2>4. CASE /\ found = Invalid
             /\ \A b \in A \union {e} : next <= b /\ b < MemorySize - 3 => b \notin stops
    <3>1. item = Invalid
      BY <2>3, <2>4 DEF Unless, IsValid, Invalid
    <3>2. QED
      BY <1>3, <2>1, <2>4, <3>1
  <2>5. CASE /\ found \in A \union {e} /\ next <= found
             /\ found < MemorySize - 3 /\ found \in stops
             /\ \A b \in A \union {e} : next <= b /\ b < found => b \notin stops
    <3>1. CASE found = e
      <4>1. item = Invalid
        BY <1>3, <2>3, <3>1 DEF Unless, IsValid
      <4>2. QED
        BY <1>3, <2>1, <2>5, <3>1, <4>1
    <3>2. CASE found \in A
      <4>1. item = found
        BY <1>3, <2>3, <3>2 DEF Unless
      <4>2. from < found
        BY <1>3, <1>5, <2>1, <2>5, <3>2
      <4>3. QED
        BY <1>3, <2>1, <2>5, <3>2, <4>1, <4>2
    <3>3. QED
      BY <2>5, <3>1, <3>2
  <2>6. QED
    BY <2>2, <2>4, <2>5 DEF Found
<1>6. QED
  BY <1>4, <1>5

\* Bytes() is a sequence of its length.
LEMMA BytesLength ==
  ASSUME NEW m, NEW a, NEW n \in Nat
  PROVE  /\ DOMAIN Bytes(m, a, n) = 1 .. n /\ Len(Bytes(m, a, n)) = n
         /\ \A i \in 1 .. n : Bytes(m, a, n)[i] = m[a + i - 1]
<1>1. DOMAIN Bytes(m, a, n) = 1 .. n /\ \A i \in 1 .. n : Bytes(m, a, n)[i] = m[a + i - 1]
  BY DEF Bytes
<1>2. Len(Bytes(m, a, n)) = n
  <2> DEFINE T == {m[a + i - 1] : i \in 1 .. n}
  <2>1. Bytes(m, a, n) \in [1 .. n -> T]
    BY DEF Bytes
  <2>2. Bytes(m, a, n) \in Seq(T)
    BY <2>1, SeqDef, Zenon
  <2>3. QED
    BY <1>1, <2>2, LenProperties
<1>3. QED
  BY <1>1, <1>2

\* findItemByKey() finds the item that has the key, if there is one.
LEMMA FindItemByKeyOf ==
  ASSUME NEW m, NEW A, NEW e, Table(m, A, e), NEW key \in Strings, key # <<>>,
         NEW item, item = FindItemByKey(m, key)
  PROVE  \/ item = Invalid /\ \A a \in A : KeyOf(m, a) # key
         \/ item \in A /\ KeyOf(m, item) = key /\ KeyLength(m, item) = Len(key)
<1> DEFINE stops == {a \in Nat : IsEnd(m, a) \/ (KeyLength(m, a) = Len(key) /\ HasKey(m, a, key))}
           found == Scan(m, FirstItem, MemorySize - 3, stops)
<1>1. MemorySize - 3 \in Nat /\ MemorySize - 3 <= MemorySize - 2
  BY SizeAssumption
<1>2. item = Unless(found, IsEnd(m, found))
  BY Zenon DEF FindItemByKey
<1>3. FirstItem \in A \union {e}
  BY Zenon DEF Table
<1>4. Found(A, e, FirstItem, MemorySize - 3, stops, found)
  BY <1>1, <1>3, ScanFinds
<1>5. /\ \A a \in A : a \in Nat /\ a < e /\ a < MemorySize - 3 /\ ~IsEnd(m, a) /\ FirstItem <= a
      /\ e \in Nat /\ IsEnd(m, e)
  BY Items, Chained DEF FirstItem
<1>6. Len(key) \in Nat /\ Len(key) # 0
  BY EmptySeq DEF Strings
<1>7. ASSUME NEW a \in A
      PROVE  /\ a \in stops <=> KeyOf(m, a) = key
             /\ KeyOf(m, a) = key => KeyLength(m, a) = Len(key)
  <2>1. KeyOf(m, a) = key => KeyLength(m, a) = Len(key)
    <3>1. KeyLength(m, a) \in Nat
      BY Items
    <3>2. QED
      BY <3>1, BytesLength DEF KeyOf
  <2>2. KeyLength(m, a) = Len(key) => a + HeaderSize + Len(key) <= MemorySize
    <3>1. /\ a \in Nat /\ FullLength(m, a) \in Nat /\ e \in Nat /\ MemorySize \in Nat
          /\ a + FullLength(m, a) <= e /\ e + 3 <= MemorySize
      BY Items
    <3>2. KeyLength(m, a) = Len(key) => 3 + Len(key) < FullLength(m, a)
      BY <1>6, Chained
    <3>3. QED
      BY <1>6, <3>1, <3>2 DEF HeaderSize
  <2>3. a \in stops <=> KeyLength(m, a) = Len(key) /\ HasKey(m, a, key)
    BY <1>5
  <2>4. KeyLength(m, a) = Len(key) => (HasKey(m, a, key) <=> KeyOf(m, a) = key)
    BY <2>2 DEF HasKey, KeyOf
  <2>5. QED
    BY <2>1, <2>3, <2>4
<1> HIDE DEF stops, found
<1>8. CASE /\ found = Invalid
           /\ \A b \in A \union {e} : FirstItem <= b /\ b < MemorySize - 3 => b \notin stops
  <2>1. item = Invalid
    BY <1>2, <1>8 DEF Unless, IsValid, Invalid
  <2>2. QED
    BY <1>5, <1>7, <1>8, <2>1
<1>9. CASE /\ found \in A \union {e} /\ FirstItem <= found
           /\ found < MemorySize - 3 /\ found \in stops
           /\ \A b \in A \union {e} : FirstItem <= b /\ b < found => b \notin stops
  <2>1. CASE found = e
    <3>1. item = Invalid
      BY <1>2, <1>5, <2>1 DEF Unless, IsValid
    <3>2. QED
      BY <1>5, <1>7, <1>9, <2>1, <3>1
  <2>2. CASE found \in A
    <3>1. item = found
      BY <1>2, <1>5, <2>2 DEF Unless
    <3>2. QED
      BY <1>7, <1>9, <2>2, <3>1
  <2>3. QED
    BY <1>9, <2>1, <2>2
<1>10. QED
  BY <1>4, <1>8, <1>9 DEF Found

\* Fetch() returns the value of the one item that has the key, and nothing if
\* there is none.
LEMMA FetchOf ==
  ASSUME NEW m, NEW A, NEW e, Table(m, A, e), NEW key \in Strings, key # <<>>
  PROVE  /\ \A a \in A : KeyOf(m, a) = key => /\ FindItemByKey(m, key) = a
                                              /\ Fetch(m, key) = GetBuffer(m, a)
                                              /\ GetBuffer(m, a) # <<>>
                                              /\ KeyLength(m, a) = Len(key)
         /\ (\A a \in A : KeyOf(m, a) # key) => /\ FindItemByKey(m, key) = Invalid
                                                /\ Fetch(m, key) = <<>>
<1> DEFINE item == FindItemByKey(m, key)
<1>1. Len(key) \in Nat /\ Len(key) # 0
  BY EmptySeq DEF Strings
<1>2. \/ item = Invalid /\ \A a \in A : KeyOf(m, a) # key
      \/ item \in A /\ KeyOf(m, item) = key /\ KeyLength(m, item) = Len(key)
  BY FindItemByKeyOf
<1>3. Fetch(m, key) = IF IsValid(item) THEN GetBuffer(m, item) ELSE <<>>
  BY Zenon DEF Fetch
<1> HIDE DEF item
<1>4. ASSUME NEW a \in A, KeyOf(m, a) = key
      PROVE  /\ item = a /\ Fetch(m, key) = GetBuffer(m, a) /\ GetBuffer(m, a) # <<>>
             /\ KeyLength(m, a) = Len(key)
  <2>1. item \in A /\ KeyOf(m, item) = key /\ KeyLength(m, item) = Len(key)
    BY <1>2, <1>4
  <2>2. item = a
    BY <1>1, <1>4, <2>1, Zenon DEF Table
  <2>3. a \in Nat /\ IsValid(a)
    BY Items DEF IsValid
  <2>4. GetBuffer(m, a) # <<>>
    <3> DEFINE n == FullLength(m, a) - HeaderSize - KeyLength(m, a)
    <3>1. n \in Nat \ {0}
      <4>1. /\ 3 + KeyLength(m, a) < FullLength(m, a) /\ FullLength(m, a) \in Nat
            /\ KeyLength(m, a) \in Nat
        BY <1>1, <2>1, <2>2, Items, Chained
      <4>2. QED
        BY <4>1 DEF HeaderSize
    <3>2. Len(GetBuffer(m, a)) = n
      BY <3>1, BytesLength DEF GetBuffer
    <3>3. Len(<<>>) = 0
      OBVIOUS
    <3>4. QED
      BY <3>1, <3>2, <3>3
  <2>5. QED
    BY <1>3, <2>1, <2>2, <2>3, <2>4
<1>5. ASSUME \A a \in A : KeyOf(m, a) # key
      PROVE  item = Invalid /\ Fetch(m, key) = <<>>
  <2>1. item = Invalid
    BY <1>2, <1>5
  <2>2. QED
    BY <1>3, <2>1 DEF IsValid, Invalid
<1>6. QED
  BY <1>4, <1>5 DEF item

-----------------------------------------------------------------------------
(* Writes *)

PageWrites == [at : Nat, bytes : Strings]

\* A string has as many bytes as it is long.
LEMMA StringFacts ==
  ASSUME NEW s \in Strings
  PROVE  /\ Len(s) \in Nat /\ DOMAIN s = 1 .. Len(s) /\ (s # <<>> => Len(s) # 0)
         /\ \A i \in 1 .. Len(s) : s[i] \in 0 .. 255
  BY LenProperties, ElementOfSeq, EmptySeq DEF Strings

\* A write changes the bytes that it covers.
LEMMA Applied ==
  ASSUME NEW m \in Memories, NEW at \in Nat, NEW bytes \in Strings,
         at + Len(bytes) <= MemorySize
  PROVE  /\ Apply(m, [at |-> at, bytes |-> bytes]) \in Memories
         /\ \A x \in Cells : Apply(m, [at |-> at, bytes |-> bytes])[x] =
              IF at <= x /\ x < at + Len(bytes) THEN bytes[x - at + 1] ELSE m[x]
<1> DEFINE m2 == Apply(m, [at |-> at, bytes |-> bytes])
<1>1. Len(bytes) \in Nat /\ \A i \in 1 .. Len(bytes) : bytes[i] \in 0 .. 255
  BY StringFacts
<1>2. MemorySize \in Nat
  BY SizeAssumption
<1>3. m2 = [x \in Cells |-> IF x \in at .. at + Len(bytes) - 1 THEN bytes[x - at + 1] ELSE m[x]]
  BY DEF Apply, Memories
<1> HIDE DEF m2
<1>4. ASSUME NEW x \in Cells
      PROVE  /\ x \in at .. at + Len(bytes) - 1 <=> at <= x /\ x < at + Len(bytes)
             /\ at <= x /\ x < at + Len(bytes) => x - at + 1 \in 1 .. Len(bytes)
             /\ m[x] \in 0 .. 255
  BY <1>1, <1>2 DEF Cells, Memories
<1>5. \A x \in Cells : m2[x] = IF at <= x /\ x < at + Len(bytes)
                               THEN bytes[x - at + 1] ELSE m[x]
  BY <1>3, <1>4
<1>6. \A x \in Cells : m2[x] \in 0 .. 255
  BY <1>1, <1>4, <1>5, Zenon
<1>7. QED
  <2>1. m2 = [x \in Cells |-> m2[x]]
    BY <1>3
  <2>2. QED
    BY <1>5, <1>6, <2>1 DEF Memories, m2

\* The writes lead from one memory to another, over others
Leads(m, ws, m2) ==
  \E t \in [0 .. Len(ws) -> Memories] :
    /\ t[0] = m /\ t[Len(ws)] = m2
    /\ \A i \in 1 .. Len(ws) : t[i] = Apply(t[i - 1], ws[i])

\* No writes lead from a memory to itself.
LEMMA LeadsNowhere ==
  ASSUME NEW m \in Memories
  PROVE  Leads(m, <<>>, m) /\ \A m2 : Leads(m, <<>>, m2) => m2 = m
<1>1. Len(<<>>) = 0 /\ 0 .. 0 = {0} /\ 1 .. 0 = {}
  OBVIOUS
<1>2. Leads(m, <<>>, m)
  <2> DEFINE t == [i \in 0 .. 0 |-> m]
  <2>1. t \in [0 .. 0 -> Memories] /\ t[0] = m
    OBVIOUS
  <2> HIDE DEF t
  <2>2. QED
    BY <1>1, <2>1 DEF Leads
<1>3. QED
  BY <1>1, <1>2 DEF Leads

\* Writes lead on from where others led.
LEMMA LeadsOn ==
  ASSUME NEW a, NEW b, NEW c, NEW ws \in Seq(PageWrites), NEW vs \in Seq(PageWrites),
         Leads(a, ws, b), Leads(b, vs, c)
  PROVE  Leads(a, ws \o vs, c)
<1>1. PICK t \in [0 .. Len(ws) -> Memories] :
        /\ t[0] = a /\ t[Len(ws)] = b
        /\ \A i \in 1 .. Len(ws) : t[i] = Apply(t[i - 1], ws[i])
  BY DEF Leads
<1>2. PICK u \in [0 .. Len(vs) -> Memories] :
        /\ u[0] = b /\ u[Len(vs)] = c
        /\ \A i \in 1 .. Len(vs) : u[i] = Apply(u[i - 1], vs[i])
  BY DEF Leads
<1> DEFINE n == Len(ws)
           k == Len(vs)
           both == ws \o vs
           v == [i \in 0 .. n + k |-> IF i <= n THEN t[i] ELSE u[i - n]]
<1>3. /\ n \in Nat /\ k \in Nat /\ Len(both) = n + k
      /\ \A i \in 1 .. n + k : both[i] = IF i <= n THEN ws[i] ELSE vs[i - n]
  BY ConcatProperties, LenProperties
<1>4. v \in [0 .. n + k -> Memories]
  BY <1>3
<1>5. v[0] = a /\ v[n + k] = c
  <2>1. CASE k = 0
    <3>1. n + k = n /\ c = b /\ n \in 0 .. n + k /\ 0 \in 0 .. n + k
      BY <1>2, <1>3, <2>1
    <3>2. QED
      BY <1>1, <1>3, <3>1
  <2>2. CASE k # 0
    <3>1. ~ (n + k <= n) /\ (n + k) - n = k /\ n + k \in 0 .. n + k /\ 0 \in 0 .. n + k
      BY <1>3, <2>2
    <3>2. QED
      BY <1>1, <1>2, <1>3, <3>1
  <2>3. QED
    BY <2>1, <2>2
<1>6. ASSUME NEW i \in 1 .. n + k PROVE v[i] = Apply(v[i - 1], both[i])
  <2>1. CASE i <= n
    <3>1. i \in 1 .. n /\ v[i] = t[i] /\ v[i - 1] = t[i - 1] /\ both[i] = ws[i]
      BY <1>3, <2>1
    <3>2. QED
      BY <1>1, <3>1
  <2>2. CASE i = n + 1
    <3>1. 1 \in 1 .. k /\ v[i] = u[1] /\ v[i - 1] = u[0] /\ both[i] = vs[1]
      BY <1>1, <1>2, <1>3, <2>2
    <3>2. u[1] = Apply(u[1 - 1], vs[1])
      BY <1>2, <3>1
    <3>3. QED
      BY <3>1, <3>2
  <2>3. CASE n + 1 < i
    <3>1. /\ i - n \in 1 .. k /\ v[i] = u[i - n] /\ v[i - 1] = u[(i - n) - 1]
          /\ both[i] = vs[i - n]
      BY <1>3, <2>3
    <3>2. QED
      BY <1>2, <3>1
  <2>4. QED
    BY <1>3, <2>1, <2>2, <2>3
<1> HIDE DEF v, both, n, k
<1>7. Leads(a, both, c)
  BY <1>3, <1>4, <1>5, <1>6 DEF Leads
<1>8. QED
  BY <1>7 DEF both

\* After the first write the others still lead to the same memory.
LEMMA LeadsTail ==
  ASSUME NEW m, NEW m2, NEW ws \in Seq(PageWrites), ws # <<>>, Leads(m, ws, m2)
  PROVE  /\ Leads(Apply(m, Head(ws)), Tail(ws), m2) /\ Apply(m, Head(ws)) \in Memories
         /\ Tail(ws) \in Seq(PageWrites)
<1>1. PICK t \in [0 .. Len(ws) -> Memories] :
        /\ t[0] = m /\ t[Len(ws)] = m2
        /\ \A i \in 1 .. Len(ws) : t[i] = Apply(t[i - 1], ws[i])
  BY DEF Leads
<1> DEFINE n == Len(ws)
           rest == Tail(ws)
           u == [i \in 0 .. n - 1 |-> t[i + 1]]
<1>2. /\ n \in Nat \ {0} /\ Head(ws) = ws[1] /\ rest \in Seq(PageWrites) /\ Len(rest) = n - 1
      /\ \A i \in 1 .. n - 1 : rest[i] = ws[i + 1]
  BY HeadTailProperties, EmptySeq
<1>3. u \in [0 .. n - 1 -> Memories] /\ u[0] = t[1] /\ u[n - 1] = m2
  BY <1>1, <1>2
<1>4. t[1] = Apply(m, Head(ws)) /\ t[1] \in Memories
  <2>1. 1 \in 1 .. n /\ 1 \in 0 .. n
    BY <1>2
  <2>2. t[1] = Apply(t[1 - 1], ws[1])
    BY <1>1, <2>1
  <2>3. QED
    BY <1>1, <1>2, <2>1, <2>2
<1>5. ASSUME NEW i \in 1 .. n - 1 PROVE u[i] = Apply(u[i - 1], rest[i])
  <2>1. i + 1 \in 1 .. n /\ u[i] = t[i + 1] /\ u[i - 1] = t[i] /\ rest[i] = ws[i + 1]
    BY <1>2
  <2>2. t[i + 1] = Apply(t[(i + 1) - 1], ws[i + 1])
    BY <1>1, <2>1
  <2>3. (i + 1) - 1 = i
    OBVIOUS
  <2>4. QED
    BY <2>1, <2>2, <2>3
<1> HIDE DEF u, rest, n
<1>6. Leads(Apply(m, Head(ws)), rest, m2)
  BY <1>2, <1>3, <1>4, <1>5, Zenon DEF Leads
<1>7. QED
  BY <1>2, <1>4, <1>6 DEF rest

\* The pages are the bytes, cut into pieces.
LEMMA PagesCut ==
  ASSUME NEW at \in Nat, NEW bytes \in Strings, bytes # <<>>
  PROVE  \E n \in Nat \ {0} : \E cut \in [0 .. n -> Nat] :
           /\ cut[0] = at /\ cut[n] = at + Len(bytes)
           /\ \A i \in 1 .. n : cut[i - 1] <= cut[i]
           /\ \A i \in 0 .. n : at <= cut[i] /\ cut[i] <= at + Len(bytes)
           /\ Pages(at, bytes) =
                [i \in 1 .. n |-> [at |-> cut[i - 1],
                                   bytes |-> SubSeq(bytes, cut[i - 1] - at + 1, cut[i] - at)]]
<1> DEFINE L == Len(bytes)
           P == PageSize
           first == at \div P
           last == (at + L - 1) \div P
           n == last - first + 1
           Cut(i) == IF i = 0 THEN at ELSE IF i = n THEN at + L ELSE (first + i) * P
           cut == [i \in 0 .. n |-> Cut(i)]
<1>1. P \in Nat \ {0} /\ L \in Nat \ {0}
  BY StringFacts, SizeAssumption
<1> HIDE DEF P, L
<1>2. /\ first \in Nat /\ last \in Nat
      /\ first * P <= at /\ at < (first + 1) * P
      /\ last * P <= at + L - 1 /\ at + L - 1 < (last + 1) * P
  <2>1. \A x \in Nat : /\ x \div P \in Nat
                       /\ (x \div P) * P <= x /\ x < ((x \div P) + 1) * P
    BY <1>1
  <2>2. at + L - 1 \in Nat
    BY <1>1
  <2>3. QED
    BY <2>1, <2>2
<1>3. \A x, y \in Nat : x <= y => x * P <= y * P
  BY <1>1
<1>4. first <= last
  <2>1. CASE last + 1 <= first
    <3>1. (last + 1) * P <= first * P
      BY <1>2, <1>3, <2>1
    <3>2. (last + 1) * P \in Nat /\ first * P \in Nat
      BY <1>1, <1>2
    <3>3. QED
      BY <1>1, <1>2, <3>1, <3>2
  <2>2. QED
    BY <1>2, <2>1
<1> HIDE DEF first, last
<1>5. n \in Nat \ {0}
  BY <1>2, <1>4
<1>6. ASSUME NEW i \in 1 .. n, i # n
      PROVE  /\ Cut(i) = (first + i) * P /\ Cut(i) \in Nat
             /\ at < Cut(i) /\ Cut(i) <= at + L - 1
  <2>1. Cut(i) = (first + i) * P /\ Cut(i) \in Nat
    BY <1>1, <1>2, <1>6
  <2>2. first + 1 <= first + i /\ first + i <= last /\ first + i \in Nat /\ first + 1 \in Nat
    BY <1>2, <1>5, <1>6
  <2>3. (first + 1) * P <= (first + i) * P /\ (first + i) * P <= last * P
    BY <1>2, <1>3, <2>2
  <2>4. (first + 1) * P \in Nat /\ last * P \in Nat /\ (first + i) * P \in Nat
    BY <1>1, <1>2
  <2>5. QED
    BY <1>1, <1>2, <2>1, <2>3, <2>4
<1>7. Cut(0) = at /\ Cut(n) = at + L /\ at + L \in Nat
  BY <1>1, <1>5
<1>8. ASSUME NEW i \in 0 .. n PROVE Cut(i) \in Nat /\ at <= Cut(i) /\ Cut(i) <= at + L
  <2>1. CASE i = 0
    BY <1>1, <1>7, <2>1
  <2>2. CASE i = n
    BY <1>1, <1>7, <2>2
  <2>3. CASE i \in 1 .. n /\ i # n
    <3> HIDE DEF Cut
    <3>1. QED
      BY <1>1, <1>6, <2>3
  <2>4. QED
    BY <1>5, <2>1, <2>2, <2>3
<1>9. ASSUME NEW i \in 1 .. n PROVE Cut(i - 1) <= Cut(i)
  <2>1. CASE i = 1
    BY <1>5, <1>7, <1>8, <2>1
  <2>2. CASE i = n
    BY <1>5, <1>7, <1>8, <2>2
  <2>3. CASE i # 1 /\ i # n
    <3>1. i - 1 \in 1 .. n /\ i - 1 # n
      BY <1>5, <2>3
    <3>2. Cut(i) = (first + i) * P /\ Cut(i - 1) = (first + (i - 1)) * P
      BY <1>6, <2>3, <3>1
    <3>3. (first + (i - 1)) * P <= (first + i) * P
      BY <1>2, <1>3
    <3>4. QED
      BY <3>2, <3>3
  <2>4. QED
    BY <2>1, <2>2, <2>3
<1>10. Pages(at, bytes) =
         [i \in 1 .. n |-> [at |-> Cut(i - 1),
                            bytes |-> SubSeq(bytes, Cut(i - 1) - at + 1, Cut(i) - at)]]
  BY Zenon DEF Pages, L, P, first, last
<1> HIDE DEF n, Cut
<1>11. cut \in [0 .. n -> Nat] /\ \A i \in 0 .. n : cut[i] = Cut(i)
  BY <1>8
<1>12. \A i \in 1 .. n : i \in 0 .. n /\ i - 1 \in 0 .. n
  BY <1>5
<1>13. [i \in 1 .. n |-> [at |-> Cut(i - 1),
                          bytes |-> SubSeq(bytes, Cut(i - 1) - at + 1, Cut(i) - at)]]
       = [i \in 1 .. n |-> [at |-> cut[i - 1],
                            bytes |-> SubSeq(bytes, cut[i - 1] - at + 1, cut[i] - at)]]
  BY <1>11, <1>12
<1> HIDE DEF cut
<1>14. /\ cut[0] = at /\ cut[n] = at + L
       /\ \A i \in 1 .. n : cut[i - 1] <= cut[i]
       /\ \A i \in 0 .. n : at <= cut[i] /\ cut[i] <= at + L
  BY <1>5, <1>7, <1>8, <1>9, <1>11, <1>12
<1>15. Pages(at, bytes) =
         [i \in 1 .. n |-> [at |-> cut[i - 1],
                            bytes |-> SubSeq(bytes, cut[i - 1] - at + 1, cut[i] - at)]]
  BY <1>10, <1>13, Zenon
<1>16. QED
  BY <1>5, <1>11, <1>14, <1>15, Zenon DEF L


\* The pages are parts of the bytes.
PartsOf(ps, at, bytes) ==
  \A i \in 1 .. Len(ps) :
    /\ at <= ps[i].at /\ ps[i].at + Len(ps[i].bytes) <= at + Len(bytes)
    /\ \A k \in 1 .. Len(ps[i].bytes) : ps[i].bytes[k] = bytes[ps[i].at - at + k]

\* Page by page the bytes get where they belong.
LEMMA PagesLead ==
  ASSUME NEW m \in Memories, NEW at \in Nat, NEW bytes \in Strings, bytes # <<>>,
         at + Len(bytes) <= MemorySize,
         NEW ps, ps = Pages(at, bytes)
  PROVE  /\ ps \in Seq(PageWrites) /\ Len(ps) \in Nat \ {0}
         /\ Leads(m, ps, Apply(m, [at |-> at, bytes |-> bytes]))
         /\ ps[Len(ps)].at + Len(ps[Len(ps)].bytes) = at + Len(bytes)
         /\ PartsOf(ps, at, bytes)
<1>0. PICK n \in Nat \ {0} : \E cut \in [0 .. n -> Nat] :
           /\ cut[0] = at /\ cut[n] = at + Len(bytes)
           /\ \A i \in 1 .. n : cut[i - 1] <= cut[i]
           /\ \A i \in 0 .. n : at <= cut[i] /\ cut[i] <= at + Len(bytes)
           /\ Pages(at, bytes) =
                [i \in 1 .. n |-> [at |-> cut[i - 1],
                                   bytes |-> SubSeq(bytes, cut[i - 1] - at + 1, cut[i] - at)]]
  BY PagesCut
<1>1. PICK cut \in [0 .. n -> Nat] :
           /\ cut[0] = at /\ cut[n] = at + Len(bytes)
           /\ \A i \in 1 .. n : cut[i - 1] <= cut[i]
           /\ \A i \in 0 .. n : at <= cut[i] /\ cut[i] <= at + Len(bytes)
           /\ Pages(at, bytes) =
                [i \in 1 .. n |-> [at |-> cut[i - 1],
                                   bytes |-> SubSeq(bytes, cut[i - 1] - at + 1, cut[i] - at)]]
  BY <1>0
<1>2. /\ Len(bytes) \in Nat /\ MemorySize \in Nat
      /\ \A i \in 1 .. Len(bytes) : bytes[i] \in 0 .. 255
  <2>1. Len(bytes) \in Nat /\ \A i \in 1 .. Len(bytes) : bytes[i] \in 0 .. 255
    BY StringFacts
  <2>2. MemorySize \in Nat
    BY SizeAssumption
  <2>3. QED
    BY <2>1, <2>2
<1>3. ASSUME NEW i \in 1 .. n
      PROVE  /\ ps[i] \in PageWrites /\ ps[i].at = cut[i - 1]
             /\ Len(ps[i].bytes) = cut[i] - cut[i - 1]
             /\ \A k \in 1 .. cut[i] - cut[i - 1] : ps[i].bytes[k] = bytes[cut[i - 1] - at + k]
             /\ cut[i] \in Nat /\ cut[i - 1] \in Nat /\ cut[i - 1] <= cut[i] /\ at <= cut[i - 1]
             /\ cut[i] <= at + Len(bytes)
  <2> DEFINE a == cut[i - 1] - at + 1
             b == cut[i] - at
  <2>1. /\ i \in 0 .. n /\ i - 1 \in 0 .. n
    BY <1>1
  <2>2. /\ cut[i] \in Nat /\ cut[i - 1] \in Nat /\ cut[i - 1] <= cut[i] /\ at <= cut[i - 1]
        /\ cut[i] <= at + Len(bytes)
    BY <1>1, <2>1
  <2>3. a \in Int /\ b \in Int /\ \A k \in a .. b : bytes[k] \in 0 .. 255
    <3>1. \A k \in a .. b : k \in 1 .. Len(bytes)
      BY <1>2, <2>2
    <3>2. QED
      BY <1>2, <2>2, <3>1
  <2> DEFINE s == SubSeq(bytes, a, b)
  <2>4. /\ s \in Seq(0 .. 255) /\ Len(s) = (IF a <= b THEN b - a + 1 ELSE 0)
        /\ \A k \in 1 .. b - a + 1 : s[k] = bytes[a + k - 1]
    <3> HIDE DEF a, b
    <3>1. QED
      BY <2>3, SubSeqProperties
  <2>5. ps[i] = [at |-> cut[i - 1], bytes |-> s]
    BY <1>1
  <2> HIDE DEF s
  <2>6. Len(s) = cut[i] - cut[i - 1]
    BY <2>2, <2>4
  <2>7. \A k \in 1 .. cut[i] - cut[i - 1] : s[k] = bytes[cut[i - 1] - at + k]
    <3>1. ASSUME NEW k \in 1 .. cut[i] - cut[i - 1]
          PROVE  k \in 1 .. b - a + 1 /\ a + k - 1 = cut[i - 1] - at + k
      BY <2>2
    <3> HIDE DEF a, b
    <3>2. QED
      BY <2>4, <3>1
  <2>8. QED
    BY <2>2, <2>4, <2>5, <2>6, <2>7 DEF PageWrites, Strings
<1>4. ps \in Seq(PageWrites) /\ Len(ps) = n
  <2>1. ps \in [1 .. n -> PageWrites]
    BY <1>1, <1>3
  <2>2. ps \in Seq(PageWrites)
    BY <2>1, SeqDef
  <2>3. DOMAIN ps = 1 .. n /\ DOMAIN ps = 1 .. Len(ps) /\ Len(ps) \in Nat
    BY <2>1, <2>2, LenProperties
  <2>4. QED
    BY <2>2, <2>3
<1> DEFINE t == [i \in 0 .. n |->
                   [x \in Cells |-> IF at <= x /\ x < cut[i] THEN bytes[x - at + 1] ELSE m[x]]]
<1>5. ASSUME NEW i \in 0 .. n
      PROVE  /\ t[i] \in Memories
             /\ \A x \in Cells : t[i][x] = IF at <= x /\ x < cut[i] THEN bytes[x - at + 1] ELSE m[x]
  <2>1. ASSUME NEW x \in Cells, at <= x, x < cut[i] PROVE x - at + 1 \in 1 .. Len(bytes)
    <3>1. x \in Nat /\ cut[i] \in Nat /\ cut[i] <= at + Len(bytes)
      <4>1. x \in Nat
        BY <1>2 DEF Cells
      <4>2. QED
        BY <1>1, <4>1
    <3>2. QED
      BY <1>2, <2>1, <3>1
  <2>2. \A x \in Cells : (IF at <= x /\ x < cut[i] THEN bytes[x - at + 1] ELSE m[x]) \in 0 .. 255
    BY <1>2, <2>1 DEF Memories
  <2>3. QED
    BY <2>2 DEF Memories
<1>6. t \in [0 .. n -> Memories]
  BY <1>5
<1> HIDE DEF t
<1> DEFINE m2 == Apply(m, [at |-> at, bytes |-> bytes])
<1>7. /\ m2 \in Memories
      /\ \A x \in Cells : m2[x] = IF at <= x /\ x < at + Len(bytes) THEN bytes[x - at + 1] ELSE m[x]
  BY Applied
<1> HIDE DEF m2
<1>8. ASSUME NEW f \in Memories, NEW g \in Memories, \A x \in Cells : f[x] = g[x]
      PROVE  f = g
  BY <1>8 DEF Memories
<1>9. t[0] = m
  <2>1. 0 \in 0 .. n /\ \A x \in Cells : x \in Nat
    BY <1>2 DEF Cells
  <2>2. \A x \in Cells : t[0][x] = m[x]
    BY <1>1, <1>5, <2>1
  <2>3. QED
    BY <1>5, <1>8, <2>1, <2>2
<1>10. t[n] = m2
  <2>1. n \in 0 .. n
    OBVIOUS
  <2>2. \A x \in Cells : t[n][x] = m2[x]
    BY <1>1, <1>5, <1>7, <2>1
  <2>3. QED
    BY <1>5, <1>7, <1>8, <2>1, <2>2
<1>11. ASSUME NEW i \in 1 .. n PROVE t[i] = Apply(t[i - 1], ps[i])
  <2>1. i \in 0 .. n /\ i - 1 \in 0 .. n
    OBVIOUS
  <2>2. /\ ps[i] \in PageWrites /\ ps[i].at = cut[i - 1]
        /\ Len(ps[i].bytes) = cut[i] - cut[i - 1]
        /\ \A k \in 1 .. cut[i] - cut[i - 1] : ps[i].bytes[k] = bytes[cut[i - 1] - at + k]
        /\ cut[i] \in Nat /\ cut[i - 1] \in Nat /\ cut[i - 1] <= cut[i] /\ at <= cut[i - 1]
        /\ cut[i] <= at + Len(bytes)
    BY <1>3
  <2> DEFINE g == Apply(t[i - 1], [at |-> ps[i].at, bytes |-> ps[i].bytes])
  <2>3. ps[i] = [at |-> ps[i].at, bytes |-> ps[i].bytes] /\ ps[i].bytes \in Strings /\ ps[i].at \in Nat
    BY <2>2 DEF PageWrites
  <2>4. ps[i].at + Len(ps[i].bytes) = cut[i] /\ cut[i] <= MemorySize
    BY <1>2, <2>2
  <2>5. /\ g \in Memories
        /\ \A x \in Cells : g[x] = IF ps[i].at <= x /\ x < ps[i].at + Len(ps[i].bytes)
                                   THEN ps[i].bytes[x - ps[i].at + 1] ELSE t[i - 1][x]
    BY <1>5, <2>1, <2>3, <2>4, Applied
  <2> HIDE DEF g
  <2>6. ASSUME NEW x \in Cells PROVE t[i][x] = g[x]
    <3>1. x \in Nat
      BY <1>2 DEF Cells
    <3>2. g[x] = IF cut[i - 1] <= x /\ x < cut[i]
                 THEN ps[i].bytes[x - cut[i - 1] + 1] ELSE t[i - 1][x]
      BY <2>2, <2>4, <2>5
    <3>3. /\ t[i - 1][x] = IF at <= x /\ x < cut[i - 1] THEN bytes[x - at + 1] ELSE m[x]
          /\ t[i][x] = IF at <= x /\ x < cut[i] THEN bytes[x - at + 1] ELSE m[x]
      BY <1>5, <2>1
    <3>4. CASE cut[i - 1] <= x /\ x < cut[i]
      <4>1. x - cut[i - 1] + 1 \in 1 .. cut[i] - cut[i - 1]
        <5> DEFINE c == cut[i]
                   d == cut[i - 1]
        <5>1. c \in Nat /\ d \in Nat /\ d <= x /\ x < c
          BY <2>2, <3>4
        <5> HIDE DEF c, d
        <5>2. x - d + 1 \in 1 .. c - d
          BY <3>1, <5>1
        <5>3. QED
          BY <5>2 DEF c, d
      <4>2. cut[i - 1] - at + (x - cut[i - 1] + 1) = x - at + 1
        BY <2>2, <3>1
      <4>3. ps[i].bytes[x - cut[i - 1] + 1] = bytes[x - at + 1]
        BY <2>2, <4>1, <4>2
      <4>4. QED
        BY <2>2, <3>1, <3>2, <3>3, <3>4, <4>3
    <3>5. CASE x < cut[i - 1] \/ cut[i] <= x
      BY <2>2, <3>1, <3>2, <3>3, <3>5
    <3>6. QED
      BY <2>2, <3>1, <3>4, <3>5
  <2>7. t[i] = g
    BY <1>5, <1>8, <2>1, <2>5, <2>6
  <2>8. QED
    BY <2>3, <2>7 DEF g
<1>12. Leads(m, ps, m2)
  BY <1>4, <1>6, <1>9, <1>10, <1>11 DEF Leads
<1>13. ps[Len(ps)].at + Len(ps[Len(ps)].bytes) = at + Len(bytes)
  <2>1. n \in 1 .. n
    OBVIOUS
  <2>2. ps[n].at + Len(ps[n].bytes) = cut[n]
    BY <1>3, <2>1
  <2>3. QED
    BY <1>1, <1>4, <2>2
<1>14. ASSUME NEW i \in 1 .. Len(ps)
       PROVE  /\ at <= ps[i].at /\ ps[i].at + Len(ps[i].bytes) <= at + Len(bytes)
              /\ \A k \in 1 .. Len(ps[i].bytes) : ps[i].bytes[k] = bytes[ps[i].at - at + k]
  <2>1. i \in 1 .. n
    BY <1>4
  <2> DEFINE p == ps[i]
             c == cut[i]
             d == cut[i - 1]
  <2>2. /\ p.at = d /\ Len(p.bytes) = c - d /\ c \in Nat /\ d \in Nat /\ at <= d
        /\ c <= at + Len(bytes)
        /\ \A k \in 1 .. c - d : p.bytes[k] = bytes[d - at + k]
    BY <1>3, <2>1
  <2> HIDE DEF p, c, d
  <2>3. at <= p.at
    BY <2>2
  <2>4. p.at + Len(p.bytes) = c
    BY <2>2
  <2>5. \A k \in 1 .. Len(p.bytes) : p.bytes[k] = bytes[p.at - at + k]
    BY <2>2, Zenon
  <2>6. QED
    BY <2>2, <2>3, <2>4, <2>5 DEF p
<1>15. PartsOf(ps, at, bytes)
  BY <1>14 DEF PartsOf
<1>16. QED
  BY <1>4, <1>12, <1>13, <1>15 DEF m2

\* A run of writes that began with the memory m
RunOf(m, run) ==
  /\ run = [mem |-> run.mem, writes |-> run.writes, ok |-> run.ok, endless |-> run.endless]
  /\ run.mem \in Memories /\ run.writes \in Seq(PageWrites)
  /\ Leads(m, run.writes, run.mem)

\* A run starts with what it finds, and without writes.
LEMMA RunStarts ==
  ASSUME NEW m \in Memories
  PROVE  /\ RunOf(m, Start(m)) /\ Start(m).mem = m /\ Start(m).writes = <<>>
         /\ Start(m).ok = TRUE /\ Start(m).endless = FALSE
<1>1. Start(m) = [mem |-> m, writes |-> <<>>, ok |-> TRUE, endless |-> FALSE]
  BY DEF Start
<1>2. <<>> \in Seq(PageWrites) /\ Leads(m, <<>>, m)
  BY EmptySeq, LeadsNowhere
<1>3. QED
  BY <1>1, <1>2 DEF RunOf

\* A run that fails or hangs has written what it had written before.
LEMMA RunFails ==
  ASSUME NEW m, NEW run, RunOf(m, run)
  PROVE  /\ RunOf(m, Fails(run)) /\ Fails(run).ok = FALSE /\ Fails(run).mem = run.mem
         /\ Fails(run).writes = run.writes /\ Fails(run).endless = run.endless
         /\ RunOf(m, Loops(run)) /\ Loops(run).endless = TRUE /\ Loops(run).mem = run.mem
<1>1. /\ run = [mem |-> run.mem, writes |-> run.writes, ok |-> run.ok, endless |-> run.endless]
      /\ run.mem \in Memories /\ run.writes \in Seq(PageWrites)
      /\ Leads(m, run.writes, run.mem)
  BY DEF RunOf
<1>2. ASSUME NEW a, NEW b, NEW c, NEW d, run = [mem |-> a, writes |-> b, ok |-> c, endless |-> d]
      PROVE  /\ Fails(run) = [mem |-> a, writes |-> b, ok |-> FALSE, endless |-> d]
             /\ Loops(run) = [mem |-> a, writes |-> b, ok |-> c, endless |-> TRUE]
  <2>1. ASSUME NEW x
        PROVE  [[mem |-> a, writes |-> b, ok |-> c, endless |-> d] EXCEPT !.ok = x]
                 = [mem |-> a, writes |-> b, ok |-> x, endless |-> d]
    OBVIOUS
  <2>2. ASSUME NEW x
        PROVE  [[mem |-> a, writes |-> b, ok |-> c, endless |-> d] EXCEPT !.endless = x]
                 = [mem |-> a, writes |-> b, ok |-> c, endless |-> x]
    OBVIOUS
  <2>3. QED
    BY <1>2, <2>1, <2>2, Zenon DEF Fails, Loops
<1>3. /\ Fails(run) = [mem |-> run.mem, writes |-> run.writes, ok |-> FALSE, endless |-> run.endless]
      /\ Loops(run) = [mem |-> run.mem, writes |-> run.writes, ok |-> run.ok, endless |-> TRUE]
  BY <1>1, <1>2, Zenon
<1>4. QED
  BY <1>1, <1>3 DEF RunOf

\* The run goes on with a write.
Wrote(m, run, at, bytes, r) ==
  /\ RunOf(m, r) /\ r.ok = run.ok /\ r.endless = run.endless
  /\ r.mem = Apply(run.mem, [at |-> at, bytes |-> bytes])
  /\ r.writes = run.writes \o Pages(at, bytes)

\* A write adds its pages to those of the run, and they lead to what it leaves.
LEMMA RunWrites ==
  ASSUME NEW m, NEW run, RunOf(m, run), NEW at \in Nat, NEW bytes \in Strings, bytes # <<>>,
         at + Len(bytes) <= MemorySize
  PROVE  Wrote(m, run, at, bytes, Write(run, at, bytes))
<1> DEFINE r == Write(run, at, bytes)
<1>1. /\ run = [mem |-> run.mem, writes |-> run.writes, ok |-> run.ok, endless |-> run.endless]
      /\ run.mem \in Memories /\ run.writes \in Seq(PageWrites)
      /\ Leads(m, run.writes, run.mem)
  BY DEF RunOf
<1> DEFINE m2 == Apply(run.mem, [at |-> at, bytes |-> bytes])
           ws == run.writes \o Pages(at, bytes)
<1>2. at + Len(bytes) \in Int /\ MemorySize \in Int
  <2>1. Len(bytes) \in Nat
    BY StringFacts
  <2>2. MemorySize \in Nat
    BY SizeAssumption
  <2>3. QED
    BY <2>1, <2>2
<1>3. r = [run EXCEPT !.mem = m2, !.writes = ws]
  <2>1. ~ (at + Len(bytes) > MemorySize)
    BY <1>2
  <2>2. QED
    BY <2>1, Zenon DEF Write
<1>4. /\ Pages(at, bytes) \in Seq(PageWrites) /\ Leads(run.mem, Pages(at, bytes), m2)
      /\ m2 \in Memories
  BY <1>1, PagesLead, Applied
<1>5. ws \in Seq(PageWrites) /\ Leads(m, ws, m2)
  BY <1>1, <1>4, LeadsOn, ConcatProperties
<1> HIDE DEF m2, ws, r
<1>6. r = [mem |-> m2, writes |-> ws, ok |-> run.ok, endless |-> run.endless]
  BY <1>1, <1>3
<1>7. QED
  <2>1. /\ RunOf(m, r) /\ r.ok = run.ok /\ r.endless = run.endless /\ r.mem = m2
        /\ r.writes = ws
    BY <1>4, <1>5, <1>6 DEF RunOf
  <2>2. QED
    BY <2>1, Zenon DEF Wrote, m2, ws, r

-----------------------------------------------------------------------------
(* What the table holds *)

\* An item of the table has this key and this value
Holds(m, A, key, value) == \E a \in A : KeyOf(m, a) = key /\ GetBuffer(m, a) = value

\* The keys are not empty, and their lengths fit in a byte.
LEMMA KeyFacts ==
  ASSUME NEW key \in Keys
  PROVE  /\ key \in Strings /\ key # <<>> /\ Len(key) \in Nat
         /\ 1 <= Len(key) /\ Len(key) <= 255
<1>1. key \in Strings /\ Prefix \in Strings /\ Prefix # <<>> /\ Len(key) <= 255
      /\ IsPrefix(Prefix, key)
  BY StringsAssumption
<1>2. Len(Prefix) \in Nat /\ Len(Prefix) # 0 /\ Len(key) \in Nat
  BY <1>1, StringFacts
<1>3. Len(Prefix) <= Len(key)
  BY <1>1 DEF IsPrefix
<1>4. Len(key) # 0
  BY <1>2, <1>3
<1>5. QED
  <2>1. key # <<>>
    BY <1>4
  <2>2. QED
    BY <1>1, <1>2, <1>4, <2>1

\* A value has at least one byte.
LEMMA ValueFacts ==
  ASSUME NEW value \in Values
  PROVE  value \in Strings /\ value # <<>> /\ Len(value) \in Nat /\ 1 <= Len(value)
<1>1. value \in Strings /\ value # <<>>
  BY StringsAssumption
<1>2. Len(value) \in Nat /\ Len(value) # 0
  BY <1>1, StringFacts
<1>3. QED
  BY <1>1, <1>2

\* What the table holds is what the storage contains.
LEMMA ContentsOf ==
  ASSUME NEW m, NEW A, NEW e, Table(m, A, e), NEW key \in Keys
  PROVE  /\ \A value : Holds(m, A, key, value) => Contents(m)[key] = value /\ value # <<>>
         /\ (\A value : ~Holds(m, A, key, value)) => Contents(m)[key] = <<>>
<1>1. key \in Strings /\ key # <<>> /\ Contents(m)[key] = Fetch(m, key)
  BY KeyFacts DEF Contents
<1>2. QED
  BY <1>1, FetchOf DEF Holds

\* Two tables that hold the same have the same contents.
LEMMA SameContents ==
  ASSUME NEW m, NEW A, NEW e, Table(m, A, e), NEW m2, NEW A2, NEW e2, Table(m2, A2, e2),
         NEW key \in Keys, \A value : Holds(m, A, key, value) <=> Holds(m2, A2, key, value)
  PROVE  Contents(m2)[key] = Contents(m)[key]
<1>1. CASE \E value : Holds(m, A, key, value)
  BY <1>1, ContentsOf
<1>2. CASE \A value : ~Holds(m, A, key, value)
  <2>1. \A value : ~Holds(m2, A2, key, value)
    BY <1>2
  <2>2. QED
    BY <1>2, <2>1, ContentsOf
<1>3. QED
  BY <1>1, <1>2

\* An item that is copied is the same item.
Copied(m, a, m2, b) ==
  /\ FullLength(m, a) \in Nat /\ 4 <= FullLength(m, a) /\ a + FullLength(m, a) <= MemorySize
  /\ KeyLength(m, a) = 0 \/ 3 + KeyLength(m, a) < FullLength(m, a)
  /\ \A i \in 0 .. FullLength(m, a) - 1 : m2[b + i] = m[a + i]

SameAs(m, a, m2, b) ==
  /\ FullLength(m2, b) = FullLength(m, a) /\ KeyLength(m2, b) = KeyLength(m, a)
  /\ KeyOf(m2, b) = KeyOf(m, a) /\ GetBuffer(m2, b) = GetBuffer(m, a)

\* The copy of an item has its length, its key and its value.
LEMMA SameItem ==
  ASSUME NEW m \in Memories, NEW m2 \in Memories, NEW a \in Nat, NEW b \in Nat,
         Copied(m, a, m2, b)
  PROVE  SameAs(m, a, m2, b)
<1> DEFINE n == FullLength(m, a)
<1>0. /\ n \in Nat /\ 4 <= n /\ a + n <= MemorySize
      /\ KeyLength(m, a) = 0 \/ 3 + KeyLength(m, a) < n
      /\ \A i \in 0 .. n - 1 : m2[b + i] = m[a + i]
  BY DEF Copied
<1>00. n = FullLength(m, a)
  OBVIOUS
<1> HIDE DEF n
<1>1. MemorySize \in Nat
  BY SizeAssumption
<1>2. m2[b] = m[a] /\ m2[b + 1] = m[a + 1] /\ m2[b + 2] = m[a + 2]
  <2>1. 0 \in 0 .. n - 1 /\ 1 \in 0 .. n - 1 /\ 2 \in 0 .. n - 1
    BY <1>0
  <2>2. m2[b + 0] = m[a + 0] /\ m2[b + 1] = m[a + 1] /\ m2[b + 2] = m[a + 2]
    BY <1>0, <2>1
  <2>3. QED
    BY <2>2
<1>3. FullLength(m2, b) = FullLength(m, a) /\ KeyLength(m2, b) = KeyLength(m, a)
  BY <1>2 DEF FullLength, KeyLength
<1>4. KeyLength(m, a) \in Nat
  BY <1>0, <1>1, Lengths
<1>5. ASSUME NEW j \in Nat, NEW k \in Nat, j + k <= n
      PROVE  Bytes(m2, b + j, k) = Bytes(m, a + j, k)
  <2>1. ASSUME NEW i \in 1 .. k PROVE m2[b + j + i - 1] = m[a + j + i - 1]
    <3>1. j + i - 1 \in 0 .. n - 1
      BY <1>0, <1>5
    <3>2. m2[b + (j + i - 1)] = m[a + (j + i - 1)]
      BY <1>0, <3>1
    <3>3. b + (j + i - 1) = b + j + i - 1 /\ a + (j + i - 1) = a + j + i - 1
      OBVIOUS
    <3>4. QED
      BY <3>2, <3>3
  <2>2. QED
    BY <2>1 DEF Bytes
<1>6. KeyOf(m2, b) = KeyOf(m, a)
  <2>1. 3 + KeyLength(m, a) <= n
    BY <1>0, <1>4
  <2>2. Bytes(m2, b + 3, KeyLength(m, a)) = Bytes(m, a + 3, KeyLength(m, a))
    BY <1>4, <1>5, <2>1
  <2>3. QED
    BY <1>3, <2>2 DEF KeyOf, HeaderSize
<1>7. GetBuffer(m2, b) = GetBuffer(m, a)
  <2> DEFINE j == 3 + KeyLength(m, a)
             k == n - 3 - KeyLength(m, a)
  <2>1. j \in Nat /\ k \in Nat /\ j + k <= n
    BY <1>0, <1>4
  <2>2. Bytes(m2, b + j, k) = Bytes(m, a + j, k)
    <3> HIDE DEF j, k
    <3>1. QED
      BY <1>5, <2>1
  <2>3. b + j = b + 3 + KeyLength(m, a) /\ a + j = a + 3 + KeyLength(m, a)
    BY <1>4
  <2>4. QED
    BY <1>00, <1>3, <2>2, <2>3 DEF GetBuffer, HeaderSize
<1>8. QED
  BY <1>3, <1>6, <1>7 DEF SameAs

-----------------------------------------------------------------------------
(* The writes of an operation *)

\* Memories with the same bytes are the same.
LEMMA SameMemory ==
  ASSUME NEW f \in Memories, NEW g \in Memories, \A x \in Cells : f[x] = g[x]
  PROVE  f = g
BY DEF Memories

\* What has the same key as an item is no hole.
LEMMA SameKeys ==
  ASSUME NEW m \in Memories, NEW a \in Nat, NEW b \in Nat,
         a + 2 < MemorySize, b + 2 < MemorySize,
         KeyOf(m, a) = KeyOf(m, b)
  PROVE  KeyLength(m, a) = KeyLength(m, b)
<1>1. KeyLength(m, a) \in Nat /\ KeyLength(m, b) \in Nat
  BY Lengths
<1>2. QED
  BY <1>1, BytesLength DEF KeyOf

\* The items keep their places when their headers do, but for new holes.
LEMMA SameChain ==
  ASSUME NEW m, NEW A, NEW e, Table(m, A, e), NEW m2 \in Memories, IsEnd(m2, e),
         \A a \in A : /\ FullLength(m2, a) = FullLength(m, a)
                      /\ \/ KeyLength(m2, a) = 0
                         \/ KeyLength(m2, a) = KeyLength(m, a) /\ KeyOf(m2, a) = KeyOf(m, a)
  PROVE  Table(m2, A, e)
<1>1. /\ A \subseteq 1 .. e - 1 /\ e \in 1 .. MemorySize - 3 /\ FirstItem \in A \union {e}
      /\ \A a \in A : \A b \in A \union {e} : a < b => a + FullLength(m2, a) <= b
  BY DEF Table
<1>2. \A a \in A : /\ FullLength(m2, a) >= HeaderSize + 1
                   /\ a + FullLength(m2, a) \in A \union {e}
                   /\ KeyLength(m2, a) = 0 \/ HeaderSize + KeyLength(m2, a) < FullLength(m2, a)
                   /\ KeyLength(m2, a) = 0 \/ KeyOf(m2, a) \in Keys
  BY DEF Table
<1>3. \A a, b \in A : KeyLength(m2, a) # 0 /\ KeyOf(m2, a) = KeyOf(m2, b) => a = b
  <2>1. SUFFICES ASSUME NEW a \in A, NEW b \in A, KeyLength(m2, a) # 0,
                        KeyOf(m2, a) = KeyOf(m2, b)
                 PROVE  a = b
    OBVIOUS
  <2>2. KeyLength(m2, b) # 0
    <3>1. a \in Nat /\ b \in Nat /\ a + 2 < MemorySize /\ b + 2 < MemorySize
      BY Items
    <3>2. QED
      BY <2>1, <3>1, SameKeys
  <2>3. QED
    BY <2>1, <2>2 DEF Table
<1>4. QED
  BY <1>1, <1>2, <1>3, Zenon DEF Table

\* The bytes of a header say what they should.
LEMMA HeaderFacts ==
  ASSUME NEW full \in Nat, full <= 65535, NEW n \in Nat, n <= 255
  PROVE  /\ Header(full, n) \in Strings /\ Len(Header(full, n)) = 3 /\ Header(full, n) # <<>>
         /\ Header(full, n)[1] + 256 * Header(full, n)[2] = full /\ Header(full, n)[3] = n
<1>1. full % 256 \in 0 .. 255 /\ full \div 256 \in 0 .. 255
      /\ (full % 256) + 256 * (full \div 256) = full
  <2>1. full % 256 \in 0 .. 255 /\ full \div 256 \in Nat
        /\ full = 256 * (full \div 256) + (full % 256)
    OBVIOUS
  <2>2. QED
    BY <2>1
<1>2. Header(full, n) = <<full % 256, full \div 256, n>>
  BY DEF Header
<1>3. Header(full, n) \in Seq(0 .. 255) /\ Len(Header(full, n)) = 3
  BY <1>1, <1>2
<1>4. QED
  BY <1>1, <1>2, <1>3 DEF Strings

\* What a hole in the place of an item leaves of the table
HoleMade(m, A, e, a, m2) ==
  /\ Table(m2, A, e) /\ KeyLength(m2, a) = 0
  /\ \A b \in A : b # a => SameAs(m, b, m2, b)

\* Only the byte that holds the length of a key changes.
Unkeyed(m, a, m2) == \A x \in Cells : m2[x] = IF x = a + 2 THEN 0 ELSE m[x]

\* An item that becomes a hole
LEMMA HoleOf ==
  ASSUME NEW m, NEW A, NEW e, Table(m, A, e), NEW a \in A,
         NEW m0, NEW run, RunOf(m0, run), run.mem = m,
         NEW r, r = WriteHole(run, a, FullLength(m, a))
  PROVE  /\ RunOf(m0, r) /\ r.ok = run.ok /\ r.endless = run.endless
         /\ r.writes = run.writes \o Pages(a, Header(FullLength(m, a), 0))
         /\ HoleMade(m, A, e, a, r.mem) /\ Unkeyed(m, a, r.mem)
<1> DEFINE full == FullLength(m, a)
           h == Header(full, 0)
<1>1. /\ MemorySize \in Nat /\ m \in Memories /\ e \in Nat /\ e + 3 <= MemorySize
      /\ FullLength(m, e) = 65535 /\ a \in Nat /\ a + 4 <= e
      /\ full \in Nat /\ 4 <= full /\ a + full <= e
  BY Items
<1>2. full <= 65535
  <2>1. a + 2 < MemorySize
    BY <1>1
  <2>2. QED
    BY <1>1, <2>1, Lengths
<1>3. h \in Strings /\ Len(h) = 3 /\ h # <<>> /\ h[1] + 256 * h[2] = full /\ h[3] = 0
  BY <1>1, <1>2, HeaderFacts
<1>4. r = Write(run, a, h)
  BY Zenon DEF WriteHole
<1> HIDE DEF h, full
<1>5. /\ a \in Cells /\ a + 1 \in Cells /\ a + 2 \in Cells /\ \A x \in Cells : x \in Nat
      /\ a + Len(h) <= MemorySize
  BY <1>1, <1>3 DEF Cells
<1>6. /\ RunOf(m0, r) /\ r.ok = run.ok /\ r.endless = run.endless
      /\ r.mem = Apply(m, [at |-> a, bytes |-> h]) /\ r.writes = run.writes \o Pages(a, h)
  <2>1. a \in Nat /\ h \in Strings /\ h # <<>> /\ a + Len(h) <= MemorySize
    BY <1>1, <1>3, <1>5
  <2>2. Wrote(m0, run, a, h, r)
    BY <1>4, <2>1, RunWrites
  <2>3. QED
    BY <2>2 DEF Wrote
<1>7. /\ r.mem \in Memories
      /\ \A x \in Cells : r.mem[x] = IF a <= x /\ x < a + 3 THEN h[x - a + 1] ELSE m[x]
  <2>1. /\ Apply(m, [at |-> a, bytes |-> h]) \in Memories
        /\ \A x \in Cells : Apply(m, [at |-> a, bytes |-> h])[x] =
             IF a <= x /\ x < a + Len(h) THEN h[x - a + 1] ELSE m[x]
    <3>1. a \in Nat /\ h \in Strings /\ a + Len(h) <= MemorySize /\ m \in Memories
      BY <1>1, <1>3, <1>5
    <3>2. QED
      BY <3>1, Applied, Zenon
  <2>2. QED
    BY <1>3, <1>6, <2>1, Zenon
<1>8. h[1] = m[a] /\ h[2] = m[a + 1]
  <2>1. h[1] \in 0 .. 255 /\ h[2] \in 0 .. 255 /\ m[a] \in 0 .. 255 /\ m[a + 1] \in 0 .. 255
    <3>1. 1 \in 1 .. 3 /\ 2 \in 1 .. 3
      OBVIOUS
    <3>2. h[1] \in 0 .. 255 /\ h[2] \in 0 .. 255
      BY <1>3, <3>1, StringFacts, Zenon
    <3>3. m[a] \in 0 .. 255 /\ m[a + 1] \in 0 .. 255
      BY <1>1, <1>5 DEF Memories
    <3>4. QED
      BY <3>2, <3>3
  <2>2. h[1] + 256 * h[2] = m[a] + 256 * m[a + 1]
    BY <1>3 DEF full, FullLength
  <2>3. PICK p \in 0 .. 255, q \in 0 .. 255 : p = h[1] /\ q = h[2]
    BY <2>1, Zenon
  <2>4. PICK s \in 0 .. 255, t \in 0 .. 255 : s = m[a] /\ t = m[a + 1]
    BY <2>1, Zenon
  <2>5. p + 256 * q = s + 256 * t
    BY <2>2, <2>3, <2>4
  <2>6. p = s /\ q = t
    BY <2>5
  <2>7. QED
    BY <2>3, <2>4, <2>6
<1>9. \A x \in Cells : r.mem[x] = IF x = a + 2 THEN 0 ELSE m[x]
  <2>1. ASSUME NEW x \in Cells PROVE r.mem[x] = IF x = a + 2 THEN 0 ELSE m[x]
    <3>1. CASE x = a
      <4>1. x - a + 1 = 1 /\ a <= x /\ x < a + 3 /\ x # a + 2
        BY <1>1, <3>1
      <4>2. QED
        BY <1>7, <1>8, <3>1, <4>1
    <3>2. CASE x = a + 1
      <4>1. x - a + 1 = 2 /\ a <= x /\ x < a + 3 /\ x # a + 2
        BY <1>1, <3>2
      <4>2. QED
        BY <1>7, <1>8, <3>2, <4>1
    <3>3. CASE x = a + 2
      <4>1. x - a + 1 = 3 /\ a <= x /\ x < a + 3
        BY <1>1, <3>3
      <4>2. QED
        BY <1>3, <1>7, <3>3, <4>1
    <3>4. CASE x # a /\ x # a + 1 /\ x # a + 2
      <4>1. ~ (a <= x /\ x < a + 3)
        BY <1>1, <1>5, <3>4
      <4>2. QED
        BY <1>7, <3>4, <4>1
    <3>5. QED
      BY <3>1, <3>2, <3>3, <3>4
  <2>2. QED
    BY <2>1
<1>10. KeyLength(r.mem, a) = 0 /\ FullLength(r.mem, a) = FullLength(m, a)
  <2>1. a # a + 2 /\ a + 1 # a + 2
    BY <1>1
  <2>2. r.mem[a] = m[a] /\ r.mem[a + 1] = m[a + 1] /\ r.mem[a + 2] = 0
    BY <1>5, <1>9, <2>1
  <2>3. QED
    BY <2>2, Zenon DEF KeyLength, FullLength
<1>11. IsEnd(r.mem, e)
  <2>1. e \in Cells /\ e + 1 \in Cells /\ e # a + 2 /\ e + 1 # a + 2
    <3>1. a + 4 <= e
      BY <1>1
    <3>2. QED
      BY <1>1, <3>1 DEF Cells
  <2>2. FullLength(r.mem, e) = FullLength(m, e)
    BY <1>9, <2>1 DEF FullLength
  <2>3. QED
    BY <1>1, <2>2 DEF IsEnd, EndTag
<1>12. ASSUME NEW b \in A, b # a
       PROVE  SameAs(m, b, r.mem, b)
  <2>0. /\ b \in Nat /\ b + FullLength(m, b) <= e /\ FullLength(m, b) \in Nat
        /\ 4 <= FullLength(m, b) /\ KeyLength(m, b) \in Nat
        /\ KeyLength(m, b) = 0 \/ 3 + KeyLength(m, b) < FullLength(m, b)
        /\ b < a => b + FullLength(m, b) <= a
        /\ a < b => a + full <= b
    BY Items, Chained DEF full
  <2>1. ASSUME NEW i \in 0 .. FullLength(m, b) - 1 PROVE r.mem[b + i] = m[b + i]
    <3>1. b + i \in Cells
      BY <1>1, <2>0 DEF Cells
    <3>2. b + i # a + 2
      <4>1. CASE b < a
        BY <1>1, <2>0, <4>1
      <4>2. CASE a < b
        BY <1>1, <2>0, <4>2
      <4>3. QED
        BY <1>1, <1>12, <2>0, <4>1, <4>2
    <3>3. QED
      BY <1>9, <3>1, <3>2
  <2>2. b + FullLength(m, b) <= MemorySize
    BY <1>1, <2>0
  <2>3. \A i \in 0 .. FullLength(m, b) - 1 : r.mem[b + i] = m[b + i]
    BY <2>1
  <2>4. Copied(m, b, r.mem, b)
    BY <2>0, <2>2, <2>3 DEF Copied
  <2>5. QED
    BY <1>1, <1>7, <2>0, <2>4, SameItem
<1>13. Table(r.mem, A, e)
  BY <1>7, <1>10, <1>11, <1>12, SameChain DEF SameAs
<1>14. Unkeyed(m, a, r.mem)
  BY <1>9 DEF Unkeyed
<1>15. HoleMade(m, A, e, a, r.mem)
  BY <1>10, <1>12, <1>13 DEF HoleMade
<1>16. QED
  BY <1>6, <1>14, <1>15 DEF h, full

\* ... does not hold its key any more.
LEMMA HoleHolds ==
  ASSUME NEW m, NEW A, NEW e, Table(m, A, e), NEW a \in A, NEW m2, KeyLength(m2, a) = 0,
         \A b \in A : b # a => SameAs(m, b, m2, b),
         NEW key \in Keys, NEW value
  PROVE  Holds(m2, A, key, value) <=> (Holds(m, A, key, value) /\ KeyOf(m, a) # key)
<1>1. key # <<>> /\ KeyOf(m2, a) # key
  <2>1. KeyOf(m2, a) = <<>>
    <3>1. 0 \in Nat /\ Len(KeyOf(m2, a)) = 0 /\ DOMAIN KeyOf(m2, a) = 1 .. 0
      BY BytesLength DEF KeyOf
    <3>2. QED
      BY DEF KeyOf, Bytes
  <2>2. QED
    BY <2>1, KeyFacts
<1>2. ASSUME NEW b \in A, KeyOf(m, b) = key, KeyOf(m, a) = key PROVE b = a
  <2>1. KeyLength(m, a) # 0
    <3>1. KeyLength(m, a) \in Nat
      BY Items
    <3>2. Len(KeyOf(m, a)) = KeyLength(m, a)
      BY <3>1, BytesLength DEF KeyOf
    <3>3. QED
      BY <1>2, <3>2, KeyFacts
  <2>2. QED
    BY <1>2, <2>1, Zenon DEF Table
<1>3. QED
  BY <1>1, <1>2 DEF Holds, SameAs

\* What a write leaves in the memory
Covers(m, at, bytes, m2) ==
  /\ m2 \in Memories
  /\ \A x \in Cells : m2[x] = IF at <= x /\ x < at + Len(bytes) THEN bytes[x - at + 1] ELSE m[x]

\* A write changes the bytes that it covers, and no others.
LEMMA WroteMemory ==
  ASSUME NEW m0, NEW run, RunOf(m0, run), NEW at \in Nat, NEW bytes \in Strings, bytes # <<>>,
         at + Len(bytes) <= MemorySize, NEW r, r = Write(run, at, bytes)
  PROVE  Wrote(m0, run, at, bytes, r) /\ Covers(run.mem, at, bytes, r.mem)
<1>1. Wrote(m0, run, at, bytes, r)
  BY RunWrites
<1>2. r.mem = Apply(run.mem, [at |-> at, bytes |-> bytes])
  BY <1>1 DEF Wrote
<1>3. run.mem \in Memories
  BY DEF RunOf
<1>4. /\ Apply(run.mem, [at |-> at, bytes |-> bytes]) \in Memories
      /\ \A x \in Cells : Apply(run.mem, [at |-> at, bytes |-> bytes])[x] =
           IF at <= x /\ x < at + Len(bytes) THEN bytes[x - at + 1] ELSE run.mem[x]
  BY <1>3, Applied
<1>5. QED
  BY <1>1, <1>2, <1>4, Zenon DEF Covers

\* The bytes that a write leaves behind are the ones that it wrote.
LEMMA ReadBack ==
  ASSUME NEW m \in Memories, NEW at \in Nat, NEW bytes \in Strings, at + Len(bytes) <= MemorySize,
         \A x \in Cells : at <= x /\ x < at + Len(bytes) => m[x] = bytes[x - at + 1]
  PROVE  Bytes(m, at, Len(bytes)) = bytes
<1>1. Len(bytes) \in Nat /\ MemorySize \in Nat /\ DOMAIN bytes = 1 .. Len(bytes)
  BY StringFacts, SizeAssumption
<1>2. ASSUME NEW i \in 1 .. Len(bytes) PROVE m[at + i - 1] = bytes[i]
  <2>1. at + i - 1 \in Cells /\ at <= at + i - 1 /\ at + i - 1 < at + Len(bytes)
    BY <1>1 DEF Cells
  <2>2. m[at + i - 1] = bytes[at + i - 1 - at + 1]
    BY <2>1
  <2>3. at + i - 1 - at + 1 = i
    OBVIOUS
  <2>4. QED
    BY <2>2, <2>3
<1>3. bytes = [i \in 1 .. Len(bytes) |-> bytes[i]]
  BY <1>1 DEF Strings
<1>4. Bytes(m, at, Len(bytes)) = [i \in 1 .. Len(bytes) |-> m[at + i - 1]]
  BY DEF Bytes
<1>5. QED
  BY <1>2, <1>3, <1>4

\* There is an item with this key and this value.
ItemAt(m, a, key, value) ==
  /\ FullLength(m, a) = ItemLength(key, value) /\ KeyLength(m, a) = Len(key)
  /\ KeyOf(m, a) = key /\ GetBuffer(m, a) = value

\* An item with a key and a value is longer than its header and its key.
LEMMA ItemLengths ==
  ASSUME NEW key \in Keys, NEW value \in Values
  PROVE  /\ ItemLength(key, value) = 3 + Len(key) + Len(value)
         /\ ItemLength(key, value) \in Nat /\ 3 + Len(key) < ItemLength(key, value)
         /\ 4 <= ItemLength(key, value)
<1>1. Len(key) \in Nat /\ Len(value) \in Nat /\ 1 <= Len(value)
  BY KeyFacts, ValueFacts
<1>2. ItemLength(key, value) = 3 + Len(key) + Len(value)
  BY DEF ItemLength, HeaderSize
<1>3. QED
  BY <1>1, <1>2

\* The memory has changed from one address to another only, and the run goes on.
Outside(m, lo, hi, m2) ==
  m2 \in Memories /\ \A x \in Cells : x < lo \/ hi <= x => m2[x] = m[x]

GoesOn(m0, run, r) == RunOf(m0, r) /\ r.ok = run.ok /\ r.endless = run.endless

\* writeItem() writes the item, and nothing else.
LEMMA WriteItemOf ==
  ASSUME NEW m0, NEW run, RunOf(m0, run), NEW at \in Nat, NEW key \in Keys, NEW value \in Values,
         at + ItemLength(key, value) <= MemorySize,
         NEW r, r = WriteItem(run, at, key, value)
  PROVE  /\ GoesOn(m0, run, r) /\ ItemAt(r.mem, at, key, value)
         /\ Outside(run.mem, at, at + ItemLength(key, value), r.mem)
         /\ r.writes = ((run.writes \o Pages(at, Header(ItemLength(key, value), Len(key))))
                          \o Pages(at + HeaderSize, key))
                         \o Pages(at + HeaderSize + Len(key), value)
<1> DEFINE full == ItemLength(key, value)
           n == Len(key)
           v == Len(value)
           h == Header(full, n)
           r1 == Write(run, at, h)
           r2 == Write(r1, at + HeaderSize, key)
<1>1. /\ MemorySize \in Nat /\ MemorySize <= 65535
      /\ full \in Nat /\ full = 3 + n + v /\ n \in Nat /\ v \in Nat /\ 1 <= n /\ n <= 255 /\ 1 <= v
      /\ key \in Strings /\ key # <<>> /\ value \in Strings /\ value # <<>>
      /\ at + full <= MemorySize
  BY SizeAssumption, KeyFacts, ValueFacts, ItemLengths
<1>2. r = Write(r2, at + HeaderSize + n, value)
  BY Zenon DEF WriteItem
<1> HIDE DEF full, n, v
<1>3. h \in Strings /\ Len(h) = 3 /\ h # <<>> /\ h[1] + 256 * h[2] = full /\ h[3] = n
  <2>1. full <= 65535
    BY <1>1
  <2>2. QED
    BY <1>1, <2>1, HeaderFacts
<1> HIDE DEF h
<1>4. /\ Wrote(m0, run, at, h, r1) /\ r1.mem \in Memories
      /\ \A x \in Cells : r1.mem[x] = IF at <= x /\ x < at + 3 THEN h[x - at + 1] ELSE run.mem[x]
  <2>1. at + Len(h) <= MemorySize
    BY <1>1, <1>3
  <2>2. Wrote(m0, run, at, h, r1) /\ Covers(run.mem, at, h, r1.mem)
    <3>1. h \in Strings /\ h # <<>>
      BY <1>3
    <3>2. r1 = Write(run, at, h)
      OBVIOUS
    <3> HIDE DEF r1
    <3>3. QED
      BY <2>1, <3>1, <3>2, WroteMemory
  <2>3. QED
    BY <1>3, <2>2 DEF Covers
<1> HIDE DEF r1
<1>5. /\ Wrote(m0, r1, at + HeaderSize, key, r2) /\ r2.mem \in Memories
      /\ \A x \in Cells : r2.mem[x] = IF at + 3 <= x /\ x < at + 3 + n
                                      THEN key[x - (at + 3) + 1] ELSE r1.mem[x]
  <2>1. at + 3 \in Nat /\ at + 3 + Len(key) <= MemorySize /\ HeaderSize = 3
    BY <1>1 DEF n, HeaderSize
  <2>2. RunOf(m0, r1)
    BY <1>4 DEF Wrote
  <2>3. Wrote(m0, r1, at + 3, key, r2) /\ Covers(r1.mem, at + 3, key, r2.mem)
    BY <1>1, <2>1, <2>2, WroteMemory
  <2>4. QED
    BY <2>1, <2>3 DEF Covers, n
<1> HIDE DEF r2
<1>6. /\ Wrote(m0, r2, at + HeaderSize + n, value, r) /\ r.mem \in Memories
      /\ \A x \in Cells : r.mem[x] = IF at + 3 + n <= x /\ x < at + 3 + n + v
                                     THEN value[x - (at + 3 + n) + 1] ELSE r2.mem[x]
  <2>1. at + 3 + n \in Nat /\ at + 3 + n + Len(value) <= MemorySize /\ HeaderSize = 3
    BY <1>1 DEF v, HeaderSize
  <2>2. RunOf(m0, r2)
    BY <1>5 DEF Wrote
  <2>3. Wrote(m0, r2, at + 3 + n, value, r) /\ Covers(r2.mem, at + 3 + n, value, r.mem)
    BY <1>1, <1>2, <2>1, <2>2, WroteMemory
  <2>4. QED
    BY <2>1, <2>3 DEF Covers, v
<1>7. \A x \in Cells : x \in Nat
  BY <1>1 DEF Cells
<1>8. \A x \in Cells : x < at \/ at + full <= x => r.mem[x] = run.mem[x]
  <2>1. ASSUME NEW x \in Cells, x < at \/ at + full <= x
        PROVE  /\ ~ (at <= x /\ x < at + 3) /\ ~ (at + 3 <= x /\ x < at + 3 + n)
               /\ ~ (at + 3 + n <= x /\ x < at + 3 + n + v)
    BY <1>1, <1>7, <2>1
  <2>2. QED
    BY <1>4, <1>5, <1>6, <2>1
<1>9. \A x \in Cells : at <= x /\ x < at + 3 => r.mem[x] = h[x - at + 1]
  <2>1. ASSUME NEW x \in Cells, at <= x, x < at + 3
        PROVE  /\ ~ (at + 3 <= x /\ x < at + 3 + n)
               /\ ~ (at + 3 + n <= x /\ x < at + 3 + n + v)
    BY <1>1, <1>7, <2>1
  <2>2. QED
    BY <1>4, <1>5, <1>6, <2>1
<1>10. \A x \in Cells : at + 3 <= x /\ x < at + 3 + n => r.mem[x] = key[x - (at + 3) + 1]
  <2>1. ASSUME NEW x \in Cells, at + 3 <= x, x < at + 3 + n
        PROVE  ~ (at + 3 + n <= x /\ x < at + 3 + n + v)
    BY <1>1, <1>7, <2>1
  <2>2. QED
    BY <1>5, <1>6, <2>1
<1>11. r.mem[at] = h[1] /\ r.mem[at + 1] = h[2] /\ r.mem[at + 2] = h[3]
  <2>1. at \in Cells /\ at + 1 \in Cells /\ at + 2 \in Cells
    BY <1>1 DEF Cells
  <2>2. at - at + 1 = 1 /\ (at + 1) - at + 1 = 2 /\ (at + 2) - at + 1 = 3
    OBVIOUS
  <2>3. at <= at + 2 /\ at < at + 3 /\ at <= at + 1 /\ at + 1 < at + 3 /\ at + 2 < at + 3 /\ at <= at
    OBVIOUS
  <2>4. QED
    BY <1>9, <2>1, <2>2, <2>3
<1>12. FullLength(r.mem, at) = full /\ KeyLength(r.mem, at) = n
  BY <1>3, <1>11 DEF FullLength, KeyLength
<1>13. KeyOf(r.mem, at) = key
  <2>1. Bytes(r.mem, at + 3, Len(key)) = key
    <3>1. at + 3 \in Nat /\ at + 3 + Len(key) <= MemorySize
      BY <1>1 DEF n
    <3>2. QED
      BY <1>1, <1>6, <1>10, <3>1, ReadBack DEF n
  <2>2. QED
    BY <1>12, <2>1 DEF KeyOf, HeaderSize, n
<1>14. GetBuffer(r.mem, at) = value
  <2> DEFINE b == at + 3 + n
  <2>1. Bytes(r.mem, b, Len(value)) = value
    <3>1. b \in Nat /\ b + Len(value) <= MemorySize
      BY <1>1 DEF v
    <3>2. \A x \in Cells : b <= x /\ x < b + Len(value) => r.mem[x] = value[x - b + 1]
      BY <1>6 DEF v
    <3>3. value \in Strings /\ r.mem \in Memories
      BY <1>1, <1>6
    <3> HIDE DEF b
    <3>4. QED
      BY <3>1, <3>2, <3>3, ReadBack
  <2>2. full - 3 - n = Len(value)
    BY <1>1 DEF v
  <2>3. QED
    BY <1>12, <2>1, <2>2 DEF GetBuffer, HeaderSize
<1>15. ItemAt(r.mem, at, key, value)
  BY <1>12, <1>13, <1>14 DEF ItemAt, full, n
<1>16. /\ RunOf(m0, r) /\ r.ok = run.ok /\ r.endless = run.endless
       /\ r.writes = ((run.writes \o Pages(at, h)) \o Pages(at + HeaderSize, key))
                       \o Pages(at + HeaderSize + n, value)
  BY <1>4, <1>5, <1>6 DEF Wrote
<1>17. QED
  BY <1>6, <1>8, <1>15, <1>16 DEF h, full, n, GoesOn, Outside

EndBytes == <<EndTag % 256, EndTag \div 256>>

\* writeEnd() writes an end tag, and nothing else.
LEMMA WriteEndOf ==
  ASSUME NEW m0, NEW run, RunOf(m0, run), NEW at \in Nat, at + 2 <= MemorySize,
         NEW r, r = WriteEnd(run, at)
  PROVE  /\ GoesOn(m0, run, r) /\ IsEnd(r.mem, at) /\ Outside(run.mem, at, at + 2, r.mem)
         /\ r.writes = run.writes \o Pages(at, EndBytes)
<1>1. EndBytes = <<255, 255>>
  <2>1. 65535 % 256 = 255 /\ 65535 \div 256 = 255
    OBVIOUS
  <2>2. QED
    BY <2>1 DEF EndBytes, EndTag
<1>2. EndBytes \in Strings /\ Len(EndBytes) = 2 /\ EndBytes[1] = 255 /\ EndBytes[2] = 255
  <2>1. <<255, 255>> \in Seq(0 .. 255)
    OBVIOUS
  <2>2. QED
    BY <1>1, <2>1 DEF Strings
<1>3. EndBytes # <<>>
  BY <1>1
<1>4. r = Write(run, at, EndBytes)
  BY Zenon DEF WriteEnd, EndBytes
<1>5. Wrote(m0, run, at, EndBytes, r) /\ Covers(run.mem, at, EndBytes, r.mem)
  <2>1. at + Len(EndBytes) <= MemorySize
    BY <1>2
  <2>2. EndBytes \in Strings
    BY <1>2
  <2>3. QED
    BY <1>3, <1>4, <2>1, <2>2, WroteMemory
<1>6. \A x \in Cells : r.mem[x] = IF at <= x /\ x < at + 2 THEN EndBytes[x - at + 1] ELSE run.mem[x]
  BY <1>2, <1>5 DEF Covers
<1>7. MemorySize \in Nat /\ at \in Cells /\ at + 1 \in Cells /\ \A x \in Cells : x \in Nat
  BY SizeAssumption DEF Cells
<1>8. r.mem[at] = 255 /\ r.mem[at + 1] = 255
  <2>1. at - at + 1 = 1 /\ (at + 1) - at + 1 = 2 /\ at <= at + 1 /\ at + 1 < at + 2 /\ at < at + 2
        /\ at <= at
    OBVIOUS
  <2>2. QED
    BY <1>2, <1>6, <1>7, <2>1
<1>9. IsEnd(r.mem, at)
  BY <1>8 DEF IsEnd, EndTag, FullLength
<1>10. \A x \in Cells : x < at \/ at + 2 <= x => r.mem[x] = run.mem[x]
  <2>1. ASSUME NEW x \in Cells, x < at \/ at + 2 <= x PROVE ~ (at <= x /\ x < at + 2)
    BY <1>7, <2>1
  <2>2. QED
    BY <1>6, <2>1
<1>11. QED
  BY <1>5, <1>9, <1>10 DEF Wrote, Covers, GoesOn, Outside

\* What is not written to stays.
LEMMA Untouched ==
  ASSUME NEW m, NEW A, NEW e, Table(m, A, e), NEW m2, NEW lo \in Nat, NEW hi \in Nat,
         Outside(m, lo, hi, m2),
         NEW b \in A, b + FullLength(m, b) <= lo \/ hi <= b
  PROVE  SameAs(m, b, m2, b)
<1> DEFINE n == FullLength(m, b)
<1>1. /\ MemorySize \in Nat /\ m \in Memories /\ b \in Nat /\ n \in Nat /\ 4 <= n
      /\ b + n <= e /\ e + 3 <= MemorySize /\ e \in Nat
      /\ KeyLength(m, b) = 0 \/ 3 + KeyLength(m, b) < n
      /\ b + n <= lo \/ hi <= b
  BY Items, Chained
<1>2. b + n <= MemorySize
  BY <1>1
<1>3. \A i \in 0 .. n - 1 : m2[b + i] = m[b + i]
  <2> HIDE DEF n
  <2>1. ASSUME NEW i \in 0 .. n - 1 PROVE b + i \in Cells /\ (b + i < lo \/ hi <= b + i)
    BY <1>1, <1>2 DEF Cells
  <2>2. QED
    BY <2>1 DEF Outside
<1>4. Copied(m, b, m2, b)
  BY <1>1, <1>2, <1>3 DEF Copied
<1>5. QED
  BY <1>1, <1>4, SameItem DEF Outside

\* An item that gets another value of the same length
LEMMA InPlaceOf ==
  ASSUME NEW m, NEW A, NEW e, Table(m, A, e), NEW a \in A, NEW key \in Keys, NEW value \in Values,
         KeyOf(m, a) = key, KeyLength(m, a) = Len(key), FullLength(m, a) = ItemLength(key, value),
         NEW m0, NEW run, RunOf(m0, run), run.mem = m,
         NEW r, r = WriteItem(run, a, key, value)
  PROVE  /\ GoesOn(m0, run, r) /\ Table(r.mem, A, e) /\ ItemAt(r.mem, a, key, value)
         /\ \A b \in A : b # a => SameAs(m, b, r.mem, b)
<1> DEFINE full == ItemLength(key, value)
<1>1. /\ MemorySize \in Nat /\ m \in Memories /\ a \in Nat /\ full \in Nat /\ 4 <= full
      /\ a + full <= e /\ e \in Nat /\ e + 3 <= MemorySize /\ FullLength(m, e) = 65535
  BY Items, ItemLengths
<1>2. a + full <= MemorySize
  BY <1>1
<1>3. GoesOn(m0, run, r) /\ ItemAt(r.mem, a, key, value) /\ Outside(m, a, a + full, r.mem)
  <2>1. /\ GoesOn(m0, run, r) /\ ItemAt(r.mem, a, key, value)
        /\ Outside(run.mem, a, a + ItemLength(key, value), r.mem)
    <3>1. a \in Nat
      BY <1>1
    <3>2. QED
      BY <1>2, <3>1, WriteItemOf
  <2>2. QED
    BY <2>1
<1> HIDE DEF full
<1>33. a + full \in Nat
  BY <1>1
<1>4. \A b \in A : b # a => SameAs(m, b, r.mem, b)
  <2>1. SUFFICES ASSUME NEW b \in A, b # a PROVE SameAs(m, b, r.mem, b)
    OBVIOUS
  <2>2. b + FullLength(m, b) <= a \/ a + full <= b
    <3>1. b \in Nat
      BY Items
    <3>2. b < a \/ a < b
      BY <1>1, <2>1, <3>1
    <3>3. QED
      BY <3>2, Chained DEF full
  <2>3. Outside(m, a, a + full, r.mem) /\ a \in Nat
    BY <1>1, <1>3
  <2>4. QED
    BY <1>33, <2>2, <2>3, Untouched
<1>5. IsEnd(r.mem, e)
  <2>1. e \in Cells /\ e + 1 \in Cells /\ a + full <= e /\ a + full <= e + 1
    BY <1>1 DEF Cells
  <2>2. r.mem[e] = m[e] /\ r.mem[e + 1] = m[e + 1]
    BY <1>3, <2>1 DEF Outside
  <2>3. QED
    BY <1>1, <2>2 DEF IsEnd, EndTag, FullLength
<1>6. Table(r.mem, A, e)
  BY <1>3, <1>4, <1>5, SameChain DEF SameAs, ItemAt, Outside
<1>7. QED
  BY <1>3, <1>4, <1>6

\* An item behind the others
LEMMA AppendOf ==
  ASSUME NEW m, NEW A, NEW e, Table(m, A, e), NEW key \in Keys, NEW value \in Values,
         \A a \in A : KeyOf(m, a) # key, Fits(e, key, value),
         NEW m0, NEW run, RunOf(m0, run), run.mem = m,
         NEW r, r = AppendAt(run, e, key, value)
  PROVE  /\ GoesOn(m0, run, r) /\ ItemAt(r.mem, e, key, value)
         /\ Table(r.mem, A \union {e}, e + ItemLength(key, value))
         /\ \A b \in A : SameAs(m, b, r.mem, b)
<1> DEFINE full == ItemLength(key, value)
           e2 == e + full
           r1 == WriteItem(run, e, key, value)
<1>1. /\ MemorySize \in Nat /\ m \in Memories /\ full \in Nat /\ 4 <= full
      /\ e \in Nat /\ 1 <= e /\ e2 + 3 <= MemorySize /\ e2 \in Nat
      /\ 3 + Len(key) < full /\ Len(key) \in Nat /\ 1 <= Len(key)
  <2>1. e + full + 2 < MemorySize
    BY DEF Fits, EndTagLength
  <2>2. /\ MemorySize \in Nat /\ m \in Memories /\ full \in Nat /\ 4 <= full /\ e \in Nat /\ 1 <= e
        /\ 3 + Len(key) < full /\ Len(key) \in Nat /\ 1 <= Len(key)
    BY Items, ItemLengths, KeyFacts
  <2> HIDE DEF full
  <2>3. QED
    BY <2>1, <2>2
<1>2. r = WriteEnd(r1, e2)
  BY Zenon DEF AppendAt
<1>33. r1 = WriteItem(run, e, key, value)
  OBVIOUS
<1> HIDE DEF r1
<1>3. GoesOn(m0, run, r1) /\ ItemAt(r1.mem, e, key, value) /\ Outside(m, e, e2, r1.mem)
  <2>1. e + full <= MemorySize
    BY <1>1
  <2>2. /\ GoesOn(m0, run, r1) /\ ItemAt(r1.mem, e, key, value)
        /\ Outside(run.mem, e, e + ItemLength(key, value), r1.mem)
    BY <1>1, <1>33, <2>1, WriteItemOf
  <2>3. QED
    BY <2>2
<1> HIDE DEF full, e2
<1>4. GoesOn(m0, r1, r) /\ IsEnd(r.mem, e2) /\ Outside(r1.mem, e2, e2 + 2, r.mem)
  <2>1. e2 + 2 <= MemorySize
    BY <1>1
  <2>2. QED
    BY <1>1, <1>2, <1>3, <2>1, WriteEndOf DEF GoesOn
<1>5. e2 = e + full /\ \A x \in Cells : x \in Nat
  BY <1>1 DEF e2, Cells
<1>6. \A b \in A : SameAs(m, b, r.mem, b)
  <2>1. SUFFICES ASSUME NEW b \in A PROVE SameAs(m, b, r.mem, b)
    OBVIOUS
  <2>2. b + FullLength(m, b) <= e
    BY Items
  <2>3. Outside(m, e, MemorySize, r.mem)
    <3>1. ASSUME NEW x \in Cells, x < e \/ MemorySize <= x PROVE x < e2 /\ x < e
      BY <1>1, <1>5, <3>1 DEF Cells
    <3>2. QED
      BY <1>3, <1>4, <3>1 DEF Outside
  <2>4. QED
    BY <1>1, <2>2, <2>3, Untouched
<1>7. ItemAt(r.mem, e, key, value)
  <2>1. FullLength(r1.mem, e) = full /\ KeyLength(r1.mem, e) = Len(key)
    BY <1>3 DEF ItemAt, full
  <2>2. \A i \in 0 .. full - 1 : r.mem[e + i] = r1.mem[e + i]
    <3>1. ASSUME NEW i \in 0 .. full - 1 PROVE e + i \in Cells /\ e + i < e2
      BY <1>1, <1>5 DEF Cells
    <3>2. QED
      BY <1>4, <3>1 DEF Outside
  <2>3. e + full <= MemorySize
    BY <1>1, <1>5
  <2>4. Copied(r1.mem, e, r.mem, e)
    BY <1>1, <2>1, <2>2, <2>3 DEF Copied
  <2>5. SameAs(r1.mem, e, r.mem, e)
    BY <1>1, <1>3, <1>4, <2>4, SameItem DEF Outside
  <2>6. QED
    BY <1>3, <2>5 DEF SameAs, ItemAt
<1>8. Table(r.mem, A \union {e}, e2)
  <2>1. /\ FullLength(r.mem, e) = full /\ KeyLength(r.mem, e) = Len(key) /\ KeyOf(r.mem, e) = key
        /\ \A b \in A : /\ FullLength(r.mem, b) = FullLength(m, b)
                        /\ KeyLength(r.mem, b) = KeyLength(m, b) /\ KeyOf(r.mem, b) = KeyOf(m, b)
    BY <1>6, <1>7 DEF SameAs, ItemAt, full
  <2>2. \A b \in A : b \in Nat /\ 1 <= b /\ b < e /\ FullLength(m, b) \in Nat
    BY Items
  <2>3. A \union {e} \subseteq 1 .. e2 - 1 /\ e2 \in 1 .. MemorySize - 3
    BY <1>1, <1>5, <2>2
  <2>4. FirstItem \in (A \union {e}) \union {e2}
    BY Chained DEF FirstItem
  <2>5. ASSUME NEW a \in A \union {e}
        PROVE  /\ FullLength(r.mem, a) >= HeaderSize + 1
               /\ a + FullLength(r.mem, a) \in (A \union {e}) \union {e2}
               /\ KeyLength(r.mem, a) = 0 \/ HeaderSize + KeyLength(r.mem, a) < FullLength(r.mem, a)
               /\ KeyLength(r.mem, a) = 0 \/ KeyOf(r.mem, a) \in Keys
    <3>1. CASE a \in A
      BY <2>1, <3>1 DEF Table
    <3>2. CASE a = e
      BY <1>1, <1>5, <2>1, <3>2 DEF HeaderSize
    <3>3. QED
      BY <3>1, <3>2
  <2>6. ASSUME NEW a \in A \union {e}, NEW b \in (A \union {e}) \union {e2}, a < b
        PROVE  a + FullLength(r.mem, a) <= b
    <3>1. CASE a \in A /\ b \in A \union {e}
      BY <2>1, <2>6, <3>1, Chained
    <3>2. CASE a \in A /\ b = e2
      <4>1. a + FullLength(m, a) <= e
        BY <3>2, Items
      <4>2. QED
        BY <1>1, <1>5, <2>1, <2>2, <3>2, <4>1
    <3>3. CASE a = e /\ b = e2
      BY <1>1, <1>5, <2>1, <3>3
    <3>4. CASE a = e /\ b \in A \union {e}
      BY <1>1, <2>2, <2>6, <3>4
    <3>5. QED
      BY <3>1, <3>2, <3>3, <3>4
  <2>7. ASSUME NEW a \in A \union {e}, NEW b \in A \union {e},
               KeyLength(r.mem, a) # 0, KeyOf(r.mem, a) = KeyOf(r.mem, b)
        PROVE  a = b
    <3>1. CASE a \in A /\ b \in A
      <4>1. KeyLength(m, a) # 0 /\ KeyOf(m, a) = KeyOf(m, b)
        BY <2>1, <2>7, <3>1
      <4>2. QED
        BY <3>1, <4>1, Zenon DEF Table
    <3>2. QED
      BY <2>1, <2>7, <3>1
  <2>8. QED
    BY <1>4, <2>3, <2>4, <2>5, <2>6, <2>7 DEF Table, Outside
<1>9. QED
  BY <1>3, <1>4, <1>6, <1>7, <1>8 DEF e2, full, GoesOn

-----------------------------------------------------------------------------
(* Moving items *)

\* The addresses of the memory are the numbers below its size.
LEMMA CellFacts ==
  /\ MemorySize \in Nat
  /\ \A x \in Cells : x \in Nat /\ x < MemorySize
  /\ \A x \in Nat : x < MemorySize => x \in Cells
BY SizeAssumption DEF Cells

\* n bytes have been copied to another place.
Moved(m, source, destination, n, m2) ==
  /\ m2 \in Memories
  /\ \A x \in Cells : m2[x] = IF destination <= x /\ x < destination + n
                              THEN m[source + (x - destination)] ELSE m[x]

\* The run after i of the buffers of moveMemory()
Copying(run, source, destination, cut, f, i) ==
  IF i = 0 THEN run
  ELSE Write(f[i - 1], destination + cut[i - 1],
             Bytes(f[i - 1].mem, source + cut[i - 1], cut[i] - cut[i - 1]))

IsCopying(run, source, destination, cut, n, f) ==
  f = [i \in 0 .. n |-> Copying(run, source, destination, cut, f, i)]

\* The runs after each of the buffers of moveMemory() exist.
LEMMA CopyingExists ==
  ASSUME NEW run, NEW source, NEW destination, NEW cut, NEW n \in Nat
  PROVE  \E f : IsCopying(run, source, destination, cut, n, f)
<1> DEFINE St(f, i) == Copying(run, source, destination, cut, f, i)
           T == {k \in Nat : \E f : f = [i \in 0 .. k |-> St(f, i)]}
<1>0. ASSUME NEW f, NEW g, NEW i \in Nat, i # 0 => f[i - 1] = g[i - 1] PROVE St(f, i) = St(g, i)
  BY <1>0 DEF Copying
<1>1. 0 \in T
  <2> DEFINE f == [i \in 0 .. 0 |-> run]
  <2>1. \A i \in 0 .. 0 : St(f, i) = run
    BY DEF Copying
  <2>2. f = [i \in 0 .. 0 |-> St(f, i)]
    BY <2>1
  <2>3. QED
    <3> HIDE DEF f, St
    <3>1. QED
      BY <2>2
<1>2. ASSUME NEW k \in Nat, k \in T PROVE k + 1 \in T
  <2>1. PICK f : f = [i \in 0 .. k |-> St(f, i)]
    BY <1>2
  <2> HIDE DEF St
  <2>2. \A i \in 0 .. k : f[i] = St(f, i)
    <3> DEFINE F == [i \in 0 .. k |-> St(f, i)]
    <3>1. \A i \in 0 .. k : F[i] = St(f, i)
      OBVIOUS
    <3> HIDE DEF F
    <3>2. f = F
      BY <2>1 DEF F
    <3>3. QED
      BY <3>1, <3>2
  <2> DEFINE g == [i \in 0 .. k + 1 |-> IF i <= k THEN f[i] ELSE St(f, i)]
  <2>3. \A i \in 0 .. k : i \in 0 .. k + 1 /\ g[i] = f[i]
    OBVIOUS
  <2>4. \A i \in 0 .. k + 1 : g[i] = St(f, i)
    BY <2>2
  <2>44. DOMAIN g = 0 .. k + 1 /\ g = [i \in 0 .. k + 1 |-> g[i]]
    OBVIOUS
  <2> HIDE DEF g
  <2>5. \A i \in 0 .. k + 1 : St(f, i) = St(g, i)
    <3>1. ASSUME NEW i \in 0 .. k + 1 PROVE i \in Nat /\ (i # 0 => f[i - 1] = g[i - 1])
      BY <2>3
    <3>2. QED
      BY <1>0, <3>1
  <2>6. g = [i \in 0 .. k + 1 |-> St(g, i)]
    BY <2>4, <2>44, <2>5
  <2>7. QED
    BY <2>6
<1>3. n \in T
  BY <1>1, <1>2, Counting
<1>4. QED
  BY <1>3 DEF IsCopying

\* The buffers of a move
Buffers(n, cut, length) ==
  /\ n \in Nat \ {0} /\ cut \in [0 .. n -> Nat] /\ cut[0] = 0 /\ cut[n] = length
  /\ \A i \in 1 .. n : cut[i - 1] < cut[i]
  /\ \A i \in 0 .. n : cut[i] <= length

\* moveMemory() comes to the last of them.
LEMMA MoveCut ==
  ASSUME NEW run, NEW source \in Nat, NEW destination \in Nat, NEW length \in Nat, length # 0
  PROVE  \E n, cut, f : /\ Buffers(n, cut, length)
                         /\ IsCopying(run, source, destination, cut, n, f)
                         /\ MoveMemory(run, source, destination, length) = f[n]
<1> DEFINE P == PageSize
           n == (length + P - 1) \div P
           Cut(i) == IF i = n THEN length ELSE i * P
           cut == [i \in 0 .. n |-> Cut(i)]
           F(f) == [i \in 0 .. n |->
                      IF i = 0 THEN run
                      ELSE Write(f[i - 1], destination + Cut(i - 1),
                                 Bytes(f[i - 1].mem, source + Cut(i - 1), Cut(i) - Cut(i - 1)))]
           copied == CHOOSE f : f = F(f)
<1>1. P \in Nat \ {0}
  BY SizeAssumption
<1> HIDE DEF P
<1>2. n \in Nat /\ n * P <= length + P - 1 /\ length + P - 1 < (n + 1) * P
  <2>1. \A x \in Nat : /\ x \div P \in Nat
                       /\ (x \div P) * P <= x /\ x < ((x \div P) + 1) * P
    BY <1>1
  <2>2. length + P - 1 \in Nat
    BY <1>1
  <2>3. QED
    BY <2>1, <2>2
<1>3. MoveMemory(run, source, destination, length) = copied[n]
  BY Zenon DEF MoveMemory, P
<1> HIDE DEF n
<1>4. \A x, y \in Nat : (x <= y => x * P <= y * P) /\ (x + 1) * P = x * P + P /\ x * P \in Nat
  BY <1>1
<1>5. n # 0
  BY <1>1, <1>2, <1>4
<1>6. \A i \in 0 .. n : i # n => i * P + P <= n * P /\ i * P < length
  <2>1. ASSUME NEW i \in 0 .. n, i # n PROVE i * P + P <= n * P
    <3>1. i \in Nat /\ i + 1 \in Nat /\ i + 1 <= n
      BY <1>2, <2>1
    <3>2. (i + 1) * P <= n * P /\ (i + 1) * P = i * P + P
      BY <1>2, <1>4, <3>1
    <3>3. QED
      BY <3>2
  <2>2. ASSUME NEW i \in 0 .. n, i * P + P <= n * P PROVE i * P < length
    <3>1. i * P \in Nat /\ n * P \in Nat
      BY <1>2, <1>4
    <3>2. QED
      BY <1>1, <1>2, <2>2, <3>1
  <2>3. QED
    BY <2>1, <2>2
<1>7. \A i \in 0 .. n : Cut(i) \in Nat /\ Cut(i) <= length
  <2>1. \A i \in 0 .. n : i * P \in Nat
    BY <1>4
  <2>2. QED
    BY <1>6, <2>1
<1>8. \A i \in 1 .. n : Cut(i - 1) < Cut(i)
  <2>1. SUFFICES ASSUME NEW i \in 1 .. n PROVE Cut(i - 1) < Cut(i)
    OBVIOUS
  <2>2. i - 1 \in 0 .. n /\ i - 1 # n /\ Cut(i - 1) = (i - 1) * P /\ i - 1 \in Nat
    BY <1>2
  <2>3. CASE i = n
    BY <1>6, <2>2, <2>3
  <2>4. CASE i # n
    <3>1. ((i - 1) + 1) * P = (i - 1) * P + P /\ (i - 1) + 1 = i /\ (i - 1) * P \in Nat
      BY <1>4, <2>2
    <3>2. i * P = (i - 1) * P + P
      BY <3>1
    <3>3. QED
      BY <1>1, <2>2, <2>4, <3>1, <3>2
  <2>5. QED
    BY <2>3, <2>4
<1>9. Cut(0) = 0 /\ Cut(n) = length
  BY <1>1, <1>5
<1>10. cut \in [0 .. n -> Nat] /\ \A i \in 0 .. n : cut[i] = Cut(i)
  BY <1>7
<1>11. /\ cut[0] = 0 /\ cut[n] = length
       /\ \A i \in 1 .. n : cut[i - 1] < cut[i]
       /\ \A i \in 0 .. n : cut[i] <= length
  <2> HIDE DEF Cut, cut
  <2>1. 0 \in 0 .. n /\ n \in 0 .. n /\ \A i \in 1 .. n : i \in 0 .. n /\ i - 1 \in 0 .. n
    BY <1>2
  <2>2. QED
    BY <1>7, <1>8, <1>9, <1>10, <2>1
<1>12. ASSUME NEW f PROVE F(f) = [i \in 0 .. n |-> Copying(run, source, destination, cut, f, i)]
  <2>1. ASSUME NEW i \in 0 .. n, i # 0
        PROVE  cut[i - 1] = Cut(i - 1) /\ cut[i] = Cut(i)
    BY <1>2, <1>10, <2>1
  <2> HIDE DEF cut, Cut
  <2>2. QED
    BY <2>1 DEF Copying
<1> HIDE DEF F, cut, Cut
<1>13. copied = [i \in 0 .. n |-> Copying(run, source, destination, cut, copied, i)]
  <2>0. PICK f : IsCopying(run, source, destination, cut, n, f)
    BY <1>2, CopyingExists
  <2>1. \E g : g = F(g)
    BY <1>12, <2>0 DEF IsCopying
  <2>2. copied = F(copied)
    BY <2>1, Zenon
  <2> HIDE DEF copied
  <2>3. QED
    BY <1>12, <2>2
<1> HIDE DEF copied
<1>14. Buffers(n, cut, length)
  BY <1>2, <1>5, <1>10, <1>11 DEF Buffers
<1>15. IsCopying(run, source, destination, cut, n, copied)
  BY <1>13 DEF IsCopying
<1>16. QED
  BY <1>3, <1>14, <1>15

\* moveMemory() copies towards lower addresses, so it does not overwrite what it has still
\* to copy.
LEMMA MoveMemoryOf ==
  ASSUME NEW m0, NEW run, RunOf(m0, run), NEW source \in Nat, NEW destination \in Nat,
         NEW length \in Nat, length # 0, destination < source, source + length <= MemorySize,
         NEW r, r = MoveMemory(run, source, destination, length)
  PROVE  GoesOn(m0, run, r) /\ Moved(run.mem, source, destination, length, r.mem)
<1>0. PICK n, cut, f : /\ Buffers(n, cut, length)
                       /\ IsCopying(run, source, destination, cut, n, f)
                       /\ MoveMemory(run, source, destination, length) = f[n]
  BY MoveCut
<1>1. /\ n \in Nat \ {0} /\ cut \in [0 .. n -> Nat] /\ cut[0] = 0 /\ cut[n] = length
      /\ \A i \in 1 .. n : cut[i - 1] < cut[i]
      /\ \A i \in 0 .. n : cut[i] <= length
      /\ f = [i \in 0 .. n |-> Copying(run, source, destination, cut, f, i)]
      /\ r = f[n]
  BY <1>0 DEF Buffers, IsCopying
<1>2. \A i \in 0 .. n : f[i] = Copying(run, source, destination, cut, f, i)
  <2> DEFINE F == [i \in 0 .. n |-> Copying(run, source, destination, cut, f, i)]
  <2>1. \A i \in 0 .. n : F[i] = Copying(run, source, destination, cut, f, i)
    OBVIOUS
  <2>2. f = F
    BY <1>1
  <2> HIDE DEF F
  <2>3. QED
    BY <2>1, <2>2
<1>3. /\ MemorySize \in Nat /\ run.mem \in Memories
      /\ \A x \in Cells : x \in Nat /\ x < MemorySize
      /\ \A x \in Nat : x < MemorySize => x \in Cells
  <2>1. run.mem \in Memories
    BY DEF RunOf
  <2>2. QED
    BY <2>1, CellFacts
<1> DEFINE G(i) == GoesOn(m0, run, f[i]) /\ Moved(run.mem, source, destination, cut[i], f[i].mem)
           T == {i \in Nat : i <= n => G(i)}
<1>4. G(0)
  <2>1. 0 \in 0 .. n /\ cut[0] = 0
    BY <1>1
  <2>2. f[0] = run
    BY <1>2, <2>1 DEF Copying
  <2>3. Moved(run.mem, source, destination, 0, run.mem)
    <3>1. \A x \in Cells : ~ (destination <= x /\ x < destination + 0)
      BY <1>3
    <3>2. QED
      BY <1>3, <3>1 DEF Moved
  <2>4. QED
    BY <2>1, <2>2, <2>3 DEF GoesOn
<1>5. ASSUME NEW i \in 1 .. n, G(i - 1) PROVE G(i)
  <2> DEFINE c == cut[i - 1]
             d == cut[i]
             g == f[i - 1]
             to == destination + c
             bytes == Bytes(g.mem, source + c, d - c)
  <2>1. /\ i \in 0 .. n /\ i - 1 \in 0 .. n /\ i # 0
        /\ c \in Nat /\ d \in Nat /\ c < d /\ d <= length /\ to \in Nat
    BY <1>1
  <2>2. f[i] = Write(g, to, bytes)
    BY <1>2, <2>1 DEF Copying
  <2>3. GoesOn(m0, run, g) /\ Moved(run.mem, source, destination, c, g.mem)
    BY <1>5
  <2> HIDE DEF g, c, d
  <2>4. /\ DOMAIN bytes = 1 .. d - c /\ Len(bytes) = d - c
        /\ \A k \in 1 .. d - c : bytes[k] = g.mem[source + c + k - 1]
    <3>1. d - c \in Nat
      BY <2>1
    <3>2. QED
      BY <3>1, BytesLength
  <2>5. \A k \in 1 .. d - c : bytes[k] = run.mem[source + c + k - 1] /\ bytes[k] \in 0 .. 255
    <3>1. SUFFICES ASSUME NEW k \in 1 .. d - c
                   PROVE  bytes[k] = run.mem[source + c + k - 1] /\ bytes[k] \in 0 .. 255
      OBVIOUS
    <3>2. /\ source + c + k - 1 \in Nat /\ source + c + k - 1 < MemorySize
          /\ ~ (source + c + k - 1 < destination + c)
      BY <1>3, <2>1
    <3>3. source + c + k - 1 \in Cells
      BY <1>3, <3>2
    <3>4. g.mem[source + c + k - 1] = run.mem[source + c + k - 1]
      BY <2>3, <3>2, <3>3 DEF Moved
    <3>5. run.mem[source + c + k - 1] \in 0 .. 255
      BY <1>3, <3>3 DEF Memories
    <3>6. QED
      BY <2>4, <3>4, <3>5
  <2>6. bytes \in Strings /\ bytes # <<>> /\ to + Len(bytes) <= MemorySize
    <3>1. bytes \in [1 .. d - c -> 0 .. 255]
      BY <2>5 DEF Bytes
    <3>2. bytes \in Seq(0 .. 255)
      <4>1. PICK k \in Nat : k = d - c
        BY <2>1
      <4> HIDE DEF bytes
      <4>2. bytes \in [1 .. k -> 0 .. 255]
        BY <3>1, <4>1
      <4>3. QED
        BY <4>2, IsASeq
    <3>3. bytes # <<>>
      <4>1. Len(bytes) # 0
        BY <2>1, <2>4
      <4> HIDE DEF bytes
      <4>2. QED
        BY <4>1
    <3>4. to + Len(bytes) <= MemorySize
      BY <1>3, <2>1, <2>4
    <3> HIDE DEF bytes
    <3>5. QED
      BY <3>2, <3>3, <3>4 DEF Strings
  <2> HIDE DEF bytes, to
  <2>7. Wrote(m0, g, to, bytes, f[i]) /\ Covers(g.mem, to, bytes, f[i].mem)
    <3>1. RunOf(m0, g)
      BY <2>3 DEF GoesOn
    <3>2. to \in Nat /\ bytes \in Strings /\ bytes # <<>> /\ to + Len(bytes) <= MemorySize
      BY <2>1, <2>6
    <3>3. QED
      BY <2>2, <3>1, <3>2, WroteMemory
  <2>8. GoesOn(m0, run, f[i])
    BY <2>3, <2>7 DEF GoesOn, Wrote
  <2>9. Moved(run.mem, source, destination, d, f[i].mem)
    <3>1. ASSUME NEW x \in Cells
          PROVE  f[i].mem[x] = IF destination <= x /\ x < destination + d
                               THEN run.mem[source + (x - destination)] ELSE run.mem[x]
      <4>1. x \in Nat /\ to = destination + c /\ to + Len(bytes) = destination + d
        BY <1>3, <2>1, <2>4 DEF to
      <4>2. f[i].mem[x] = IF to <= x /\ x < destination + d THEN bytes[x - to + 1] ELSE g.mem[x]
        BY <2>7, <4>1 DEF Covers
      <4>3. g.mem[x] = IF destination <= x /\ x < destination + c
                       THEN run.mem[source + (x - destination)] ELSE run.mem[x]
        BY <2>3 DEF Moved
      <4>4. CASE to <= x /\ x < destination + d
        <5>1. x - to + 1 \in 1 .. d - c /\ source + c + (x - to + 1) - 1 = source + (x - destination)
          BY <2>1, <4>1, <4>4
        <5>2. bytes[x - to + 1] = run.mem[source + c + (x - to + 1) - 1]
          BY <2>5, <5>1
        <5>3. destination <= x
          BY <2>1, <4>1, <4>4
        <5>4. QED
          BY <4>2, <4>4, <5>1, <5>2, <5>3
      <4>5. CASE x < to
        BY <2>1, <4>1, <4>2, <4>3, <4>5
      <4>6. CASE destination + d <= x
        BY <2>1, <4>1, <4>2, <4>3, <4>6
      <4>7. QED
        BY <2>1, <4>1, <4>4, <4>5, <4>6
    <3>2. QED
      BY <2>7, <3>1 DEF Moved, Covers
  <2>10. QED
    BY <2>8, <2>9 DEF d
<1>6. 0 \in T
  BY <1>4
<1>7. ASSUME NEW i \in Nat, i \in T PROVE i + 1 \in T
  <2> HIDE DEF G
  <2>1. CASE i + 1 <= n
    <3>1. i + 1 \in 1 .. n /\ (i + 1) - 1 = i /\ G(i)
      BY <1>1, <1>7, <2>1
    <3>2. G(i + 1)
      BY <1>5, <3>1
    <3>3. QED
      BY <3>2
  <2>2. QED
    BY <2>1
<1>8. Nat \subseteq T
  <2> HIDE DEF T
  <2>1. QED
    BY <1>6, <1>7, Counting
<1>9. n \in Nat /\ n <= n /\ r = f[n] /\ cut[n] = length
  BY <1>1
<1>10. G(n)
  <2> HIDE DEF G
  <2>1. n \in T
    BY <1>8, <1>9
  <2>2. QED
    BY <1>9, <2>1
<1>11. QED
  BY <1>9, <1>10

-----------------------------------------------------------------------------
(* Defragmentation *)

SameHolds(m, A, m2, A2) ==
  \A key \in Keys : \A value : Holds(m2, A2, key, value) <=> Holds(m, A, key, value)

\* A hole has no key of the firmware.
LEMMA HoleHasNoKey ==
  ASSUME NEW m, NEW a, KeyLength(m, a) = 0
  PROVE  \A key \in Keys : KeyOf(m, a) # key
<1>1. KeyOf(m, a) = <<>>
  BY DEF KeyOf, Bytes
<1>2. QED
  BY <1>1, KeyFacts

\* There are only holes behind the hole: the end tag takes its place.
LEMMA LastHole ==
  ASSUME NEW m, NEW A, NEW e, Table(m, A, e), NEW h \in A \union {e}, KeyLength(m, h) = 0,
         \A a \in A : h < a => KeyLength(m, a) = 0,
         NEW m0, NEW run, RunOf(m0, run), run.mem = m,
         NEW r, r = WriteEnd(run, h)
  PROVE  /\ GoesOn(m0, run, r) /\ Table(r.mem, {a \in A : a < h}, h)
         /\ SameHolds(m, A, r.mem, {a \in A : a < h})
         /\ \A a \in {b \in A : b < h} : SameAs(m, a, r.mem, a)
<1> DEFINE B == {a \in A : a < h}
<1>1. /\ MemorySize \in Nat /\ h \in Nat /\ 1 <= h /\ h <= e /\ e \in Nat /\ e + 3 <= MemorySize
      /\ h + 2 <= MemorySize
  BY Items
<1>2. GoesOn(m0, run, r) /\ IsEnd(r.mem, h) /\ Outside(m, h, h + 2, r.mem)
  <2>1. h \in Nat /\ h + 2 <= MemorySize
    BY <1>1
  <2>2. GoesOn(m0, run, r) /\ IsEnd(r.mem, h) /\ Outside(run.mem, h, h + 2, r.mem)
    BY <2>1, WriteEndOf
  <2>3. QED
    BY <2>2
<1>3. \A a \in B : SameAs(m, a, r.mem, a)
  <2>1. SUFFICES ASSUME NEW a \in A, a < h PROVE SameAs(m, a, r.mem, a)
    OBVIOUS
  <2>2. a + FullLength(m, a) <= h
    BY <2>1, Chained
  <2>3. h \in Nat /\ h + 2 \in Nat
    BY <1>1
  <2>4. QED
    BY <1>2, <2>2, <2>3, Untouched
<1>4. Table(r.mem, B, h)
  <2>1. /\ \A a \in B : /\ a \in A /\ a \in Nat /\ 1 <= a /\ a < h
                        /\ FullLength(r.mem, a) = FullLength(m, a)
                        /\ KeyLength(r.mem, a) = KeyLength(m, a) /\ KeyOf(r.mem, a) = KeyOf(m, a)
    BY <1>3, Items DEF SameAs
  <2>2. B \subseteq 1 .. h - 1 /\ h \in 1 .. MemorySize - 3
    BY <1>1, <2>1
  <2>3. FirstItem \in B \union {h}
    BY <1>1, Chained DEF FirstItem
  <2>4. ASSUME NEW a \in B
        PROVE  a + FullLength(m, a) \in B \union {h}
    <3>1. /\ a + FullLength(m, a) \in A \union {e} /\ a + FullLength(m, a) <= h
          /\ a + FullLength(m, a) \in Nat
      BY <2>1, Chained, Items
    <3>2. CASE a + FullLength(m, a) < h
      BY <1>1, <3>1, <3>2
    <3>3. QED
      BY <1>1, <3>1, <3>2
  <2>5. \A a \in B : /\ FullLength(r.mem, a) >= HeaderSize + 1
                     /\ a + FullLength(r.mem, a) \in B \union {h}
                     /\ KeyLength(r.mem, a) = 0
                          \/ HeaderSize + KeyLength(r.mem, a) < FullLength(r.mem, a)
                     /\ KeyLength(r.mem, a) = 0 \/ KeyOf(r.mem, a) \in Keys
    BY <2>1, <2>4 DEF Table
  <2>6. \A a \in B : \A b \in B \union {h} : a < b => a + FullLength(r.mem, a) <= b
    BY <2>1, Chained
  <2>7. \A a, b \in B : KeyLength(r.mem, a) # 0 /\ KeyOf(r.mem, a) = KeyOf(r.mem, b) => a = b
    BY <2>1, Zenon DEF Table
  <2>8. QED
    BY <1>2, <2>2, <2>3, <2>5, <2>6, <2>7 DEF Table, Outside
<1>5. SameHolds(m, A, r.mem, B)
  <2>1. SUFFICES ASSUME NEW key \in Keys, NEW value
                 PROVE  Holds(r.mem, B, key, value) <=> Holds(m, A, key, value)
    BY DEF SameHolds
  <2>2. ASSUME NEW a \in A, KeyOf(m, a) = key PROVE a \in B
    <3>1. a \in Nat /\ a # h /\ ~ (h < a)
      BY <2>2, HoleHasNoKey, Items
    <3>2. QED
      BY <1>1, <3>1
  <2>3. \A a \in B : KeyOf(r.mem, a) = KeyOf(m, a) /\ GetBuffer(r.mem, a) = GetBuffer(m, a)
    BY <1>3 DEF SameAs
  <2>4. QED
    BY <2>2, <2>3 DEF Holds
<1>6. QED
  BY <1>2, <1>3, <1>4, <1>5

\* The items up to stop go down to the hole h, and leave one behind them.
Gap(m, A, e, h, item, stop) ==
  /\ Table(m, A, e) /\ h \in A /\ item \in A /\ stop \in A \union {e} /\ h < item /\ item < stop
  /\ \A a \in A : h <= a /\ a < item => KeyLength(m, a) = 0

Packed(A, h, item, stop) ==
  ({a \in A : a < h} \union {a - (item - h) : a \in {b \in A : item <= b /\ b < stop}})
    \union ({h + stop - item} \union {a \in A : stop <= a})

Filled(m, A, e, h, item, stop, m2) ==
  /\ m2 \in Memories /\ IsEnd(m2, e)
  /\ \A a \in A : a < h \/ stop <= a => SameAs(m, a, m2, a)
  /\ \A a \in A : item <= a /\ a < stop => SameAs(m, a, m2, a - (item - h))
  /\ FullLength(m2, h + stop - item) = item - h /\ KeyLength(m2, h + stop - item) = 0

\* The holes and the items that are moved take at least four bytes each.
LEMMA GapFacts ==
  ASSUME NEW m, NEW A, NEW e, NEW h, NEW item, NEW stop, Gap(m, A, e, h, item, stop)
  PROVE  /\ MemorySize \in Nat /\ m \in Memories /\ Table(m, A, e)
         /\ h \in Nat /\ item \in Nat /\ stop \in Nat /\ e \in Nat
         /\ 1 <= h /\ h + 4 <= item /\ item + 4 <= stop /\ stop <= e /\ e + 3 <= MemorySize
<1>1. Table(m, A, e) /\ h \in A /\ item \in A /\ stop \in A \union {e} /\ h < item /\ item < stop
  BY DEF Gap
<1>2. /\ h \in Nat /\ item \in Nat /\ stop \in Nat /\ e \in Nat /\ 1 <= h /\ stop <= e
      /\ e + 3 <= MemorySize /\ MemorySize \in Nat /\ m \in Memories
      /\ FullLength(m, h) \in Nat /\ 4 <= FullLength(m, h)
      /\ FullLength(m, item) \in Nat /\ 4 <= FullLength(m, item)
  BY <1>1, Items
<1>3. h + FullLength(m, h) <= item /\ item + FullLength(m, item) <= stop
  BY <1>1, Chained
<1>4. QED
  BY <1>1, <1>2, <1>3

\* ... which keeps the table
LEMMA PackedTable ==
  ASSUME NEW m, NEW A, NEW e, NEW h, NEW item, NEW stop, Gap(m, A, e, h, item, stop),
         NEW m2, Filled(m, A, e, h, item, stop, m2)
  PROVE  Table(m2, Packed(A, h, item, stop), e)
<1> DEFINE s == item - h
           left == h + stop - item
           B1 == {a \in A : a < h}
           M == {a \in A : item <= a /\ a < stop}
           B2 == {a - s : a \in M}
           B4 == {a \in A : stop <= a}
           A2 == Packed(A, h, item, stop)
           Z(b) == /\ FullLength(m2, b) >= HeaderSize + 1
                   /\ b + FullLength(m2, b) \in A2 \union {e}
                   /\ KeyLength(m2, b) = 0 \/ HeaderSize + KeyLength(m2, b) < FullLength(m2, b)
                   /\ KeyLength(m2, b) = 0 \/ KeyOf(m2, b) \in Keys
<1>1. /\ MemorySize \in Nat /\ m \in Memories /\ Table(m, A, e)
      /\ h \in Nat /\ item \in Nat /\ stop \in Nat /\ e \in Nat
      /\ 1 <= h /\ h + 4 <= item /\ item + 4 <= stop /\ stop <= e /\ e + 3 <= MemorySize
  BY GapFacts
<1>2. s \in Nat /\ 4 <= s /\ item = h + s /\ left \in Nat /\ left + s = stop /\ h + 4 <= left
  BY <1>1
<1>3. A2 = (B1 \union B2) \union ({left} \union B4)
  BY DEF Packed
<1>4. h \in A /\ item \in A /\ stop \in A \union {e}
  BY DEF Gap
<1>5. \A a \in A \union {e} : a \in Nat /\ 1 <= a /\ a <= e /\ FullLength(m, a) \in Nat
  BY <1>1, Items
<1>6. \A a \in A : a < e /\ 4 <= FullLength(m, a)
  BY <1>1, Items
<1>7. /\ \A a \in A : a + FullLength(m, a) \in A \union {e}
      /\ \A a \in A : \A b \in A \union {e} : a < b => a + FullLength(m, a) <= b
  BY <1>1, Chained
<1>8. \A a \in A : /\ FullLength(m, a) >= HeaderSize + 1
                   /\ KeyLength(m, a) = 0 \/ HeaderSize + KeyLength(m, a) < FullLength(m, a)
                   /\ KeyLength(m, a) = 0 \/ KeyOf(m, a) \in Keys
  BY <1>1, Zenon DEF Table
<1>9. \A b \in B1 : b \in A /\ b < h /\ SameAs(m, b, m2, b)
  BY DEF Filled
<1>10. \A b \in B4 : b \in A /\ stop <= b /\ SameAs(m, b, m2, b)
  BY DEF Filled
<1>11. \A a \in M : a \in A /\ item <= a /\ a < stop /\ SameAs(m, a, m2, a - s)
  BY DEF Filled
<1>12. FullLength(m2, left) = s /\ KeyLength(m2, left) = 0
  BY DEF Filled
<1>13. item \in M
  BY <1>1, <1>4
<1> HIDE DEF A2
<1>14. \A a \in M : a - s \in A2
  BY <1>3
<1>15. h \in A2
  <2>1. item - s = h
    BY <1>2, <1>1
  <2>2. QED
    BY <1>13, <1>14, <2>1
<1>16. left \in A2 /\ \A b \in B1 \union B4 : b \in A2
  BY <1>3
<1> HIDE DEF s, left, M, B2
<1>17. ASSUME NEW b \in B1 PROVE Z(b) /\ b \in Nat /\ 1 <= b /\ b < h /\ b + FullLength(m2, b) <= h
  <2>1. b \in A /\ b < h /\ FullLength(m2, b) = FullLength(m, b) /\ b \in Nat /\ 1 <= b
        /\ KeyLength(m2, b) = KeyLength(m, b) /\ KeyOf(m2, b) = KeyOf(m, b)
        /\ FullLength(m, b) \in Nat
    BY <1>5, <1>9 DEF SameAs
  <2>2. b + FullLength(m, b) \in A \union {e} /\ b + FullLength(m, b) <= h
    BY <1>4, <1>7, <2>1
  <2>3. b + FullLength(m, b) \in A2
    <3>1. CASE b + FullLength(m, b) = h
      BY <1>15, <3>1
    <3>2. CASE b + FullLength(m, b) # h
      <4>1. b + FullLength(m, b) < h
        BY <1>1, <2>1, <2>2, <3>2
      <4>2. b + FullLength(m, b) # e
        BY <1>1, <4>1
      <4>3. b + FullLength(m, b) \in B1
        BY <2>2, <4>1, <4>2
      <4>4. QED
        BY <1>16, <4>3
    <3>3. QED
      BY <3>1, <3>2
  <2>4. QED
    BY <1>8, <2>1, <2>2, <2>3
<1>18. ASSUME NEW a \in M
       PROVE  /\ Z(a - s) /\ a - s \in Nat /\ 1 <= a - s /\ h <= a - s /\ a - s < left
              /\ FullLength(m2, a - s) = FullLength(m, a)
              /\ (a - s) + FullLength(m2, a - s) <= left
  <2>1. /\ a \in A /\ item <= a /\ a < stop /\ FullLength(m2, a - s) = FullLength(m, a) /\ a \in Nat
        /\ KeyLength(m2, a - s) = KeyLength(m, a) /\ KeyOf(m2, a - s) = KeyOf(m, a)
        /\ FullLength(m, a) \in Nat
    BY <1>5, <1>11 DEF SameAs
  <2>2. a + FullLength(m, a) \in A \union {e} /\ a + FullLength(m, a) <= stop
    BY <1>4, <1>7, <2>1
  <2>3. /\ a - s \in Nat /\ 1 <= a - s /\ h <= a - s /\ a - s < left
        /\ (a - s) + FullLength(m, a) <= left
        /\ (a - s) + FullLength(m, a) = (a + FullLength(m, a)) - s
    BY <1>1, <1>2, <2>1, <2>2
  <2>4. (a - s) + FullLength(m, a) \in A2
    <3>1. CASE a + FullLength(m, a) = stop
      <4>1. (a - s) + FullLength(m, a) = left
        BY <1>1, <1>2, <2>1, <3>1
      <4>2. QED
        BY <1>16, <4>1
    <3>2. CASE a + FullLength(m, a) # stop
      <4>1. a + FullLength(m, a) < stop /\ item <= a + FullLength(m, a)
        BY <1>1, <2>1, <2>2, <3>2
      <4>2. a + FullLength(m, a) # e
        BY <1>1, <4>1
      <4>3. a + FullLength(m, a) \in M
        BY <2>2, <4>1, <4>2 DEF M
      <4>4. QED
        BY <1>14, <2>3, <4>3
    <3>3. QED
      BY <3>1, <3>2
  <2>5. QED
    BY <1>8, <2>1, <2>3, <2>4
<1>19. Z(left) /\ left + FullLength(m2, left) = stop
  <2>1. stop \in A2 \union {e}
    <3>1. CASE stop = e
      BY <3>1
    <3>2. CASE stop # e
      <4>1. stop \in B4
        BY <1>1, <1>4, <3>2
      <4>2. QED
        BY <1>16, <4>1
    <3>3. QED
      BY <3>1, <3>2
  <2>2. s >= HeaderSize + 1
    BY <1>2 DEF HeaderSize
  <2>3. QED
    BY <1>2, <1>12, <2>1, <2>2
<1>20. ASSUME NEW b \in B4
       PROVE  /\ Z(b) /\ b \in A /\ b \in Nat /\ 1 <= b /\ b < e /\ stop <= b
              /\ FullLength(m2, b) = FullLength(m, b)
  <2>1. b \in A /\ stop <= b /\ FullLength(m2, b) = FullLength(m, b) /\ b \in Nat /\ 1 <= b
        /\ KeyLength(m2, b) = KeyLength(m, b) /\ KeyOf(m2, b) = KeyOf(m, b)
        /\ FullLength(m, b) \in Nat /\ b < e
    BY <1>5, <1>6, <1>10 DEF SameAs
  <2>2. b + FullLength(m, b) \in A2 \union {e}
    <3>1. b + FullLength(m, b) \in A \union {e} /\ stop <= b + FullLength(m, b)
      BY <1>1, <1>7, <2>1
    <3>2. CASE b + FullLength(m, b) \in A
      <4>1. b + FullLength(m, b) \in B4
        BY <3>1, <3>2
      <4>2. QED
        BY <1>16, <4>1
    <3>3. QED
      BY <3>1, <3>2
  <2>3. QED
    BY <1>8, <2>1, <2>2
<1>21. ASSUME NEW b \in A2
       PROVE  b \in B1 \/ (\E a \in M : b = a - s) \/ b = left \/ b \in B4
  BY <1>3 DEF B2
<1> HIDE DEF B1, B4
<1>22. \A b \in A2 : Z(b) /\ b \in Nat /\ 1 <= b /\ b < e
  <2> HIDE DEF Z
  <2>1. SUFFICES ASSUME NEW b \in A2 PROVE Z(b) /\ b \in Nat /\ 1 <= b /\ b < e
    OBVIOUS
  <2>2. CASE b \in B1
    BY <1>1, <1>17, <2>2
  <2>3. CASE \E a \in M : b = a - s
    <3>1. PICK a \in M : b = a - s
      BY <2>3
    <3>2. Z(b) /\ b \in Nat /\ 1 <= b /\ b < left
      BY <1>18, <3>1
    <3>3. QED
      BY <1>1, <1>2, <3>2
  <2>4. CASE b = left
    BY <1>1, <1>2, <1>19, <2>4
  <2>5. CASE b \in B4
    BY <1>20, <2>5
  <2>6. QED
    BY <1>21, <2>2, <2>3, <2>4, <2>5
<1>23. ASSUME NEW b \in A2, NEW c \in A2 \union {e}, b < c
       PROVE  b + FullLength(m2, b) <= c
  <2> HIDE DEF Z
  <2>1. c \in B1 \/ (\E a \in M : c = a - s) \/ c = left \/ c \in B4 \/ c = e
    BY <1>21
  <2>2. CASE b \in B1
    <3>1. b \in A /\ FullLength(m2, b) = FullLength(m, b) /\ b + FullLength(m2, b) <= h
      BY <1>9, <1>17, <2>2 DEF SameAs
    <3>2. CASE c \in B1
      <4>1. c \in A
        BY <1>9, <3>2
      <4>2. QED
        BY <1>7, <1>23, <3>1, <4>1
    <3>3. CASE h <= c
      <4>1. b \in Nat /\ c \in Nat /\ FullLength(m2, b) \in Nat
        BY <1>1, <1>5, <1>22, <3>1
      <4>2. QED
        BY <1>1, <3>1, <3>3, <4>1
    <3>4. c \in B1 \/ h <= c
      <4>1. CASE \E a \in M : c = a - s
        BY <1>18, <4>1
      <4>2. CASE c = left \/ c \in B4 \/ c = e
        BY <1>1, <1>2, <1>20, <4>2
      <4>3. QED
        BY <2>1, <4>1, <4>2
    <3>5. QED
      BY <3>2, <3>3, <3>4
  <2>3. ASSUME NEW a \in M, b = a - s PROVE b + FullLength(m2, b) <= c
    <3>1. /\ b \in Nat /\ h <= b /\ b < left /\ FullLength(m2, b) = FullLength(m, a)
          /\ b + FullLength(m, a) <= left /\ a \in A /\ a \in Nat /\ FullLength(m, a) \in Nat
      BY <1>5, <1>11, <1>18, <2>3
    <3>2. CASE c \in B1
      BY <1>1, <1>17, <1>23, <3>1, <3>2
    <3>3. ASSUME NEW d \in M, c = d - s PROVE b + FullLength(m2, b) <= c
      <4>1. d \in A /\ d \in Nat
        BY <1>5, <1>11
      <4>2. a < d
        BY <1>2, <1>23, <2>3, <3>1, <3>3, <4>1
      <4>3. a + FullLength(m, a) <= d
        BY <1>7, <3>1, <4>1, <4>2
      <4>4. QED
        BY <1>2, <2>3, <3>1, <3>3, <4>1, <4>3
    <3>4. CASE left <= c /\ c \in Nat
      BY <1>2, <3>1, <3>4
    <3>5. CASE c = left \/ c \in B4 \/ c = e
      BY <1>1, <1>2, <1>20, <3>4, <3>5
    <3>6. QED
      BY <2>1, <3>2, <3>3, <3>5
  <2>4. CASE b = left
    <3>1. b + FullLength(m2, b) = stop /\ b \in Nat
      BY <1>2, <1>19, <2>4
    <3>2. CASE c \in B1
      BY <1>1, <1>2, <1>17, <1>23, <2>4, <3>2
    <3>3. CASE \E a \in M : c = a - s
      BY <1>2, <1>18, <1>23, <2>4, <3>3
    <3>4. CASE c \in B4 \/ c = e
      BY <1>1, <1>20, <3>1, <3>4
    <3>5. QED
      BY <1>2, <1>23, <2>1, <2>4, <3>2, <3>3, <3>4
  <2>5. CASE b \in B4
    <3>1. b \in A /\ stop <= b /\ FullLength(m2, b) = FullLength(m, b) /\ b \in Nat
      BY <1>20, <2>5
    <3>2. CASE c \in B4 \/ c = e
      <4>1. c \in A \union {e}
        BY <1>20, <3>2
      <4>2. QED
        BY <1>7, <1>23, <3>1, <4>1
    <3>3. CASE c \in B1
      BY <1>1, <1>17, <1>23, <3>1, <3>3
    <3>4. CASE \E a \in M : c = a - s
      BY <1>1, <1>2, <1>18, <1>23, <3>1, <3>4
    <3>5. CASE c = left
      BY <1>1, <1>2, <1>23, <3>1, <3>5
    <3>6. QED
      BY <2>1, <3>2, <3>3, <3>4, <3>5
  <2>6. QED
    BY <1>21, <2>2, <2>3, <2>4, <2>5
<1>24. ASSUME NEW b \in A2, NEW c \in A2, KeyLength(m2, b) # 0, KeyOf(m2, b) = KeyOf(m2, c)
       PROVE  b = c
  <2> HIDE DEF Z
  <2>1. ASSUME NEW d \in A2, KeyLength(m2, d) # 0
        PROVE  \E a \in A : /\ KeyLength(m, a) = KeyLength(m2, d) /\ KeyOf(m, a) = KeyOf(m2, d)
                            /\ \/ a = d /\ (d < h \/ stop <= d)
                               \/ item <= a /\ a < stop /\ a \in Nat /\ d = a - s
    <3>1. CASE d \in B1
      BY <1>9, <3>1 DEF SameAs
    <3>2. CASE d \in B4
      BY <1>10, <3>2 DEF SameAs
    <3>3. CASE \E a \in M : d = a - s
      BY <1>5, <1>11, <3>3 DEF SameAs
    <3>4. QED
      BY <1>12, <1>21, <2>1, <3>1, <3>2, <3>3
  <2>2. KeyLength(m2, c) # 0
    <3>1. b \in Nat /\ c \in Nat /\ b + 2 < MemorySize /\ c + 2 < MemorySize /\ m2 \in Memories
      BY <1>1, <1>22 DEF Filled
    <3>2. QED
      BY <1>24, <3>1, SameKeys
  <2>3. PICK a \in A : /\ KeyLength(m, a) = KeyLength(m2, b) /\ KeyOf(m, a) = KeyOf(m2, b)
                       /\ \/ a = b /\ (b < h \/ stop <= b)
                          \/ item <= a /\ a < stop /\ a \in Nat /\ b = a - s
    BY <1>24, <2>1
  <2>4. PICK d \in A : /\ KeyLength(m, d) = KeyLength(m2, c) /\ KeyOf(m, d) = KeyOf(m2, c)
                       /\ \/ d = c /\ (c < h \/ stop <= c)
                          \/ item <= d /\ d < stop /\ d \in Nat /\ c = d - s
    BY <2>1, <2>2
  <2>5. a = d
    BY <1>1, <1>24, <2>3, <2>4, Zenon DEF Table
  <2>6. a \in Nat /\ b \in Nat /\ c \in Nat
    BY <1>5, <1>22
  <2>7. QED
    BY <1>1, <1>2, <2>3, <2>4, <2>5, <2>6
<1>25. FirstItem \in A2 \union {e}
  <2>1. 1 \in A \union {e}
    BY <1>1, Chained
  <2>2. CASE h = 1
    BY <1>15, <2>2 DEF FirstItem
  <2>3. CASE h # 1
    <3>1. 1 < h /\ 1 \in A
      BY <1>1, <2>1, <2>3
    <3>2. 1 \in B1
      BY <3>1 DEF B1
    <3>3. QED
      BY <1>16, <3>2 DEF FirstItem
  <2>4. QED
    BY <2>2, <2>3
<1>26. A2 \subseteq 1 .. e - 1 /\ e \in 1 .. MemorySize - 3
  BY <1>1, <1>22
<1>27. m2 \in Memories /\ IsEnd(m2, e)
  BY DEF Filled
<1>28. Table(m2, A2, e)
  BY <1>22, <1>23, <1>24, <1>25, <1>26, <1>27 DEF Table
<1>29. QED
  BY <1>28 DEF A2

\* ... and what it holds
LEMMA PackedHolds ==
  ASSUME NEW m, NEW A, NEW e, NEW h, NEW item, NEW stop, Gap(m, A, e, h, item, stop),
         NEW m2, Filled(m, A, e, h, item, stop, m2)
  PROVE  SameHolds(m, A, m2, Packed(A, h, item, stop))
<1> DEFINE s == item - h
           A2 == Packed(A, h, item, stop)
<1>1. SUFFICES ASSUME NEW key \in Keys, NEW value
               PROVE  Holds(m2, A2, key, value) <=> Holds(m, A, key, value)
  BY DEF SameHolds
<1>2. \A b : b \in A2 <=> \/ b \in A /\ b < h
                          \/ \E a \in A : item <= a /\ a < stop /\ b = a - s
                          \/ b = h + stop - item
                          \/ b \in A /\ stop <= b
  BY DEF Packed
<1> HIDE DEF A2
<1>3. ASSUME NEW b \in A2, KeyOf(m2, b) = key
      PROVE  \E a \in A : KeyOf(m, a) = key /\ GetBuffer(m, a) = GetBuffer(m2, b)
  <2>1. CASE b \in A /\ (b < h \/ stop <= b)
    BY <1>3, <2>1 DEF Filled, SameAs
  <2>2. CASE \E a \in A : item <= a /\ a < stop /\ b = a - s
    BY <1>3, <2>2 DEF Filled, SameAs
  <2>3. CASE b = h + stop - item
    <3>1. KeyLength(m2, b) = 0
      BY <2>3 DEF Filled
    <3>2. QED
      BY <1>3, <3>1, HoleHasNoKey
  <2>4. QED
    BY <1>2, <2>1, <2>2, <2>3
<1>4. ASSUME NEW a \in A, KeyOf(m, a) = key
      PROVE  \E b \in A2 : KeyOf(m2, b) = key /\ GetBuffer(m2, b) = GetBuffer(m, a)
  <2>1. /\ a \in Nat /\ h \in Nat /\ item \in Nat /\ stop \in Nat
    BY GapFacts, Items
  <2>2. ~ (h <= a /\ a < item)
    BY <1>4, HoleHasNoKey DEF Gap
  <2>3. CASE a < h \/ stop <= a
    <3>1. a \in A2 /\ SameAs(m, a, m2, a)
      BY <1>2, <2>3 DEF Filled
    <3>2. QED
      BY <1>4, <3>1 DEF SameAs
  <2>4. CASE item <= a /\ a < stop
    <3>1. a - s \in A2 /\ SameAs(m, a, m2, a - s)
      BY <1>2, <2>4 DEF Filled
    <3>2. QED
      BY <1>4, <3>1 DEF SameAs
  <2>5. QED
    BY <2>1, <2>2, <2>3, <2>4
<1>5. QED
  BY <1>3, <1>4 DEF Holds

\* The hole is further up then.
LEMMA PackedHoles ==
  ASSUME NEW m, NEW A, NEW e, NEW h, NEW item, NEW stop, Gap(m, A, e, h, item, stop),
         NEW m2, Filled(m, A, e, h, item, stop, m2),
         \A a \in A : a < h \/ (item <= a /\ a < stop) => KeyLength(m, a) # 0
  PROVE  /\ h + stop - item \in Packed(A, h, item, stop) /\ h + stop - item \in Nat
         /\ h < h + stop - item
         /\ \A b \in Packed(A, h, item, stop) : b < h + stop - item => KeyLength(m2, b) # 0
<1> DEFINE s == item - h
           A2 == Packed(A, h, item, stop)
<1>1. \A b : b \in A2 <=> \/ b \in A /\ b < h
                          \/ \E a \in A : item <= a /\ a < stop /\ b = a - s
                          \/ b = h + stop - item
                          \/ b \in A /\ stop <= b
  BY DEF Packed
<1> HIDE DEF A2
<1>2. h \in Nat /\ item \in Nat /\ stop \in Nat /\ h + 4 <= item /\ item + 4 <= stop
  BY GapFacts
<1>3. h + stop - item \in Nat /\ h < h + stop - item
  BY <1>2
<1>4. ASSUME NEW b \in A2, b < h + stop - item PROVE KeyLength(m2, b) # 0
  <2>1. CASE b \in A /\ b < h
    BY <2>1 DEF Filled, SameAs
  <2>2. CASE \E a \in A : item <= a /\ a < stop /\ b = a - s
    BY <2>2 DEF Filled, SameAs
  <2>3. CASE b = h + stop - item
    BY <1>3, <1>4, <2>3
  <2>4. CASE b \in A /\ stop <= b
    <3>1. b \in Nat
      BY <2>4, Items DEF Gap
    <3>2. QED
      BY <1>2, <1>4, <2>4, <3>1
  <2>5. QED
    BY <1>1, <2>1, <2>2, <2>3, <2>4
<1>5. QED
  BY <1>1, <1>3, <1>4 DEF A2

\* The hole that is left
LEMMA WriteHoleOf ==
  ASSUME NEW m0, NEW run, RunOf(m0, run), NEW at \in Nat, NEW full \in Nat, full <= 65535,
         at + 3 <= MemorySize, NEW r, r = WriteHole(run, at, full)
  PROVE  /\ GoesOn(m0, run, r) /\ FullLength(r.mem, at) = full /\ KeyLength(r.mem, at) = 0
         /\ Outside(run.mem, at, at + 3, r.mem)
<1> DEFINE h == Header(full, 0)
<1>1. h \in Strings /\ Len(h) = 3 /\ h # <<>> /\ h[1] + 256 * h[2] = full /\ h[3] = 0
  BY HeaderFacts
<1>2. r = Write(run, at, h)
  BY DEF WriteHole
<1> HIDE DEF h
<1>3. Wrote(m0, run, at, h, r) /\ Covers(run.mem, at, h, r.mem)
  <2>1. h \in Strings /\ h # <<>> /\ at + Len(h) <= MemorySize
    BY <1>1
  <2>2. QED
    BY <1>2, <2>1, WroteMemory
<1>4. \A x \in Cells : r.mem[x] = IF at <= x /\ x < at + 3 THEN h[x - at + 1] ELSE run.mem[x]
  BY <1>1, <1>3 DEF Covers
<1>5. MemorySize \in Nat /\ at \in Cells /\ at + 1 \in Cells /\ at + 2 \in Cells
      /\ \A x \in Cells : x \in Nat
  BY SizeAssumption DEF Cells
<1>6. r.mem[at] = h[1] /\ r.mem[at + 1] = h[2] /\ r.mem[at + 2] = h[3]
  <2>1. at - at + 1 = 1 /\ (at + 1) - at + 1 = 2 /\ (at + 2) - at + 1 = 3
    OBVIOUS
  <2>2. at <= at + 2 /\ at < at + 3 /\ at <= at + 1 /\ at + 1 < at + 3 /\ at + 2 < at + 3 /\ at <= at
    OBVIOUS
  <2>3. QED
    BY <1>4, <1>5, <2>1, <2>2
<1>7. FullLength(r.mem, at) = full /\ KeyLength(r.mem, at) = 0
  BY <1>1, <1>6 DEF FullLength, KeyLength
<1>8. \A x \in Cells : x < at \/ at + 3 <= x => r.mem[x] = run.mem[x]
  <2>1. ASSUME NEW x \in Cells, x < at \/ at + 3 <= x PROVE ~ (at <= x /\ x < at + 3)
    BY <1>5, <2>1
  <2>2. QED
    BY <1>4, <2>1
<1>9. QED
  BY <1>3, <1>7, <1>8 DEF GoesOn, Wrote, Outside, Covers

\* The move and the hole behind it fill the hole.
LEMMA FillsHole ==
  ASSUME NEW m, NEW A, NEW e, NEW h, NEW item, NEW stop, Gap(m, A, e, h, item, stop),
         NEW m1, Moved(m, item, h, stop - item, m1),
         NEW m2, Outside(m1, h + stop - item, h + stop - item + 3, m2),
         FullLength(m2, h + stop - item) = item - h, KeyLength(m2, h + stop - item) = 0
  PROVE  Filled(m, A, e, h, item, stop, m2)
<1> DEFINE left == h + stop - item
<1>1. /\ MemorySize \in Nat /\ m \in Memories /\ Table(m, A, e)
      /\ h \in Nat /\ item \in Nat /\ stop \in Nat /\ e \in Nat
      /\ 1 <= h /\ h + 4 <= item /\ item + 4 <= stop /\ stop <= e /\ e + 3 <= MemorySize
  BY GapFacts
<1>2. left \in Nat /\ left + 4 <= stop /\ h + (stop - item) = left
  BY <1>1
<1>3. m2 \in Memories
  BY DEF Outside
<1>4. \A x \in Cells : x \in Nat
  BY <1>1 DEF Cells
<1> HIDE DEF left
<1>5. ASSUME NEW x \in Cells
      PROVE  /\ x < h \/ stop <= x => m2[x] = m[x]
             /\ h <= x /\ x < left => m2[x] = m[item + (x - h)]
  <2>1. /\ x < left \/ left + 3 <= x => m2[x] = m1[x]
    BY DEF Outside, left
  <2>2. m1[x] = IF h <= x /\ x < left THEN m[item + (x - h)] ELSE m[x]
    BY <1>2 DEF Moved
  <2>3. x \in Nat
    BY <1>4
  <2>4. x < h \/ stop <= x => (x < left \/ left + 3 <= x) /\ ~ (h <= x /\ x < left)
    BY <1>1, <1>2, <2>3
  <2>5. QED
    BY <2>1, <2>2, <2>4
<1>6. Outside(m, h, stop, m2)
  BY <1>3, <1>5 DEF Outside
<1>7. IsEnd(m2, e)
  <2>1. e \in Cells /\ e + 1 \in Cells /\ stop <= e /\ stop <= e + 1
    BY <1>1 DEF Cells
  <2>2. m2[e] = m[e] /\ m2[e + 1] = m[e + 1]
    BY <1>5, <2>1
  <2>3. IsEnd(m, e)
    BY <1>1, Chained
  <2>4. QED
    BY <2>2, <2>3 DEF IsEnd, FullLength
<1>8. ASSUME NEW a \in A, a < h \/ stop <= a PROVE SameAs(m, a, m2, a)
  <2>1. a + FullLength(m, a) <= h \/ stop <= a
    BY <1>1, <1>8, Chained DEF Gap
  <2>2. QED
    BY <1>1, <1>6, <2>1, Untouched
<1>9. ASSUME NEW a \in A, item <= a, a < stop PROVE SameAs(m, a, m2, a - (item - h))
  <2> DEFINE b == a - (item - h)
             n == FullLength(m, a)
  <2>1. /\ a \in Nat /\ n \in Nat /\ 4 <= n
          /\ (KeyLength(m, a) = 0 \/ 3 + KeyLength(m, a) < n)
    BY <1>1, Items, Chained
  <2>2. a + n <= stop
    BY <1>1, <1>9, Chained DEF Gap
  <2>3. b \in Nat /\ a + n <= MemorySize
    BY <1>1, <1>9, <2>1, <2>2
  <2>4. \A i \in 0 .. n - 1 : m2[b + i] = m[a + i]
    <3>1. SUFFICES ASSUME NEW i \in 0 .. n - 1 PROVE m2[b + i] = m[a + i]
      OBVIOUS
    <3> HIDE DEF n
    <3>2. /\ b + i \in Nat /\ h <= b + i /\ b + i < left /\ b + i < MemorySize
          /\ item + ((b + i) - h) = a + i
      BY <1>1, <1>2, <1>9, <2>1, <2>2
    <3>3. b + i \in Cells
      BY <3>2, CellFacts
    <3>4. m2[b + i] = m[item + ((b + i) - h)]
      BY <1>5, <3>2, <3>3
    <3>5. QED
      BY <3>2, <3>4
  <2>5. Copied(m, a, m2, b)
    BY <2>1, <2>3, <2>4 DEF Copied
  <2> HIDE DEF b
  <2>6. SameAs(m, a, m2, b)
    BY <1>1, <1>3, <2>1, <2>3, <2>5, SameItem
  <2>7. QED
    BY <2>6 DEF b
<1>10. QED
  BY <1>3, <1>7, <1>8, <1>9 DEF Filled

=============================================================================
