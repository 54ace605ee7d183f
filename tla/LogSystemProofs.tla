--------------------------- MODULE LogSystemProofs ---------------------------
(***************************************************************************)
(* The logging server neither leaks nor shares an op, keeps its timers to  *)
(* the blocks that were started, and sends a started block with its own    *)
(* variables, whatever the number of blocks and ops and the length of the  *)
(* timer queue, until the timer task is overtaken in one of the two ways   *)
(* that `late' records.                                                    *)
(*                                                                         *)
(* The task that works on a block is alone: the LOG task by the lock, and  *)
(* the worker in its reset because the LOG task does not take the lock     *)
(* meanwhile.  So only the block that one task is working on can be half   *)
(* done.                                                                   *)
(***************************************************************************)
EXTENDS LogSystem, SequenceTheorems, FunctionTheorems,
        WellFoundedInduction, TLAPS

Tasks == {"log", "worker"}
Ops == 1 .. LOG_MAX_OPS
OpLists == [Ops -> [used : BOOLEAN, next : 0 .. LOG_MAX_OPS]]
Firsts == [Slots -> 0 .. LOG_MAX_OPS]
Blocks == [Slots -> [id : Ids \union {Free}, timer : BOOLEAN, ops : 0 .. LOG_MAX_OPS]]
TimerCommands == [command : {"start", "stop", "delete"}, slot : Slots]

Shape(r) ==
  /\ r = [pc |-> r.pc, command |-> r.command, slot |-> r.slot, op |-> r.op, at |-> r.at,
          fresh |-> r.fresh]
  /\ r.slot \in 0 .. LOG_MAX_BLOCKS /\ r.op \in 0 .. LOG_MAX_OPS
  /\ r.at \in 0 .. LOG_MAX_BLOCKS + 1 /\ r.fresh \in BOOLEAN

TasksTyped == task = [t \in Tasks |-> task[t]] /\ \A t \in Tasks : Shape(task[t])

LogTyped ==
  /\ blocks \in Blocks /\ ops \in OpLists
  /\ workQueue \in Seq(Slots) /\ timerQueue \in Seq(TimerCommands)
  /\ active \subseteq Slots /\ started \subseteq Slots
  /\ TasksTyped

\* Where a task works on a block, and where it deletes or resets
OnBlock == {"create", "clear", "append", "fill", "link", "period", "start", "halt", "again",
            "free", "stop", "delete", "remove"}
Resetting == {"reset", "halt", "again", "free", "stop", "delete", "remove", "forget"}
Ending == Resetting \union {"reply", "idle"}

\* One task works on the blocks at a time
Turns ==
  /\ logLock = IF task["log"].pc \in {"idle", "take"} THEN "free" ELSE "log"
  /\ task["worker"].pc \in {"idle", "run"} \union Resetting
  /\ task["worker"].pc \in Resetting => task["log"].pc \in {"idle", "take"}
  /\ task["log"].pc = "begin" => task["log"].command \in Commands

Place(t) ==
  /\ task[t].pc \in {"run", "schedule"} => task[t].slot \in Slots
  /\ task[t].pc \in OnBlock => task[t].slot \in Live
  /\ task[t].at # 0 => task[t].pc \in Resetting /\ \A s \in Live : task[t].at <= s
  /\ \/ task[t].pc \in {"reset", "again", "forget"}
     \/ t = "worker" /\ task[t].pc \in Resetting
     => task[t].at # 0
  /\ task[t].at # 0 /\ task[t].pc \notin {"reset", "forget"} => task[t].at = task[t].slot
  /\ task[t].pc = "forget" => task[t].at = LOG_MAX_BLOCKS + 1

Places == \A t \in Tasks : Place(t)

UniqueIds == \A s, r \in Live : blocks[s].id = blocks[r].id => s = r

\* A timer that runs or is about to
Bound(queue, running, s) ==
  \E i \in 0 .. Len(queue) :
    /\ IF i = 0 THEN s \in running ELSE queue[i] = [command |-> "start", slot |-> s]
    /\ \A j \in i + 1 .. Len(queue) : queue[j].slot # s

Timed ==
  \A s \in Live : blocks[s].timer \/ \E t \in Tasks : task[t].pc \in {"create", "remove"} /\ task[t].slot = s

StartedOnly == \A s \in Slots : Bound(timerQueue, active, s) => s \in Live \cap started /\ blocks[s].timer

TimersKept ==
  /\ ~asserted /\ Timed /\ StartedOnly
  /\ \A t \in Tasks : task[t].pc = "remove" => ~blocks[task[t].slot].timer
  /\ task["log"].pc \in {"period", "start"} => task["log"].slot \in started
  /\ task["log"].pc \in {"create", "clear"} => task["log"].slot \notin started

\* A list of ops that ends
Chain(list, first, c) ==
  /\ c \in Seq(Ops)
  /\ c = <<>> => first = Null
  /\ c # <<>> => c[1] = first /\ list[c[Len(c)]].next = Null
  /\ \A i \in 1 .. Len(c) - 1 : list[c[i]].next = c[i + 1]

\* The lists of the slots, and the spare ops, are the ops in use
ListsOf(list, first, slots, spare) ==
  /\ \A s \in slots : /\ Chain(list, first[s], Walk(list, first[s]))
                      /\ Len(Walk(list, first[s])) <= LOG_MAX_LEN
  /\ \A s, r \in slots :
       s # r => ToSet(Walk(list, first[s])) \cap ToSet(Walk(list, first[r])) = {}
  /\ \A o \in Ops :
       list[o].used <=> o \in spare \/ \E s \in slots : o \in ToSet(Walk(list, first[s]))
  /\ \A o \in spare : \A s \in slots : o \notin ToSet(Walk(list, first[s]))

First == [s \in Slots |-> blocks[s].ops]
Off(t) == IF task[t].pc \in {"create", "clear", "stop", "delete", "remove"}
          THEN {task[t].slot} ELSE {}
Listed == Live \ (Off("log") \union Off("worker"))
Linking == IF task["log"].pc = "link" THEN {task["log"].op} ELSE {}

OpsKept ==
  /\ ListsOf(ops, First, Listed, Linking)
  /\ task["log"].pc \in {"fill", "link"} =>
       task["log"].op \in Ops /\ BlockCalcLength(task["log"].slot) + 1 <= LOG_MAX_LEN
  /\ task["log"].pc = "fill" => ~ops[task["log"].op].used

\* The block that the worker took is as it was, or the LOG task is deleting it
FreshRun ==
  task["worker"].pc = "run" /\ task["worker"].fresh =>
    \/ /\ task["worker"].op = blocks[task["worker"].slot].ops /\ task["worker"].op # Null
       /\ task["worker"].slot \in Live \cap started
    \/ blocks[task["worker"].slot].id = Free /\ task["log"].pc \in Ending

LogInv ==
  /\ LogTyped /\ Turns /\ Places /\ UniqueIds /\ TimersKept
  /\ OpsKept /\ FreshRun

-----------------------------------------------------------------------------
(* Induction over the numbers *)

Less == {p \in Nat \X Nat : p[1] < p[2]}

\* A set of numbers has a least one.
LEMMA Least ==
  ASSUME NEW T, T \subseteq Nat, T # {}
  PROVE  \E x \in T : \A y \in T : x <= y
<1>1. OpToRel(<, Nat) = Less
  BY Zenon DEF OpToRel, Less
<1>2. IsWellFoundedOn(Less, Nat)
  BY <1>1, NatLessThanWellFounded, Zenon
<1>3. PICK x \in T : \A y \in T : ~ (<<y, x>> \in Less)
  BY <1>2, WFMin
<1>4. ASSUME NEW y \in T PROVE x <= y
  <2>1. ~ (<<y, x>> \in Less) /\ x \in Nat /\ y \in Nat
    BY <1>3
  <2>2. QED
    BY <2>1 DEF Less
<1>5. QED
  BY <1>4

\* A set of numbers with zero and every successor of its members has them all.
LEMMA Counting ==
  ASSUME NEW T, 0 \in T, \A n \in Nat : n \in T => n + 1 \in T
  PROVE  Nat \subseteq T
<1> DEFINE missing == Nat \ T
<1>1. SUFFICES ASSUME missing # {} PROVE FALSE
  OBVIOUS
<1>2. PICK m \in missing : \A n \in missing : m <= n
  BY <1>1, Least
<1>3. m - 1 \in Nat /\ m - 1 \in T
  BY <1>2
<1>4. QED
  BY <1>2, <1>3

\* Min() finds the least of a set of numbers.
LEMMA MinOf ==
  ASSUME NEW T, T \subseteq Nat, T # {}
  PROVE  Min(T) \in T /\ \A y \in T : Min(T) <= y
<1>1. \E x \in T : \A y \in T : x <= y
  BY Least
<1>2. QED
  BY <1>1 DEF Min

-----------------------------------------------------------------------------
(* Walk *)

WalkStep(list, walk, n) ==
  [o \in 0 .. LOG_MAX_OPS |->
     IF n = 0 \/ o = Null THEN <<>> ELSE <<o>> \o walk[n - 1][list[o].next]]

\* There is a function that takes each step from the one before.
LEMMA WalkExists ==
  ASSUME NEW list
  PROVE  \A m \in Nat : \E walk : walk = [n \in 0 .. m |-> WalkStep(list, walk, n)]
<1> DEFINE T == {m \in Nat : \E walk : walk = [n \in 0 .. m |-> WalkStep(list, walk, n)]}
<1>1. 0 \in T
  <2> DEFINE f == [n \in 0 .. 0 |-> [o \in 0 .. LOG_MAX_OPS |-> <<>>]]
  <2>1. f = [n \in 0 .. 0 |-> WalkStep(list, f, n)]
    BY DEF WalkStep
  <2>2. QED
    BY <2>1
<1>2. ASSUME NEW m \in Nat, m \in T PROVE m + 1 \in T
  <2>1. PICK f : f = [n \in 0 .. m |-> WalkStep(list, f, n)]
    BY <1>2
  <2> DEFINE g == [n \in 0 .. m + 1 |-> IF n <= m THEN f[n] ELSE WalkStep(list, f, n)]
  <2>2. ASSUME NEW n \in 0 .. m + 1 PROVE g[n] = WalkStep(list, g, n)
    <3>1. g[n] = WalkStep(list, f, n)
      BY <2>1
    <3>2. n # 0 => g[n - 1] = f[n - 1]
      OBVIOUS
    <3>3. WalkStep(list, g, n) = WalkStep(list, f, n)
      <4> HIDE DEF g
      <4> QED BY <3>2 DEF WalkStep
    <3>4. QED
      BY <3>1, <3>3
  <2>3. g = [n \in 0 .. m + 1 |-> WalkStep(list, g, n)]
    <3>1. g = [n \in 0 .. m + 1 |-> g[n]]
      OBVIOUS
    <3> HIDE DEF g
    <3>2. QED
      BY <2>2, <3>1
  <2>4. \E walk : walk = [n \in 0 .. m + 1 |-> WalkStep(list, walk, n)]
    <3> HIDE DEF g
    <3>1. QED
      BY <2>3, Zenon
  <2>5. QED
    BY <2>4
<1>3. QED
  BY <1>1, <1>2, Counting

\* ... and Walk() is it.
LEMMA WalkSteps ==
  ASSUME NEW list
  PROVE  \E walk : /\ \A n \in 0 .. LOG_MAX_OPS : walk[n] = WalkStep(list, walk, n)
                   /\ \A first : Walk(list, first) = walk[LOG_MAX_OPS][first]
<1> DEFINE walk == CHOOSE walk : walk = [n \in 0 .. LOG_MAX_OPS |-> WalkStep(list, walk, n)]
<1>1. walk = [n \in 0 .. LOG_MAX_OPS |-> WalkStep(list, walk, n)]
  <2>1. LOG_MAX_OPS \in Nat
    BY LogAssumption
  <2>2. \E f : f = [n \in 0 .. LOG_MAX_OPS |-> WalkStep(list, f, n)]
    BY <2>1, WalkExists
  <2>3. QED
    BY <2>2, Zenon
<1>2. \A first : Walk(list, first) = walk[LOG_MAX_OPS][first]
  BY Zenon DEF Walk, WalkStep
<1> HIDE DEF walk
<1>3. \A n \in 0 .. LOG_MAX_OPS : walk[n] = WalkStep(list, walk, n)
  <2> DEFINE F(f) == [n \in 0 .. LOG_MAX_OPS |-> WalkStep(list, f, n)]
  <2>1. \A n \in 0 .. LOG_MAX_OPS : F(walk)[n] = WalkStep(list, walk, n)
    BY Zenon
  <2>2. QED
    BY <1>1, <2>1, Zenon
<1>4. QED
  BY <1>2, <1>3

\* The list without its first op is the list from the next one.
LEMMA ChainTail ==
  ASSUME NEW list \in OpLists, NEW first, NEW c, Chain(list, first, c), c # <<>>
  PROVE  /\ first \in Ops /\ list[first].next \in 0 .. LOG_MAX_OPS
         /\ Chain(list, list[first].next, Tail(c))
         /\ Len(Tail(c)) = Len(c) - 1
         /\ <<first>> \o Tail(c) = c
<1>1. c \in Seq(Ops) /\ Len(c) \in Nat \ {0} /\ c[1] = first
  BY EmptySeq DEF Chain
<1>2. first \in Ops /\ list[first].next \in 0 .. LOG_MAX_OPS
  BY <1>1, ElementOfSeq DEF OpLists
<1>3. /\ Tail(c) \in Seq(Ops) /\ Len(Tail(c)) = Len(c) - 1
      /\ \A i \in 1 .. Len(Tail(c)) : Tail(c)[i] = c[i + 1]
  BY <1>1, HeadTailProperties
<1>4. Chain(list, list[first].next, Tail(c))
  <2>1. CASE Tail(c) = <<>>
    <3>1. Len(Tail(c)) = 0
      BY <2>1, EmptySeq
    <3>2. Len(c) = 1
      <4>1. Len(c) - 1 = 0 /\ Len(c) \in Nat
        BY <1>1, <1>3, <3>1, Zenon
      <4>2. QED
        BY <4>1
    <3>3. list[first].next = Null
      BY <1>1, <3>2 DEF Chain
    <3>4. \A i \in 1 .. Len(Tail(c)) - 1 : FALSE
      BY <3>1
    <3>5. QED
      BY <1>3, <2>1, <3>3, <3>4 DEF Chain
  <2>2. CASE Tail(c) # <<>>
    <3>1. Len(Tail(c)) \in Nat \ {0}
      BY <1>3, <2>2, EmptySeq
    <3>2. Tail(c)[1] = c[2] /\ Tail(c)[Len(Tail(c))] = c[Len(c)]
      BY <1>1, <1>3, <3>1
    <3>3. list[c[1]].next = c[2]
      BY <1>1, <1>3, <3>1 DEF Chain
    <3>4. list[c[Len(c)]].next = Null
      BY <1>1 DEF Chain
    <3>5. ASSUME NEW i \in 1 .. Len(Tail(c)) - 1 PROVE list[Tail(c)[i]].next = Tail(c)[i + 1]
      <4>1. i + 1 \in 1 .. Len(c) - 1 /\ i \in 1 .. Len(Tail(c)) /\ i + 1 \in 1 .. Len(Tail(c))
        BY <1>1, <1>3, <3>1
      <4>2. list[c[i + 1]].next = c[(i + 1) + 1]
        BY <4>1 DEF Chain
      <4>3. QED
        BY <1>3, <4>1, <4>2
    <3>6. QED
      BY <1>1, <1>3, <2>2, <3>2, <3>3, <3>4, <3>5 DEF Chain
  <2>3. QED
    BY <2>1, <2>2
<1>5. <<first>> \o Tail(c) = c
  <2>1. <<first>> \in Seq(Ops) /\ Len(<<first>>) = 1 /\ <<first>>[1] = first
    BY <1>2
  <2>2. /\ <<first>> \o Tail(c) \in Seq(Ops) /\ Len(<<first>> \o Tail(c)) = Len(c)
        /\ \A i \in 1 .. Len(c) : (<<first>> \o Tail(c))[i] = IF i <= 1 THEN <<first>>[i] ELSE Tail(c)[i - 1]
    BY <1>1, <1>3, <2>1, ConcatProperties
  <2>3. \A i \in 1 .. Len(c) : (<<first>> \o Tail(c))[i] = c[i]
    BY <1>1, <1>3, <2>1, <2>2
  <2>4. QED
    BY <1>1, <2>2, <2>3, SeqEqual
<1>6. QED
  BY <1>2, <1>3, <1>4, <1>5

\* The walk along a list that ends is the list.
LEMMA WalkChain ==
  ASSUME NEW list \in OpLists, NEW first \in 0 .. LOG_MAX_OPS, NEW c,
         Chain(list, first, c), Len(c) <= LOG_MAX_OPS
  PROVE  Walk(list, first) = c
<1>0. LOG_MAX_OPS \in Nat
  BY LogAssumption
<1>1. PICK walk : /\ \A n \in 0 .. LOG_MAX_OPS : walk[n] = WalkStep(list, walk, n)
                  /\ \A o : Walk(list, o) = walk[LOG_MAX_OPS][o]
  BY WalkSteps
<1> DEFINE Walked(n) == \A o \in 0 .. LOG_MAX_OPS : \A d \in Seq(Ops) :
                          Chain(list, o, d) /\ Len(d) <= n => walk[n][o] = d
           T == {n \in Nat : n <= LOG_MAX_OPS => Walked(n)}
<1>2. 0 \in T
  <2>1. ASSUME NEW o \in 0 .. LOG_MAX_OPS, NEW d \in Seq(Ops), Len(d) <= 0 PROVE walk[0][o] = d
    <3>1. d = <<>>
      BY <2>1, EmptySeq
    <3>2. walk[0] = WalkStep(list, walk, 0)
      BY <1>0, <1>1
    <3>3. QED
      BY <3>1, <3>2 DEF WalkStep
  <2>2. QED
    BY <2>1
<1>3. ASSUME NEW n \in Nat, n \in T PROVE n + 1 \in T
  <2>1. ASSUME n + 1 <= LOG_MAX_OPS, NEW o \in 0 .. LOG_MAX_OPS, NEW d \in Seq(Ops),
               Chain(list, o, d), Len(d) <= n + 1
        PROVE  walk[n + 1][o] = d
    <3>1. walk[n + 1] = WalkStep(list, walk, n + 1)
      BY <1>0, <1>1, <2>1
    <3>2. CASE d = <<>>
      <4>1. o = Null
        BY <2>1, <3>2 DEF Chain
      <4>2. QED
        BY <3>1, <3>2, <4>1 DEF WalkStep
    <3>3. CASE d # <<>>
      <4>1. /\ o \in Ops /\ list[o].next \in 0 .. LOG_MAX_OPS
            /\ Chain(list, list[o].next, Tail(d)) /\ Len(Tail(d)) = Len(d) - 1
            /\ <<o>> \o Tail(d) = d
        BY <2>1, <3>3, ChainTail
      <4>2. Tail(d) \in Seq(Ops) /\ Len(Tail(d)) <= n /\ n <= LOG_MAX_OPS
        BY <1>0, <2>1, <4>1, LenProperties DEF Chain
      <4>3. Walked(n)
        BY <1>3, <4>2
      <4>4. walk[n][list[o].next] = Tail(d)
        BY <4>1, <4>2, <4>3
      <4>5. walk[n + 1][o] = <<o>> \o walk[(n + 1) - 1][list[o].next]
        <5>1. WalkStep(list, walk, n + 1)[o]
                = IF n + 1 = 0 \/ o = Null THEN <<>> ELSE <<o>> \o walk[(n + 1) - 1][list[o].next]
          BY <2>1 DEF WalkStep
        <5>2. n + 1 # 0 /\ o # Null
          BY <1>3, <4>1 DEF Ops, Null
        <5>3. QED
          BY <3>1, <5>1, <5>2
      <4>6. (n + 1) - 1 = n
        OBVIOUS
      <4>7. QED
        BY <4>1, <4>4, <4>5, <4>6
    <3>4. QED
      BY <3>2, <3>3
  <2>2. QED
    BY <2>1
<1>4. Walked(LOG_MAX_OPS)
  <2>1. LOG_MAX_OPS \in T
    <3> HIDE DEF T
    <3>1. QED
      BY <1>0, <1>2, <1>3, Counting
  <2> HIDE DEF Walked
  <2>2. QED
    BY <2>1
<1>5. c \in Seq(Ops)
  BY DEF Chain
<1>6. QED
  BY <1>1, <1>4, <1>5

-----------------------------------------------------------------------------
(* The lists of the blocks *)

\* The members of a sequence.
LEMMA Members ==
  ASSUME NEW S, NEW c \in Seq(S)
  PROVE  ToSet(c) = {c[i] : i \in 1 .. Len(c)} /\ ToSet(c) \subseteq S
  BY LenProperties, ElementOfSeq DEF ToSet

\* A list keeps to its links.
LEMMA ChainSame ==
  ASSUME NEW list, NEW other, NEW first, NEW c, Chain(list, first, c),
         \A o \in ToSet(c) : other[o].next = list[o].next
  PROVE  Chain(other, first, c)
<1>1. c \in Seq(Ops) /\ Len(c) \in Nat /\ (c # <<>> => Len(c) # 0)
  BY EmptySeq, LenProperties DEF Chain
<1>2. \A i \in 1 .. Len(c) : other[c[i]].next = list[c[i]].next
  BY <1>1, Members
<1>3. c # <<>> => other[c[Len(c)]].next = Null
  BY <1>1, <1>2 DEF Chain
<1>4. ASSUME NEW i \in 1 .. Len(c) - 1 PROVE other[c[i]].next = c[i + 1]
  <2>1. i \in 1 .. Len(c)
    BY <1>1
  <2>2. QED
    BY <1>2, <2>1 DEF Chain
<1>5. QED
  BY <1>3, <1>4 DEF Chain

\* Lists with these walks are as they should be.
LEMMA ListsFrom ==
  ASSUME NEW list \in OpLists, NEW first \in Firsts, NEW slots \in SUBSET Slots, NEW spare,
         NEW walks,
         \A s \in slots : Chain(list, first[s], walks[s]) /\ Len(walks[s]) <= LOG_MAX_LEN,
         \A s, r \in slots : s # r => ToSet(walks[s]) \cap ToSet(walks[r]) = {},
         \A o \in Ops : list[o].used <=> o \in spare \/ \E s \in slots : o \in ToSet(walks[s]),
         \A o \in spare : \A s \in slots : o \notin ToSet(walks[s])
  PROVE  ListsOf(list, first, slots, spare)
<1>1. ASSUME NEW s \in slots PROVE Walk(list, first[s]) = walks[s]
  <2>1. first[s] \in 0 .. LOG_MAX_OPS
    BY DEF Firsts
  <2>2. Len(walks[s]) \in Nat
    BY LenProperties DEF Chain
  <2>3. Len(walks[s]) <= LOG_MAX_OPS
    BY <2>2, LogAssumption
  <2>4. QED
    BY <2>1, <2>3, WalkChain
<1>2. QED
  BY <1>1, Zenon DEF ListsOf

\* Lists stay while their links do.
LEMMA ListsStay ==
  ASSUME NEW list \in OpLists, NEW first \in Firsts, NEW slots \in SUBSET Slots, NEW spare,
         ListsOf(list, first, slots, spare),
         NEW list2 \in OpLists, NEW first2 \in Firsts, NEW slots2 \in SUBSET slots, NEW spare2,
         \A s \in slots2 : first2[s] = first[s],
         \A o \in Ops : list2[o].next = list[o].next,
         \A o \in Ops : list2[o].used <=>
            o \in spare2 \/ \E s \in slots2 : o \in ToSet(Walk(list, first[s])),
         \A o \in spare2 : \A s \in slots2 : o \notin ToSet(Walk(list, first[s]))
  PROVE  ListsOf(list2, first2, slots2, spare2)
<1> DEFINE walks == [s \in slots2 |-> Walk(list, first[s])]
<1>1. ASSUME NEW s \in slots2
      PROVE  Chain(list2, first2[s], walks[s]) /\ Len(walks[s]) <= LOG_MAX_LEN
  <2>1. Chain(list, first[s], walks[s]) /\ Len(walks[s]) <= LOG_MAX_LEN
    BY DEF ListsOf
  <2> HIDE DEF walks
  <2>2. ToSet(walks[s]) \subseteq Ops
    BY <2>1, Members DEF Chain
  <2>3. QED
    BY <2>1, <2>2, ChainSame
<1>2. \A s, r \in slots2 : s # r => ToSet(walks[s]) \cap ToSet(walks[r]) = {}
  BY DEF ListsOf
<1>3. /\ \A o \in Ops : list2[o].used <=>
            o \in spare2 \/ \E s \in slots2 : o \in ToSet(walks[s])
      /\ \A o \in spare2 : \A s \in slots2 : o \notin ToSet(walks[s])
  BY Zenon
<1> HIDE DEF walks
<1>4. slots2 \in SUBSET Slots
  OBVIOUS
<1>5. QED
  BY <1>1, <1>2, <1>3, <1>4, ListsFrom

\* A block without ops is one more list.
LEMMA ListsOneMore ==
  ASSUME NEW list \in OpLists, NEW first \in Firsts, NEW slots \in SUBSET Slots,
         ListsOf(list, first, slots, {}), NEW slot \in Slots, slot \notin slots,
         NEW first2 \in Firsts, first2 = [first EXCEPT ![slot] = Null]
  PROVE  ListsOf(list, first2, slots \union {slot}, {})
<1> DEFINE walks == [s \in Slots |-> IF s \in slots THEN Walk(list, first[s]) ELSE <<>>]
<1>1. Chain(list, Null, <<>>) /\ Len(<<>>) <= LOG_MAX_LEN /\ ToSet(<<>>) = {}
  BY LogAssumption DEF Chain, ToSet
<1>2. walks[slot] = <<>> /\ first2[slot] = Null
      /\ \A s \in slots : walks[s] = Walk(list, first[s]) /\ first2[s] = first[s]
  BY DEF Firsts
<1> HIDE DEF walks
<1>3. \A s \in slots \union {slot} :
        Chain(list, first2[s], walks[s]) /\ Len(walks[s]) <= LOG_MAX_LEN
  BY <1>1, <1>2 DEF ListsOf
<1>4. \A s, r \in slots \union {slot} : s # r => ToSet(walks[s]) \cap ToSet(walks[r]) = {}
  <2>1. \A s, r \in slots : s # r => ToSet(walks[s]) \cap ToSet(walks[r]) = {}
    BY <1>2 DEF ListsOf
  <2>2. ToSet(walks[slot]) = {}
    BY <1>1, <1>2
  <2>3. QED
    BY <2>1, <2>2
<1>5. \A o \in Ops : list[o].used <=>
        o \in {} \/ \E s \in slots \union {slot} : o \in ToSet(walks[s])
  <2>1. \A o \in Ops : list[o].used <=> \E s \in slots : o \in ToSet(walks[s])
    BY <1>2 DEF ListsOf
  <2>2. ToSet(walks[slot]) = {}
    BY <1>1, <1>2
  <2>3. QED
    BY <2>1, <2>2
<1>6. slots \union {slot} \in SUBSET Slots
  OBVIOUS
<1>7. QED
  BY <1>3, <1>4, <1>5, <1>6, ListsFrom

\* The list with one op more at its end.
LEMMA ChainAppend ==
  ASSUME NEW list \in OpLists, NEW first, NEW c, Chain(list, first, c),
         NEW op \in Ops, op \notin ToSet(c), NEW list2, NEW first2,
         list2[op].next = Null,
         c = <<>> => first2 = op,
         c # <<>> => /\ first2 = first /\ list2[Last(c)].next = op
                     /\ \A o \in ToSet(c) \ {Last(c)} : list2[o].next = list[o].next
  PROVE  /\ Chain(list2, first2, Append(c, op))
         /\ Len(Append(c, op)) = Len(c) + 1
         /\ ToSet(Append(c, op)) = ToSet(c) \union {op}
<1> DEFINE d == Append(c, op)
<1>1. c \in Seq(Ops) /\ Len(c) \in Nat /\ (c # <<>> => Len(c) # 0)
  BY EmptySeq, LenProperties DEF Chain
<1>2. /\ d \in Seq(Ops) /\ d # <<>> /\ Len(d) = Len(c) + 1
      /\ \A i \in 1 .. Len(c) : d[i] = c[i]
      /\ d[Len(c) + 1] = op
  BY <1>1, AppendProperties
<1> HIDE DEF d
<1>3. ToSet(d) = ToSet(c) \union {op}
  <2>1. ToSet(d) = {d[i] : i \in 1 .. Len(c) + 1} /\ ToSet(c) = {c[i] : i \in 1 .. Len(c)}
    BY <1>1, <1>2, Members
  <2>2. 1 .. Len(c) + 1 = (1 .. Len(c)) \union {Len(c) + 1}
    BY <1>1
  <2>3. QED
    BY <1>2, <2>1, <2>2
<1>4. d[1] = first2
  <2>1. CASE c = <<>>
    BY <1>1, <1>2, <2>1, EmptySeq
  <2>2. CASE c # <<>>
    BY <1>1, <1>2, <2>2 DEF Chain
  <2>3. QED
    BY <2>1, <2>2
<1>5. list2[d[Len(d)]].next = Null
  BY <1>2
<1>6. ASSUME NEW i \in 1 .. Len(d) - 1 PROVE list2[d[i]].next = d[i + 1]
  <2>1. i \in 1 .. Len(c) /\ c # <<>> /\ d[i] = c[i]
    BY <1>1, <1>2, EmptySeq
  <2>2. CASE i = Len(c)
    BY <1>1, <1>2, <2>1, <2>2 DEF Last
  <2>3. CASE i # Len(c)
    <3>1. i \in 1 .. Len(c) - 1 /\ i + 1 \in 1 .. Len(c)
      BY <1>1, <2>1, <2>3
    <3>2. list[c[i]].next = c[i + 1] /\ c[i + 1] \in Ops
      BY <1>1, <3>1, ElementOfSeq DEF Chain
    <3>3. list[Last(c)].next = Null
      BY <2>1 DEF Chain, Last
    <3>4. c[i] \in ToSet(c) \ {Last(c)}
      BY <1>1, <2>1, <3>2, <3>3, Members DEF Ops, Null
    <3>5. QED
      BY <1>2, <2>1, <3>1, <3>2, <3>4
  <2>4. QED
    BY <2>2, <2>3
<1>7. Chain(list2, first2, d)
  BY <1>2, <1>4, <1>5, <1>6 DEF Chain
<1>8. QED
  BY <1>2, <1>3, <1>7 DEF d

\* A list begins with no op only when it is empty, and its last op is one of its own.
LEMMA ChainEnds ==
  ASSUME NEW list, NEW first, NEW c, Chain(list, first, c)
  PROVE  /\ ToSet(c) \subseteq Ops
         /\ first = Null <=> c = <<>>
         /\ c # <<>> => Last(c) \in ToSet(c) /\ first \in ToSet(c)
<1>1. c \in Seq(Ops) /\ Len(c) \in Nat /\ (c # <<>> => Len(c) # 0)
  BY EmptySeq, LenProperties DEF Chain
<1>2. ToSet(c) \subseteq Ops
  BY <1>1, Members
<1>3. c # <<>> => Last(c) \in ToSet(c) /\ first \in ToSet(c)
  <2>1. c # <<>> => Len(c) \in 1 .. Len(c) /\ 1 \in 1 .. Len(c)
    BY <1>1
  <2>2. QED
    BY <1>1, <2>1, Members DEF Last, Chain
<1>4. QED
  BY <1>2, <1>3 DEF Chain, Ops, Null

\* blockAppendOps() puts the spare op at the end of one list.
LEMMA ListsAppend ==
  ASSUME NEW list \in OpLists, NEW first \in Firsts, NEW slots \in SUBSET Slots,
         NEW op \in Ops, ListsOf(list, first, slots, {op}),
         NEW slot \in slots, Len(Walk(list, first[slot])) + 1 <= LOG_MAX_LEN,
         NEW list2 \in OpLists, NEW first2 \in Firsts,
         \/ /\ first[slot] = Null
            /\ first2 = [first EXCEPT ![slot] = op] /\ list2 = [list EXCEPT ![op].next = Null]
         \/ /\ first[slot] # Null /\ first2 = first
            /\ list2 = [list EXCEPT ![op].next = Null,
                                    ![Last(Walk(list, first[slot]))].next = op]
  PROVE  ListsOf(list2, first2, slots, {})
<1> DEFINE c == Walk(list, first[slot])
<1>1. /\ Chain(list, first[slot], c) /\ Len(c) + 1 <= LOG_MAX_LEN
      /\ op \notin ToSet(c)
  BY DEF ListsOf
<1>2. \A s \in slots \ {slot} : /\ Chain(list, first[s], Walk(list, first[s]))
                               /\ op \notin ToSet(Walk(list, first[s]))
                               /\ ToSet(c) \cap ToSet(Walk(list, first[s])) = {}
  BY DEF ListsOf
<1> HIDE DEF c
<1>3. /\ ToSet(c) \subseteq Ops /\ (first[slot] = Null <=> c = <<>>)
      /\ c # <<>> => Last(c) \in ToSet(c)
  BY <1>1, ChainEnds
<1>4. ASSUME NEW o \in Ops PROVE list2[o].used = list[o].used
  <2>1. \/ list2 = [list EXCEPT ![op].next = Null]
        \/ list2 = [list EXCEPT ![op].next = Null, ![Last(c)].next = op] /\ Last(c) \in Ops
    <3>1. first[slot] # Null => Last(c) \in Ops
      BY <1>3
    <3>2. QED
      BY <3>1, Zenon DEF c
  <2>2. [list EXCEPT ![op].next = Null][o].used = list[o].used
    BY DEF OpLists
  <2>3. Last(c) \in Ops =>
          [list EXCEPT ![op].next = Null, ![Last(c)].next = op][o].used = list[o].used
    BY DEF OpLists
  <2>4. QED
    BY <2>1, <2>2, <2>3, Zenon
<1>5. list2[op].next = Null
  BY <1>1, <1>3 DEF OpLists, c
<1>6. \A s \in slots \ {slot} : first2[s] = first[s]
  BY DEF Firsts
<1>7. \A o \in Ops : o # op /\ ~ (c # <<>> /\ o = Last(c)) => list2[o].next = list[o].next
  BY <1>3 DEF OpLists, c
<1>8. c = <<>> => first2[slot] = op
  BY <1>3 DEF Firsts
<1>9. ASSUME c # <<>> PROVE first2[slot] = first[slot] /\ list2[Last(c)].next = op
  <2>1. first2 = first /\ list2 = [list EXCEPT ![op].next = Null, ![Last(c)].next = op]
    BY <1>3, <1>9 DEF c
  <2>2. Last(c) \in Ops
    BY <1>3, <1>9
  <2>3. QED
    BY <2>1, <2>2 DEF OpLists
<1>10. /\ Chain(list2, first2[slot], Append(c, op)) /\ Len(Append(c, op)) = Len(c) + 1
       /\ ToSet(Append(c, op)) = ToSet(c) \union {op}
  <2>1. \A o \in ToSet(c) \ {Last(c)} : list2[o].next = list[o].next
    BY <1>1, <1>3, <1>7
  <2>2. QED
    BY <1>1, <1>5, <1>8, <1>9, <2>1, ChainAppend
<1>11. ASSUME NEW s \in slots \ {slot} PROVE Chain(list2, first2[s], Walk(list, first[s]))
  <2>1. ToSet(Walk(list, first[s])) \subseteq Ops
    BY <1>2, ChainEnds
  <2>2. \A o \in ToSet(Walk(list, first[s])) : list2[o].next = list[o].next
    BY <1>2, <1>3, <1>7, <2>1
  <2>3. QED
    BY <1>2, <1>6, <2>2, ChainSame
<1> DEFINE walks == [s \in slots |-> IF s = slot THEN Append(c, op) ELSE Walk(list, first[s])]
<1>12. /\ walks[slot] = Append(c, op)
       /\ \A s \in slots \ {slot} : walks[s] = Walk(list, first[s])
  OBVIOUS
<1> HIDE DEF walks
<1>13. ASSUME NEW s \in slots
       PROVE  Chain(list2, first2[s], walks[s]) /\ Len(walks[s]) <= LOG_MAX_LEN
  <2>1. CASE s = slot
    BY <1>1, <1>10, <1>12, <2>1
  <2>2. CASE s # slot
    BY <1>11, <1>12, <2>2 DEF ListsOf
  <2>3. QED
    BY <2>1, <2>2
<1>14. \A s, r \in slots : s # r => ToSet(walks[s]) \cap ToSet(walks[r]) = {}
  <2>1. \A s, r \in slots \ {slot} : s # r => ToSet(walks[s]) \cap ToSet(walks[r]) = {}
    BY <1>12 DEF ListsOf
  <2>2. \A s \in slots \ {slot} : ToSet(walks[slot]) \cap ToSet(walks[s]) = {}
    BY <1>2, <1>10, <1>12
  <2>3. QED
    BY <2>1, <2>2
<1>15. \A o \in Ops : list2[o].used <=> o \in {} \/ \E s \in slots : o \in ToSet(walks[s])
  <2>1. \A o \in Ops : list[o].used <=>
          o = op \/ o \in ToSet(c) \/ \E s \in slots \ {slot} : o \in ToSet(Walk(list, first[s]))
    BY DEF ListsOf, c
  <2>2. \A o : (\E s \in slots : o \in ToSet(walks[s])) <=>
          o = op \/ o \in ToSet(c) \/ \E s \in slots \ {slot} : o \in ToSet(Walk(list, first[s]))
    BY <1>10, <1>12
  <2>3. QED
    BY <1>4, <2>1, <2>2, Zenon
<1>16. QED
  BY <1>13, <1>14, <1>15, ListsFrom

-----------------------------------------------------------------------------
(* Timers, blocks and tasks *)

\* A command binds its own slot's timer or nothing.
LEMMA BoundAppend ==
  ASSUME NEW queue \in Seq(TimerCommands), NEW running, NEW c \in TimerCommands, NEW s,
         Bound(Append(queue, c), running, s)
  PROVE  IF c.slot = s THEN c.command = "start" ELSE Bound(queue, running, s)
<1>1. /\ Len(queue) \in Nat /\ Len(Append(queue, c)) = Len(queue) + 1
      /\ \A i \in 1 .. Len(queue) : Append(queue, c)[i] = queue[i]
      /\ Append(queue, c)[Len(queue) + 1] = c
  BY AppendProperties, LenProperties
<1> DEFINE longer == Append(queue, c)
<1> HIDE DEF longer
<1>2. PICK i \in 0 .. Len(queue) + 1 :
        /\ IF i = 0 THEN s \in running ELSE longer[i] = [command |-> "start", slot |-> s]
        /\ \A j \in i + 1 .. Len(queue) + 1 : longer[j].slot # s
  BY <1>1 DEF Bound, longer
<1>3. CASE i = Len(queue) + 1
  BY <1>1, <1>2, <1>3 DEF longer
<1>4. CASE i # Len(queue) + 1
  <2>1. c.slot # s
    BY <1>1, <1>2, <1>4 DEF longer
  <2>2. Bound(queue, running, s)
    BY <1>1, <1>2, <1>4 DEF Bound, longer
  <2>3. QED
    BY <2>1, <2>2
<1>5. QED
  BY <1>3, <1>4

\* The timer task binds no timer that was not bound.
LEMMA BoundTail ==
  ASSUME NEW queue \in Seq(TimerCommands), queue # <<>>, NEW running, NEW s,
         Bound(Tail(queue), IF Head(queue).command = "start" THEN running \union {Head(queue).slot}
                            ELSE running \ {Head(queue).slot}, s)
  PROVE  Bound(queue, running, s)
<1> DEFINE rest == Tail(queue)
           then == IF Head(queue).command = "start" THEN running \union {Head(queue).slot}
                   ELSE running \ {Head(queue).slot}
<1>1. /\ Len(queue) \in Nat \ {0} /\ Len(rest) = Len(queue) - 1
      /\ \A i \in 1 .. Len(rest) : rest[i] = queue[i + 1]
      /\ Head(queue) = queue[1] /\ queue[1] \in TimerCommands
  BY HeadTailProperties, EmptySeq
<1>2. PICK i \in 0 .. Len(rest) :
        /\ IF i = 0 THEN s \in then ELSE rest[i] = [command |-> "start", slot |-> s]
        /\ \A j \in i + 1 .. Len(rest) : rest[j].slot # s
  BY DEF Bound
<1> HIDE DEF rest, then
<1>3. \A j \in i + 2 .. Len(queue) : queue[j].slot # s
  <2>1. ASSUME NEW j \in i + 2 .. Len(queue) PROVE queue[j].slot # s
    <3>1. j - 1 \in i + 1 .. Len(rest) /\ j - 1 \in 1 .. Len(rest) /\ (j - 1) + 1 = j
      BY <1>1
    <3>2. QED
      BY <1>1, <1>2, <3>1
  <2>2. QED
    BY <2>1
<1>4. CASE i # 0
  <2>1. queue[i + 1] = [command |-> "start", slot |-> s] /\ i + 1 \in 0 .. Len(queue) /\ i + 1 # 0
    BY <1>1, <1>2, <1>4
  <2>2. \A j \in (i + 1) + 1 .. Len(queue) : queue[j].slot # s
    BY <1>3
  <2>3. QED
    BY <2>1, <2>2 DEF Bound
<1>5. CASE i = 0 /\ queue[1].slot = s
  <2>1. queue[1].command = "start"
    BY <1>1, <1>2, <1>5 DEF then
  <2>2. queue[1] = [command |-> "start", slot |-> s]
    BY <1>1, <1>5, <2>1 DEF TimerCommands
  <2>3. QED
    BY <1>1, <1>3, <1>5, <2>2 DEF Bound
<1>6. CASE i = 0 /\ queue[1].slot # s
  <2>1. s \in running
    BY <1>1, <1>2, <1>6 DEF then
  <2>2. \A j \in 1 .. Len(queue) : queue[j].slot # s
    BY <1>1, <1>3, <1>6
  <2>3. QED
    BY <1>1, <2>1, <2>2 DEF Bound
<1>7. QED
  BY <1>4, <1>5, <1>6

\* A running timer without commands is bound.
LEMMA BoundRunning ==
  ASSUME NEW running, NEW s \in running
  PROVE  Bound(<<>>, running, s)
  BY DEF Bound

\* The search finds a slot that has the id, or there is none.
LEMMA IndexOfId ==
  ASSUME NEW id
  PROVE  \/ IndexOf(id) = Null /\ \A s \in Slots : blocks[s].id # id
         \/ IndexOf(id) \in Slots /\ blocks[IndexOf(id)].id = id
<1> DEFINE found == {s \in Slots : blocks[s].id = id}
<1>1. found \subseteq Nat
  BY LogAssumption DEF Slots
<1>2. CASE found = {}
  BY <1>2 DEF IndexOf
<1>3. CASE found # {}
  <2>1. Min(found) \in found
    BY <1>1, <1>3, MinOf
  <2>2. IndexOf(id) = Min(found)
    BY <1>3 DEF IndexOf
  <2>3. QED
    BY <2>1, <2>2
<1>4. QED
  BY <1>2, <1>3

Record(r, pc, slot, op, at) ==
  Shape(r) /\ r.pc = pc /\ r.slot = slot /\ r.op = op /\ r.at = at

\* What a task's step does to the tasks
Moved(t, pc, slot, op, at) ==
  /\ TasksTyped'
  /\ Record(task'[t], pc, slot, op, at)
  /\ \A u \in Tasks \ {t} : task'[u] = task[u]

\* A record with these fields.
LEMMA Fields ==
  ASSUME NEW pc, NEW command, NEW slot \in 0 .. LOG_MAX_BLOCKS, NEW op \in 0 .. LOG_MAX_OPS,
         NEW at \in 0 .. LOG_MAX_BLOCKS + 1, NEW fresh \in BOOLEAN
  PROVE  Record([pc |-> pc, command |-> command, slot |-> slot, op |-> op, at |-> at,
                 fresh |-> fresh], pc, slot, op, at)
<1> DEFINE q == [pc |-> pc, command |-> command, slot |-> slot, op |-> op, at |-> at, fresh |-> fresh]
<1>1. /\ q.pc = pc /\ q.command = command /\ q.slot = slot /\ q.op = op /\ q.at = at
      /\ q.fresh = fresh
  OBVIOUS
<1>2. q = [pc |-> q.pc, command |-> q.command, slot |-> q.slot, op |-> q.op, at |-> q.at,
           fresh |-> q.fresh]
  BY <1>1, Zenon
<1> HIDE DEF q
<1>3. Record(q, pc, slot, op, at)
  BY <1>1, <1>2 DEF Record, Shape
<1>4. QED
  BY <1>3 DEF q

\* A record with one field changed.
LEMMA FieldSet ==
  ASSUME NEW r, Shape(r), NEW pc, NEW slot \in 0 .. LOG_MAX_BLOCKS, NEW op \in 0 .. LOG_MAX_OPS,
         NEW at \in 0 .. LOG_MAX_BLOCKS + 1, NEW command
  PROVE  /\ Record([r EXCEPT !.pc = pc], pc, r.slot, r.op, r.at)
         /\ Record([r EXCEPT !.slot = slot], r.pc, slot, r.op, r.at)
         /\ Record([r EXCEPT !.op = op], r.pc, r.slot, op, r.at)
         /\ Record([r EXCEPT !.at = at], r.pc, r.slot, r.op, at)
         /\ Record([r EXCEPT !.command = command], r.pc, r.slot, r.op, r.at)
<1>1. /\ r.slot \in 0 .. LOG_MAX_BLOCKS /\ r.op \in 0 .. LOG_MAX_OPS
      /\ r.at \in 0 .. LOG_MAX_BLOCKS + 1 /\ r.fresh \in BOOLEAN
      /\ r = [pc |-> r.pc, command |-> r.command, slot |-> r.slot, op |-> r.op, at |-> r.at,
               fresh |-> r.fresh]
  BY DEF Shape
<1>2. [r EXCEPT !.pc = pc] = [pc |-> pc, command |-> r.command, slot |-> r.slot, op |-> r.op,
                              at |-> r.at, fresh |-> r.fresh]
  BY <1>1
<1>3. [r EXCEPT !.slot = slot] =
        [pc |-> r.pc, command |-> r.command, slot |-> slot, op |-> r.op, at |-> r.at,
         fresh |-> r.fresh]
  BY <1>1
<1>4. [r EXCEPT !.op = op] =
        [pc |-> r.pc, command |-> r.command, slot |-> r.slot, op |-> op, at |-> r.at,
         fresh |-> r.fresh]
  BY <1>1
<1>5. [r EXCEPT !.at = at] =
        [pc |-> r.pc, command |-> r.command, slot |-> r.slot, op |-> r.op, at |-> at,
         fresh |-> r.fresh]
  BY <1>1
<1>6. [r EXCEPT !.command = command] =
        [pc |-> r.pc, command |-> command, slot |-> r.slot, op |-> r.op, at |-> r.at,
         fresh |-> r.fresh]
  BY <1>1
<1>7. QED
  BY <1>1, <1>2, <1>3, <1>4, <1>5, <1>6, Fields

\* The records that the steps go to.
LEMMA Records ==
  ASSUME NEW r, Shape(r), NEW pc, NEW slot \in 0 .. LOG_MAX_BLOCKS, NEW op \in 0 .. LOG_MAX_OPS,
         NEW at \in 0 .. LOG_MAX_BLOCKS + 1
  PROVE  /\ Record([r EXCEPT !.pc = pc], pc, r.slot, r.op, r.at)
         /\ Record([r EXCEPT !.pc = pc, !.slot = slot], pc, slot, r.op, r.at)
         /\ Record([r EXCEPT !.pc = pc, !.op = op], pc, r.slot, op, r.at)
         /\ Record([r EXCEPT !.pc = pc, !.at = at], pc, r.slot, r.op, at)
<1> DEFINE q == [r EXCEPT !.pc = pc]
<1>1. Record(q, pc, r.slot, r.op, r.at)
  BY FieldSet
<1>2. /\ [r EXCEPT !.pc = pc, !.slot = slot] = [q EXCEPT !.slot = slot]
      /\ [r EXCEPT !.pc = pc, !.op = op] = [q EXCEPT !.op = op]
      /\ [r EXCEPT !.pc = pc, !.at = at] = [q EXCEPT !.at = at]
  BY Zenon
<1>3. [r EXCEPT !.pc = pc] = q
  OBVIOUS
<1> HIDE DEF q
<1>4. /\ Record([q EXCEPT !.slot = slot], pc, slot, r.op, r.at)
      /\ Record([q EXCEPT !.op = op], pc, r.slot, op, r.at)
      /\ Record([q EXCEPT !.at = at], pc, r.slot, r.op, at)
  <2>1. Shape(q) /\ q.pc = pc /\ q.slot = r.slot /\ q.op = r.op /\ q.at = r.at
    BY <1>1 DEF Record
  <2>2. /\ Record([q EXCEPT !.slot = slot], q.pc, slot, q.op, q.at)
        /\ Record([q EXCEPT !.op = op], q.pc, q.slot, op, q.at)
        /\ Record([q EXCEPT !.at = at], q.pc, q.slot, q.op, at)
    BY <2>1, FieldSet
  <2>3. QED
    BY <2>1, <2>2, Zenon
<1>5. QED
  BY <1>1, <1>2, <1>3, <1>4, Zenon

\* ... and of an append.
LEMMA AppendRecord ==
  ASSUME NEW r, Shape(r)
  PROVE  Record([r EXCEPT !.pc = "append", !.command.settings = Tail(@), !.op = Null],
                "append", r.slot, Null, r.at)
<1> DEFINE command == [r.command EXCEPT !.settings = Tail(r.command.settings)]
           p == [r EXCEPT !.pc = "append"]
           q == [p EXCEPT !.command = command]
           n == [q EXCEPT !.op = Null]
<1>1. [r EXCEPT !.pc = "append", !.command.settings = Tail(@), !.op = Null] = n
  <2>1. r = [pc |-> r.pc, command |-> r.command, slot |-> r.slot, op |-> r.op, at |-> r.at,
             fresh |-> r.fresh]
    BY DEF Shape
  <2>2. p.command = r.command
    BY <2>1
  <2>3. QED
    BY <2>2, Zenon
<1>2. Null \in 0 .. LOG_MAX_OPS
  BY LogAssumption DEF Null
<1>3. Record(p, "append", r.slot, r.op, r.at)
  BY FieldSet DEF Shape
<1> HIDE DEF p, command
<1>4. Record(q, "append", r.slot, r.op, r.at)
  <2>1. /\ Shape(p) /\ p.pc = "append" /\ p.slot = r.slot /\ p.op = r.op /\ p.at = r.at
    BY <1>3 DEF Record
  <2>2. Record(q, p.pc, p.slot, p.op, p.at)
    BY <2>1, FieldSet DEF Shape
  <2>3. QED
    BY <2>1, <2>2, Zenon
<1> HIDE DEF q
<1>5. Record(n, "append", r.slot, Null, r.at)
  <2>1. /\ Shape(q) /\ q.pc = "append" /\ q.slot = r.slot /\ q.at = r.at
    BY <1>4 DEF Record
  <2>2. Record(n, q.pc, q.slot, Null, q.at)
    BY <1>2, <2>1, FieldSet DEF Shape
  <2>3. QED
    BY <2>1, <2>2, Zenon
<1>6. QED
  BY <1>1, <1>5, Zenon

\* The other task stays where it is.
LEMMA GoesTo ==
  ASSUME TasksTyped, NEW t \in Tasks, NEW next, Goto(t, next), Shape(next)
  PROVE  /\ TasksTyped' /\ task'[t] = next
         /\ \A u \in Tasks \ {t} : task'[u] = task[u]
<1>1. task' = [task EXCEPT ![t] = next] /\ DOMAIN task = Tasks
  BY Zenon DEF Goto, TasksTyped
<1>2. task'[t] = next /\ (\A u \in Tasks \ {t} : task'[u] = task[u])
  BY <1>1
<1>3. task' = [u \in Tasks |-> task'[u]]
  BY <1>1
<1>4. \A u \in Tasks : Shape(task'[u])
  BY <1>2 DEF TasksTyped
<1>5. QED
  BY <1>2, <1>3, <1>4 DEF TasksTyped

\* A step to such a record.
LEMMA MovesTo ==
  ASSUME TasksTyped, NEW t \in Tasks, NEW next, Goto(t, next), NEW pc, NEW slot, NEW op, NEW at,
         Record(next, pc, slot, op, at)
  PROVE  Moved(t, pc, slot, op, at)
  BY GoesTo DEF Record, Moved

-----------------------------------------------------------------------------
(* A task that works on the blocks *)

\* A step of a task between its taking the blocks and its leaving them
Works(t, pc, slot, op, at) ==
  /\ Moved(t, pc, slot, op, at)
  /\ logLock' = logLock
  /\ t = "log" => task[t].pc \notin {"idle", "take"} /\ pc \notin {"idle", "take", "begin"}
  /\ t = "worker" => task[t].pc \in Resetting /\ pc \in {"idle"} \union Resetting

\* It is alone.
LEMMA OtherTask ==
  ASSUME LogInv, NEW t \in Tasks,
         t = "log" => task[t].pc \notin {"idle", "take"},
         t = "worker" => task[t].pc \in Resetting,
         NEW u \in Tasks, u # t
  PROVE  /\ task[u].pc \in {"idle", "take", "run"} /\ task[u].at = 0
         /\ u = "worker" => task[u].pc # "take"
         /\ u = "log" => task[u].pc # "run"
<1>1. CASE t = "log" /\ u = "worker"
  <2>1. task[u].pc \in {"idle", "run"}
    BY <1>1 DEF LogInv, Turns
  <2>2. QED
    BY <1>1, <2>1 DEF LogInv, Places, Place, Resetting
<1>2. CASE t = "worker" /\ u = "log"
  <2>1. task[u].pc \in {"idle", "take"}
    BY <1>2 DEF LogInv, Turns
  <2>2. QED
    BY <1>2, <2>1 DEF LogInv, Places, Place, Resetting
<1>3. QED
  BY <1>1, <1>2 DEF Tasks

\* What such a step leaves, and where the other task is.
LEMMA WorksFrame ==
  ASSUME LogInv, NEW t \in Tasks, NEW pc, NEW slot, NEW op, NEW at, Works(t, pc, slot, op, at)
  PROVE  /\ Turns'
         /\ Place(t)' => Places'
         /\ Listed = Live \ Off(t)
         /\ Listed' = Live' \ Off(t)'
         /\ Off(t)' = IF pc \in {"create", "clear", "stop", "delete", "remove"} THEN {slot} ELSE {}
         /\ Linking = IF t = "log" /\ task[t].pc = "link" THEN {task[t].op} ELSE {}
         /\ Linking' = IF t = "log" /\ pc = "link" THEN {op} ELSE {}
         /\ t = "worker" => FreshRun'
         /\ t = "worker" => task'["log"].pc \in {"idle", "take"} /\ task["log"].pc \in {"idle", "take"}
         /\ \A u \in Tasks \ {t} : task'[u] = task[u] /\ task[u].pc \in {"idle", "take", "run"}
         /\ \A s \in Live : blocks[s].timer \/ (task[t].pc \in {"create", "remove"} /\ task[t].slot = s)
<1>1. \A u \in Tasks \ {t} :
        /\ task'[u] = task[u]
        /\ task[u].pc \in {"idle", "take", "run"} /\ task[u].at = 0
        /\ u = "worker" => task[u].pc # "take"
        /\ u = "log" => task[u].pc # "run"
  BY OtherTask DEF Works, Moved
<1>2. /\ task'[t].pc = pc /\ task'[t].slot = slot /\ task'[t].op = op /\ task'[t].at = at
      /\ logLock' = logLock
      /\ t = "log" => task[t].pc \notin {"idle", "take"} /\ pc \notin {"idle", "take", "begin"}
      /\ t = "worker" => task[t].pc \in Resetting /\ pc \in {"idle"} \union Resetting
  BY DEF Works, Moved, Record
<1>3. Turns /\ Places
  BY DEF LogInv
<1>4. Turns'
  <2>1. CASE t = "log"
    BY <1>1, <1>2, <1>3, <2>1 DEF Turns, Tasks, Resetting
  <2>2. CASE t = "worker"
    BY <1>1, <1>2, <1>3, <2>2 DEF Turns, Tasks, Resetting
  <2>3. QED
    BY <2>1, <2>2 DEF Tasks
<1>5. Place(t)' => Places'
  <2>1. ASSUME NEW u \in Tasks \ {t} PROVE Place(u)'
    <3>1. /\ task'[u] = task[u] /\ task[u].at = 0
          /\ task[u].pc \in {"idle", "take", "run"} /\ Place(u)
      BY <1>1, <1>3 DEF Places
    <3>2. QED
      BY <3>1 DEF Place, OnBlock, Resetting
  <2>2. QED
    BY <2>1 DEF Places
<1>6. \A u \in Tasks \ {t} : Off(u) = {} /\ Off(u)' = {}
  BY <1>1 DEF Off
<1>7. Listed = Live \ Off(t) /\ Listed' = Live' \ Off(t)'
  BY <1>6 DEF Listed, Tasks
<1>8. Off(t)' = IF pc \in {"create", "clear", "stop", "delete", "remove"} THEN {slot} ELSE {}
  BY <1>2 DEF Off
<1>9. /\ Linking = IF t = "log" /\ task[t].pc = "link" THEN {task[t].op} ELSE {}
      /\ Linking' = IF t = "log" /\ pc = "link" THEN {op} ELSE {}
  BY <1>1, <1>2 DEF Linking, Tasks
<1>11. t = "worker" => FreshRun'
  BY <1>2 DEF FreshRun, Resetting
<1>12. t = "worker" => task'["log"].pc \in {"idle", "take"} /\ task["log"].pc \in {"idle", "take"}
  BY <1>1, <1>2, <1>3 DEF Turns, Tasks
<1>13. \A s \in Live : blocks[s].timer \/ (task[t].pc \in {"create", "remove"} /\ task[t].slot = s)
  <2>1. ASSUME NEW s \in Live, ~ blocks[s].timer
        PROVE  task[t].pc \in {"create", "remove"} /\ task[t].slot = s
    <3>1. PICK u \in Tasks : task[u].pc \in {"create", "remove"} /\ task[u].slot = s
      BY <2>1, Zenon DEF LogInv, TimersKept, Timed
    <3>2. u = t
      BY <1>1, <3>1
    <3>3. QED
      BY <3>1, <3>2
  <2>2. QED
    BY <2>1, Zenon
<1>14. QED
  BY <1>13, <1>1, <1>4, <1>5, <1>7, <1>8, <1>9, <1>11, <1>12

\* No two blocks come to have one id while the ids stay or are given up.
LEMMA UniqueStay ==
  ASSUME UniqueIds, \A s \in Slots : blocks'[s].id = blocks[s].id \/ blocks'[s].id = Free
  PROVE  UniqueIds' /\ Live' \subseteq Live
<1>1. \A s \in Live' : s \in Live /\ blocks'[s].id = blocks[s].id
  BY DEF Live
<1>2. QED
  BY <1>1 DEF UniqueIds

\* The block that the worker took stays, or is deleted.
LEMMA FreshStays ==
  ASSUME FreshRun, task["worker"].pc = "run" => task["worker"].slot \in Slots,
         task'["worker"] = task["worker"], started \subseteq started',
         \A s \in Slots : /\ blocks'[s].ops = blocks[s].ops
                          /\ \/ blocks'[s].id = blocks[s].id
                             \/ blocks'[s].id = Free /\ task'["log"].pc \in Ending,
         task["log"].pc \in Ending => task'["log"].pc \in Ending
  PROVE  FreshRun'
<1> SUFFICES ASSUME task["worker"].pc = "run" /\ task["worker"].fresh PROVE FreshRun'
  BY DEF FreshRun
<1> DEFINE s == task["worker"].slot
<1>1. CASE blocks[s].id = Free /\ task["log"].pc \in Ending
  BY <1>1 DEF FreshRun
<1>2. CASE /\ task["worker"].op = blocks[s].ops /\ task["worker"].op # Null
           /\ s \in Live \cap started
  <2>1. CASE blocks'[s].id = blocks[s].id
    BY <1>2, <2>1 DEF FreshRun, Live
  <2>2. CASE blocks'[s].id = Free /\ task'["log"].pc \in Ending
    BY <2>2 DEF FreshRun
  <2>3. QED
    BY <2>1, <2>2
<1>3. QED
  BY <1>1, <1>2 DEF FreshRun


\* The whole invariant after such a step.
LEMMA WorksInv ==
  ASSUME LogInv, NEW t \in Tasks, NEW pc, NEW slot, NEW op, NEW at, Works(t, pc, slot, op, at),
         LogTyped', Place(t)', UniqueIds', TimersKept', OpsKept',
         t = "log" => FreshRun'
  PROVE  LogInv'
  BY WorksFrame DEF LogInv, Tasks

\* The lists stay while nothing touches them.
LEMMA OpsStay ==
  ASSUME LogInv, blocks' \in Blocks, ops' \in OpLists, Listed' \subseteq Listed,
         \A s \in Listed' : blocks'[s].ops = blocks[s].ops,
         \A o \in Ops : ops'[o].next = ops[o].next,
         \A o \in Ops : ops'[o].used <=> o \in Linking' \/ \E s \in Listed' : o \in OpsOf(s),
         \A o \in Linking' : \A s \in Listed' : o \notin OpsOf(s)
  PROVE  ListsOf(ops, First, Listed, Linking)'
<1>1. /\ First \in Firsts /\ First' \in Firsts /\ ops \in OpLists
      /\ \A s \in Slots : First[s] = blocks[s].ops /\ First'[s] = blocks'[s].ops
  BY DEF LogInv, LogTyped, First, Firsts, Blocks
<1>2. Listed \subseteq Slots
  BY DEF Listed, Live
<1>3. ListsOf(ops, First, Listed, Linking)
  BY DEF LogInv, OpsKept
<1>4. \A s \in Listed' : First'[s] = First[s] /\ OpsOf(s) = ToSet(Walk(ops, First[s]))
  BY <1>1, <1>2, Zenon DEF OpsOf
<1>5. /\ \A o \in Ops : ops'[o].used <=>
           o \in Linking' \/ \E s \in Listed' : o \in ToSet(Walk(ops, First[s]))
      /\ \A o \in Linking' : \A s \in Listed' : o \notin ToSet(Walk(ops, First[s]))
  BY <1>4, Zenon
<1>6. ListsOf(ops', First', Listed', Linking')
  BY <1>1, <1>2, <1>3, <1>4, <1>5, ListsStay
<1>7. QED
  BY <1>6

\* ... and are the ops in use.
LEMMA OpsListed ==
  ASSUME LogInv
  PROVE  /\ \A o \in Ops : ops[o].used <=> o \in Linking \/ \E s \in Listed : o \in OpsOf(s)
         /\ \A o \in Linking : \A s \in Listed : o \notin OpsOf(s)
         /\ \A s, r \in Listed : s # r => OpsOf(s) \cap OpsOf(r) = {}
         /\ \A s \in Listed : BlockCalcLength(s) <= LOG_MAX_LEN
<1>1. \A s \in Listed : /\ OpsOf(s) = ToSet(Walk(ops, First[s]))
                        /\ BlockCalcLength(s) = Len(Walk(ops, First[s]))
  BY DEF OpsOf, First, Listed, Live, BlockCalcLength
<1>2. ListsOf(ops, First, Listed, Linking)
  BY DEF LogInv, OpsKept
<1>3. /\ \A o \in Ops : ops[o].used <=> o \in Linking \/ \E s \in Listed : o \in OpsOf(s)
      /\ \A o \in Linking : \A s \in Listed : o \notin OpsOf(s)
  <2>1. \A o : (\E s \in Listed : o \in OpsOf(s)) <=>
              \E s \in Listed : o \in ToSet(Walk(ops, First[s]))
    BY <1>1
  <2>2. \A o \in Linking : \A s \in Listed : o \notin OpsOf(s)
    BY <1>1, <1>2 DEF ListsOf
  <2>3. QED
    BY <1>2, <2>1, <2>2, Zenon DEF ListsOf
<1>4. \A s, r \in Listed : s # r => OpsOf(s) \cap OpsOf(r) = {}
  BY <1>1, <1>2 DEF ListsOf
<1>5. \A s \in Listed : BlockCalcLength(s) <= LOG_MAX_LEN
  BY <1>1, <1>2 DEF ListsOf
<1>6. QED
  BY <1>3, <1>4, <1>5

\* A step that touches no list.
LEMMA OpsSame ==
  ASSUME LogInv, blocks' \in Blocks, ops' = ops, Listed' \subseteq Listed, Linking' = Linking,
         \A s \in Slots : blocks'[s].ops = blocks[s].ops,
         \A s \in Listed \ Listed' : OpsOf(s) = {},
         \/ task'["log"].pc \notin {"fill", "link"}
         \/ task'["log"] = task["log"]
  PROVE  OpsKept'
<1>1. ops \in OpLists
  BY DEF LogInv, LogTyped
<1>2. ListsOf(ops, First, Listed, Linking)'
  <2>1. \A o \in Ops : ops[o].used <=> o \in Linking' \/ \E s \in Listed' : o \in OpsOf(s)
    BY OpsListed
  <2>2. \A o \in Linking' : \A s \in Listed' : o \notin OpsOf(s)
    BY OpsListed
  <2>3. Listed' \subseteq Slots
    BY DEF Listed, Live
  <2>4. QED
    BY <1>1, <2>1, <2>2, <2>3, OpsStay
<1>3. task'["log"].pc \in {"fill", "link"} =>
        /\ task'["log"].op \in Ops /\ BlockCalcLength(task["log"].slot) + 1 <= LOG_MAX_LEN
        /\ task'["log"] = task["log"] /\ task["log"].slot \in Slots
  BY DEF LogInv, OpsKept, Places, Place, OnBlock, Tasks, Live
<1>4. task'["log"].pc \in {"fill", "link"} =>
        BlockCalcLength(task["log"].slot)' + 1 <= LOG_MAX_LEN
  BY <1>3 DEF BlockCalcLength
<1>5. task'["log"].pc = "fill" => ~ops'[task'["log"].op].used
  BY <1>3 DEF LogInv, OpsKept
<1>6. QED
  BY <1>2, <1>3, <1>4, <1>5 DEF OpsKept

-----------------------------------------------------------------------------
(* Deleting and resetting *)

\* A command to a timer that exists waits for room and asserts nothing.
LEMMA Sends ==
  ASSUME LogTyped, NEW s \in Slots, NEW command \in {"start", "stop", "delete"},
         SendTimer(command, s), blocks[s].timer, active' = active
  PROVE  /\ timerQueue' \in Seq(TimerCommands) /\ Len(timerQueue') = Len(timerQueue) + 1
         /\ Len(timerQueue) < TimerQueueLength /\ asserted' = asserted
         /\ \A r \in Slots : Bound(timerQueue', active', r) =>
              IF r = s THEN command = "start" ELSE Bound(timerQueue, active, r)
<1> DEFINE c == [command |-> command, slot |-> s]
<1>1. /\ timerQueue' = Append(timerQueue, c) /\ Len(timerQueue) < TimerQueueLength
      /\ asserted' = asserted
  BY DEF SendTimer
<1>2. c \in TimerCommands /\ timerQueue \in Seq(TimerCommands) /\ c.slot = s /\ c.command = command
  BY DEF TimerCommands, LogTyped
<1> HIDE DEF c
<1>3. timerQueue' \in Seq(TimerCommands) /\ Len(timerQueue') = Len(timerQueue) + 1
  BY <1>1, <1>2, AppendProperties
<1>4. \A r \in Slots : Bound(timerQueue', active, r) =>
        IF c.slot = r THEN c.command = "start" ELSE Bound(timerQueue, active, r)
  BY <1>1, <1>2, BoundAppend
<1>5. QED
  BY <1>1, <1>2, <1>3, <1>4

\* The block that a deletion works on is there, and so is its timer until it is deleted.
LEMMA Deletes ==
  ASSUME LogInv, NEW t \in Tasks, task[t].pc \in {"halt", "again", "free", "stop", "delete", "remove"}
  PROVE  /\ task[t].slot \in Slots /\ task[t].slot \in Live
         /\ task[t].pc # "remove" => blocks[task[t].slot].timer
         /\ task[t].pc = "remove" => ~blocks[task[t].slot].timer
         /\ task[t].at # 0 => task[t].at = task[t].slot
         /\ t = "log" => task[t].pc \notin {"idle", "take"}
         /\ task[t].pc \in Resetting
<1>1. task[t].slot \in Slots /\ task[t].slot \in Live /\ (task[t].at # 0 => task[t].at = task[t].slot)
  BY DEF LogInv, Places, Place, OnBlock, Live
<1>2. \A u \in Tasks \ {t} : task[u].pc \in {"idle", "take", "run"}
  BY OtherTask DEF Resetting
<1>3. ASSUME task[t].pc # "remove" PROVE blocks[task[t].slot].timer
  <2>1. ~ \E u \in Tasks : task[u].pc \in {"create", "remove"} /\ task[u].slot = task[t].slot
    BY <1>2, <1>3
  <2>2. QED
    BY <1>1, <2>1, Zenon DEF LogInv, TimersKept, Timed
<1>4. task[t].pc = "remove" => ~blocks[task[t].slot].timer
  BY Zenon DEF LogInv, TimersKept
<1>5. QED
  BY <1>1, <1>3, <1>4 DEF Resetting

\* FreeBlockOps: the ops of the block are free, and its list is no more.
LEMMA FreeStep ==
  ASSUME LogInv, NEW t \in Tasks, FreeBlockOps(t)
  PROVE  LogInv'
<1> DEFINE slot == task[t].slot
           freed == OpsOf(slot)
           next == TimerNext(t)
<1>1. /\ task[t].pc = "free" /\ Goto(t, [task[t] EXCEPT !.pc = next])
      /\ ops' = [o \in DOMAIN ops |-> [ops[o] EXCEPT !.used = @ /\ o \notin freed]]
      /\ UNCHANGED <<blocks, logLock, workQueue, timers, link, asserted, started>>
  BY DEF FreeBlockOps, Release
<1>2. /\ slot \in Slots /\ slot \in Live /\ blocks[slot].timer
      /\ task[t].at # 0 => task[t].at = slot
  BY <1>1, Deletes
<1>3. next = "stop"
  BY <1>2 DEF TimerNext
<1> HIDE DEF next, freed
<1>4. Moved(t, "stop", slot, task[t].op, task[t].at)
  <2>1. TasksTyped /\ Shape(task[t])
    BY DEF LogInv, LogTyped, TasksTyped
  <2>2. Record([task[t] EXCEPT !.pc = next], "stop", slot, task[t].op, task[t].at)
    BY <1>3, <2>1, Records DEF Shape
  <2>3. QED
    BY <1>1, <2>1, <2>2, MovesTo
<1>5. Works(t, "stop", slot, task[t].op, task[t].at)
  BY <1>1, <1>4 DEF Works, Resetting
<1>6. /\ Listed = Live \ Off(t) /\ Listed' = Live' \ {slot} /\ Off(t) = {}
      /\ Linking = {} /\ Linking' = {}
      /\ \A u \in Tasks \ {t} : task'[u] = task[u] /\ task[u].pc \in {"idle", "take", "run"}
  <2>1. /\ Listed = Live \ Off(t) /\ Listed' = Live' \ Off(t)'
        /\ Off(t)' = {slot}
        /\ Linking = (IF t = "log" /\ task[t].pc = "link" THEN {task[t].op} ELSE {})
        /\ Linking' = {}
        /\ \A u \in Tasks \ {t} : task'[u] = task[u] /\ task[u].pc \in {"idle", "take", "run"}
    BY <1>5, WorksFrame
  <2>2. Off(t) = {}
    BY <1>1 DEF Off
  <2>3. QED
    BY <1>1, <2>1, <2>2
<1>7. /\ task'[t].pc = "stop" /\ task'[t].slot = slot /\ task'[t].at = task[t].at
      /\ TasksTyped'
  BY <1>4 DEF Moved, Record
<1>8. Live' = Live
  BY <1>1 DEF Live
<1>9. /\ ops' \in OpLists
      /\ \A o \in Ops : ops'[o].next = ops[o].next /\ (ops'[o].used <=> ops[o].used /\ o \notin freed)
  BY <1>1 DEF LogInv, LogTyped, OpLists
<1>10. LogTyped'
  BY <1>1, <1>7, <1>9 DEF LogInv, LogTyped, timers
<1>11. Place(t)'
  <2>1. Place(t)
    BY DEF LogInv, Places
  <2>2. QED
    BY <1>1, <1>2, <1>7, <1>8, <2>1 DEF Place, OnBlock, Resetting
<1>12. UniqueIds'
  BY <1>1, UniqueStay DEF LogInv
<1>13. TimersKept'
  BY <1>1, <1>2, <1>6, <1>7, <1>8
  DEF LogInv, TimersKept, Timed, StartedOnly, timers, Tasks
<1>14. OpsKept'
  <2>1. Listed = Live /\ Listed' = Live \ {slot}
    BY <1>6, <1>8
  <2>2. \A o \in Ops : ops'[o].used <=> o \in Linking' \/ \E s \in Listed' : o \in OpsOf(s)
    <3>1. \A o \in Ops : ops[o].used <=> \E s \in Live : o \in OpsOf(s)
      BY <1>6, <2>1, OpsListed
    <3>2. \A s \in Live : s # slot => OpsOf(s) \cap freed = {}
      BY <1>2, <2>1, OpsListed DEF freed
    <3>3. \A o \in Ops : (\E s \in Live : o \in OpsOf(s)) /\ o \notin freed <=> \E s \in Listed' : o \in OpsOf(s)
      BY <1>2, <2>1, <3>2 DEF freed
    <3>4. QED
      BY <1>6, <1>9, <3>1, <3>3
  <2>3. ListsOf(ops, First, Listed, Linking)'
    BY <1>1, <1>6, <1>9, <1>10, <2>1, <2>2, OpsStay DEF LogInv, LogTyped
  <2>4. task'["log"].pc \notin {"fill", "link"}
    BY <1>6, <1>7 DEF Tasks
  <2>5. QED
    BY <2>3, <2>4 DEF OpsKept
<1>16. ASSUME t = "log" PROVE FreshRun'
  <2>1. task'["worker"] = task["worker"]
    BY <1>6, <1>16 DEF Tasks
  <2>2. task'["log"].pc \in Ending
    BY <1>7, <1>16 DEF Ending, Resetting
  <2>3. task["worker"].pc = "run" => task["worker"].slot \in Slots
    BY DEF LogInv, Places, Place, Tasks
  <2>4. QED
    BY <1>1, <2>1, <2>2, <2>3, FreshStays DEF LogInv
<1>17. QED
  BY <1>5, <1>10, <1>11, <1>12, <1>13, <1>14, <1>16, WorksInv

\* A step that leaves the blocks and the ops as they are.
LEMMA QuietStep ==
  ASSUME LogInv, NEW t \in Tasks, NEW pc, NEW slot, NEW op, NEW at,
         Works(t, pc, slot, op, at),
         blocks' = blocks, ops' = ops, started \subseteq started', started' \subseteq Slots,
         active' = active, workQueue' \in Seq(Slots), timerQueue' \in Seq(TimerCommands),
         asserted' = asserted,
         \A r \in Slots : Bound(timerQueue', active', r) =>
           Bound(timerQueue, active, r) \/ (r \in Live \cap started' /\ blocks[r].timer),
         Place(t)', Off(t)' = Off(t),
         task[t].pc \notin {"create", "remove", "link"}, pc \notin {"create", "clear", "link"},
         pc = "remove" => ~blocks[slot].timer,
         pc \in {"period", "start"} => slot \in started',
         pc = "fill" => /\ op \in Ops /\ ~ops[op].used /\ slot \in Slots
                        /\ BlockCalcLength(slot) + 1 <= LOG_MAX_LEN,
         t = "log" => (task[t].pc \in Ending => pc \in Ending)
  PROVE  LogInv'
<1>1. /\ Listed = Live \ Off(t) /\ Listed' = Live' \ Off(t)'
      /\ Linking = {} /\ Linking' = {}
      /\ \A u \in Tasks \ {t} : task'[u] = task[u] /\ task[u].pc \in {"idle", "take", "run"}
      /\ \A s \in Live : blocks[s].timer
      /\ t = "worker" => task'["log"].pc \in {"idle", "take"}
  BY WorksFrame
<1>2. /\ task'[t].pc = pc /\ task'[t].slot = slot /\ task'[t].op = op /\ task'[t].at = at
      /\ TasksTyped'
  BY DEF Works, Moved, Record
<1>3. Live' = Live
  BY DEF Live
<1>4. LogTyped'
  BY <1>2 DEF LogInv, LogTyped
<1>5. UniqueIds'
  BY UniqueStay DEF LogInv
<1>6. TimersKept'
  <2>1. ~asserted' /\ Timed'
    BY <1>1, <1>3 DEF LogInv, TimersKept, Timed
  <2>2. StartedOnly'
    BY <1>3 DEF LogInv, TimersKept, StartedOnly
  <2>3. \A u \in Tasks : task'[u].pc = "remove" => ~blocks'[task'[u].slot].timer
    BY <1>1, <1>2, Zenon
  <2>4. /\ task'["log"].pc \in {"period", "start"} => task'["log"].slot \in started'
        /\ task'["log"].pc \notin {"create", "clear"}
    BY <1>1, <1>2 DEF Tasks
  <2>5. QED
    BY <2>1, <2>2, <2>3, <2>4 DEF TimersKept
<1>7. OpsKept'
  <2>1. Listed' = Listed
    BY <1>1, <1>3
  <2>2. ListsOf(ops, First, Listed, Linking)'
    BY <1>1, <2>1 DEF LogInv, OpsKept, First
  <2>3. CASE task'["log"].pc = "fill"
    <3>1. t = "log" /\ pc = "fill"
      BY <1>1, <1>2, <2>3 DEF Tasks
    <3>2. /\ task'["log"].op \in Ops /\ ~ops'[task'["log"].op].used
          /\ task'["log"].slot = slot
      BY <1>2, <3>1
    <3>3. BlockCalcLength(task["log"].slot)' + 1 <= LOG_MAX_LEN
      BY <3>1, <3>2 DEF BlockCalcLength
    <3>4. QED
      BY <2>2, <3>2, <3>3 DEF OpsKept
  <2>4. CASE task'["log"].pc # "fill"
    <3>1. task'["log"].pc # "link"
      BY <1>1, <1>2 DEF Tasks
    <3>2. QED
      BY <2>2, <2>4, <3>1 DEF OpsKept
  <2>5. QED
    BY <2>3, <2>4
<1>9. ASSUME t = "log" PROVE FreshRun'
  <2>1. task'["worker"] = task["worker"]
    BY <1>1, <1>9 DEF Tasks
  <2>2. task["log"].pc \in Ending => task'["log"].pc \in Ending
    BY <1>2, <1>9
  <2>3. task["worker"].pc = "run" => task["worker"].slot \in Slots
    BY DEF LogInv, Places, Place, Tasks
  <2>4. QED
    BY <2>1, <2>2, <2>3, FreshStays DEF LogInv
<1>10. QED
  BY <1>4, <1>5, <1>6, <1>7, <1>9, WorksInv

\* A task's record as it is.
LEMMA TaskShape ==
  ASSUME LogInv, NEW t \in Tasks
  PROVE  /\ TasksTyped /\ Shape(task[t]) /\ Place(t)
         /\ task[t].slot \in 0 .. LOG_MAX_BLOCKS /\ task[t].op \in 0 .. LOG_MAX_OPS
         /\ task[t].at \in 0 .. LOG_MAX_BLOCKS + 1
  BY DEF LogInv, LogTyped, TasksTyped, Shape, Places

\* StopTimer: the command is on its way.
LEMMA StopStep ==
  ASSUME LogInv, NEW t \in Tasks, StopTimer(t)
  PROVE  LogInv'
<1>1. /\ task[t].pc = "stop" /\ SendTimer("stop", task[t].slot)
      /\ Goto(t, [task[t] EXCEPT !.pc = "delete"])
      /\ UNCHANGED <<blocks, ops, logLock, workQueue, active, link, started>>
  BY DEF StopTimer
<1>2. /\ task[t].slot \in Slots /\ task[t].slot \in Live /\ blocks[task[t].slot].timer
      /\ (task[t].at # 0 => task[t].at = task[t].slot) /\ LogTyped
  BY <1>1, Deletes DEF LogInv
<1>3. Moved(t, "delete", task[t].slot, task[t].op, task[t].at)
  BY <1>1, TaskShape, Records, MovesTo
<1>4. Works(t, "delete", task[t].slot, task[t].op, task[t].at)
  BY <1>1, <1>3 DEF Works, Resetting
<1>5. /\ timerQueue' \in Seq(TimerCommands) /\ Len(timerQueue') = Len(timerQueue) + 1
      /\ asserted' = asserted
      /\ \A r \in Slots : Bound(timerQueue', active', r) => Bound(timerQueue, active, r)
  BY <1>1, <1>2, Sends
<1>6. /\ task'[t].pc = "delete" /\ task'[t].slot = task[t].slot /\ task'[t].at = task[t].at
  BY <1>3 DEF Moved, Record
<1>7. Place(t)'
  BY <1>1, <1>2, <1>6, TaskShape DEF Place, OnBlock, Resetting, Live
<1>8. Off(t)' = Off(t)
  BY <1>1, <1>6 DEF Off
<1>10. started \subseteq Slots /\ workQueue \in Seq(Slots)
  BY <1>2 DEF LogTyped
<1>11. QED
  BY <1>1, <1>4, <1>5, <1>7, <1>8, <1>10, QuietStep DEF Ending, Resetting

\* HaltBlock: likewise, and a client's command ends.
LEMMA HaltStep ==
  ASSUME LogInv, NEW t \in Tasks, HaltBlock(t)
  PROVE  LogInv'
<1> DEFINE next == IF task[t].at = 0 THEN "reply" ELSE "again"
<1>1. /\ task[t].pc = "halt" /\ SendTimer("stop", task[t].slot)
      /\ Goto(t, [task[t] EXCEPT !.pc = next])
      /\ UNCHANGED <<blocks, ops, logLock, workQueue, active, link, started>>
  BY DEF HaltBlock
<1>2. /\ task[t].slot \in Slots /\ task[t].slot \in Live /\ blocks[task[t].slot].timer
      /\ (task[t].at # 0 => task[t].at = task[t].slot) /\ LogTyped
  BY <1>1, Deletes DEF LogInv
<1>3. Moved(t, next, task[t].slot, task[t].op, task[t].at)
  BY <1>1, TaskShape, Records, MovesTo
<1>4. Place(t) /\ (t = "worker" => next = "again") /\ next \in {"reply", "again"}
  BY <1>1, TaskShape DEF Place, Resetting
<1>5. Works(t, next, task[t].slot, task[t].op, task[t].at)
  BY <1>1, <1>3, <1>4 DEF Works, Resetting
<1>6. /\ timerQueue' \in Seq(TimerCommands) /\ Len(timerQueue') = Len(timerQueue) + 1
      /\ asserted' = asserted
      /\ \A r \in Slots : Bound(timerQueue', active', r) => Bound(timerQueue, active, r)
  BY <1>1, <1>2, Sends
<1>7. /\ task'[t].pc = next /\ task'[t].slot = task[t].slot /\ task'[t].at = task[t].at
  BY <1>3 DEF Moved, Record
<1>8. Place(t)'
  BY <1>1, <1>2, <1>4, <1>7 DEF Place, OnBlock, Resetting, Live
<1>9. Off(t)' = Off(t)
  BY <1>1, <1>4, <1>7 DEF Off
<1>11. started \subseteq Slots /\ workQueue \in Seq(Slots)
  BY <1>2 DEF LogTyped
<1> HIDE DEF next
<1>12. QED
  BY <1>1, <1>4, <1>5, <1>6, <1>8, <1>9, <1>11, QuietStep DEF Ending, Resetting

\* ResetNext: the reset comes to a block that is there, to one that is not, or to the end.
LEMMA ResetNextStep ==
  ASSUME LogInv, NEW t \in Tasks, ResetNext(t)
  PROVE  LogInv'
<1> DEFINE at == task[t].at
           pc2 == IF at > LOG_MAX_BLOCKS THEN "forget" ELSE IF blocks[at].id = Free THEN "reset" ELSE "halt"
           slot2 == IF pc2 = "halt" THEN at ELSE task[t].slot
           at2 == IF pc2 = "reset" THEN at + 1 ELSE at
<1>1. /\ task[t].pc = "reset"
      /\ Goto(t, IF at > LOG_MAX_BLOCKS THEN [task[t] EXCEPT !.pc = "forget"]
                 ELSE IF blocks[at].id = Free THEN NextSlot(t)
                 ELSE [task[t] EXCEPT !.pc = "halt", !.slot = at])
      /\ UNCHANGED <<blocks, ops, logLock, workQueue, timers, link, asserted, started>>
  BY DEF ResetNext
<1>2. /\ Place(t) /\ at # 0 /\ at \in 0 .. LOG_MAX_BLOCKS + 1 /\ LOG_MAX_BLOCKS \in Nat
      /\ \A s \in Live : at <= s
      /\ TasksTyped /\ Shape(task[t])
      /\ task[t].slot \in 0 .. LOG_MAX_BLOCKS /\ task[t].op \in 0 .. LOG_MAX_OPS
  BY <1>1, TaskShape, LogAssumption DEF Place
<1>3. pc2 \in {"forget", "reset", "halt"} /\ slot2 \in 0 .. LOG_MAX_BLOCKS /\ at2 \in 0 .. LOG_MAX_BLOCKS + 1
  BY <1>2
<1>4. Moved(t, pc2, slot2, task[t].op, at2)
  <2>1. CASE at > LOG_MAX_BLOCKS
    BY <1>1, <1>2, <2>1, Records, MovesTo
  <2>2. CASE ~(at > LOG_MAX_BLOCKS) /\ blocks[at].id = Free
    <3>1. Goto(t, [task[t] EXCEPT !.pc = "reset", !.at = at + 1])
      BY <1>1, <2>2 DEF NextSlot
    <3>2. at + 1 \in 0 .. LOG_MAX_BLOCKS + 1 /\ pc2 = "reset" /\ slot2 = task[t].slot /\ at2 = at + 1
      BY <1>2, <2>2
    <3> HIDE DEF pc2, slot2, at2
    <3>3. QED
      BY <1>2, <3>1, <3>2, Records, MovesTo
  <2>3. CASE ~(at > LOG_MAX_BLOCKS) /\ blocks[at].id # Free
    <3>1. Goto(t, [task[t] EXCEPT !.pc = "halt", !.slot = at])
      BY <1>1, <2>3
    <3>2. at \in 0 .. LOG_MAX_BLOCKS /\ pc2 = "halt" /\ slot2 = at /\ at2 = at
      BY <1>2, <2>3
    <3> HIDE DEF pc2, slot2, at2
    <3>3. QED
      BY <1>2, <3>1, <3>2, Records, MovesTo
  <2>4. QED
    BY <2>1, <2>2, <2>3
<1>5. Works(t, pc2, slot2, task[t].op, at2)
  BY <1>1, <1>3, <1>4 DEF Works, Resetting
<1>6. task'[t].pc = pc2 /\ task'[t].slot = slot2 /\ task'[t].at = at2
  BY <1>4 DEF Moved, Record
<1>7. Place(t)'
  <2>1. /\ pc2 = "halt" => slot2 \in Live
        /\ \A s \in Live : at2 <= s
        /\ pc2 = "halt" => at2 = slot2
        /\ pc2 = "forget" => at2 = LOG_MAX_BLOCKS + 1
        /\ at2 # 0
    BY <1>2 DEF Live, Slots
  <2> HIDE DEF pc2, slot2, at2
  <2>2. Live' = Live
    BY <1>1 DEF Live
  <2>3. QED
    BY <1>3, <1>6, <2>1, <2>2 DEF Place, OnBlock, Resetting
<1> HIDE DEF pc2, slot2, at2
<1>8. Off(t)' = Off(t)
  BY <1>1, <1>3, <1>6 DEF Off
<1>10. /\ timerQueue' = timerQueue /\ active' = active /\ started \subseteq Slots
       /\ workQueue \in Seq(Slots) /\ timerQueue \in Seq(TimerCommands)
  BY <1>1 DEF LogInv, LogTyped, timers
<1>11. QED
  BY <1>1, <1>3, <1>5, <1>7, <1>8, <1>10, QuietStep DEF Ending, Resetting

\* ResetDelete: the block that it finds by its id is the one that the reset has come to.
LEMMA ResetDeleteStep ==
  ASSUME LogInv, NEW t \in Tasks, ResetDelete(t)
  PROVE  LogInv'
<1> DEFINE found == IndexOf(blocks[task[t].at].id)
<1>1. /\ task[t].pc = "again"
      /\ Goto(t, [task[t] EXCEPT !.pc = "free", !.slot = found])
      /\ UNCHANGED <<blocks, ops, logLock, workQueue, timers, link, asserted, started>>
  BY DEF ResetDelete
<1>2. /\ task[t].slot \in Slots /\ task[t].slot \in Live /\ task[t].at # 0
      /\ task[t].at = task[t].slot
  BY <1>1, Deletes, TaskShape DEF Place
<1>3. found = task[t].slot
  <2>1. /\ found \in Slots /\ blocks[found].id = blocks[task[t].slot].id
    BY <1>2, IndexOfId
  <2> HIDE DEF found
  <2>2. found \in Live
    BY <1>2, <2>1 DEF Live
  <2>3. QED
    BY <1>2, <2>1, <2>2 DEF LogInv, UniqueIds
<1> HIDE DEF found
<1>4. Moved(t, "free", task[t].slot, task[t].op, task[t].at)
  BY <1>1, <1>3, TaskShape, Records, MovesTo
<1>5. Works(t, "free", task[t].slot, task[t].op, task[t].at)
  BY <1>1, <1>4 DEF Works, Resetting
<1>6. task'[t].pc = "free" /\ task'[t].slot = task[t].slot /\ task'[t].at = task[t].at
  BY <1>4 DEF Moved, Record
<1>7. Place(t)'
  BY <1>1, <1>2, <1>6, TaskShape DEF Place, OnBlock, Resetting, Live
<1>8. Off(t)' = Off(t)
  BY <1>1, <1>6 DEF Off
<1>10. /\ timerQueue' = timerQueue /\ active' = active /\ started \subseteq Slots
       /\ workQueue \in Seq(Slots) /\ timerQueue \in Seq(TimerCommands)
  BY <1>1 DEF LogInv, LogTyped, timers
<1>11. QED
  BY <1>1, <1>5, <1>7, <1>8, <1>10, QuietStep DEF Ending, Resetting


\* DeleteTimer: the timer is bound no more.
LEMMA DeleteTimerStep ==
  ASSUME LogInv, NEW t \in Tasks, DeleteTimer(t)
  PROVE  LogInv'
<1> DEFINE slot == task[t].slot
<1>1. /\ task[t].pc = "delete" /\ SendTimer("delete", slot)
      /\ blocks' = [blocks EXCEPT ![slot].timer = FALSE]
      /\ Goto(t, [task[t] EXCEPT !.pc = "remove"])
      /\ UNCHANGED <<ops, logLock, workQueue, active, link, started>>
  BY DEF DeleteTimer
<1>2. /\ slot \in Slots /\ slot \in Live /\ blocks[slot].timer
      /\ task[t].at # 0 => task[t].at = slot
      /\ LogTyped
  BY <1>1, Deletes DEF LogInv
<1>3. Moved(t, "remove", slot, task[t].op, task[t].at)
  BY <1>1, TaskShape, Records, MovesTo
<1> HIDE DEF slot
<1>4. Works(t, "remove", slot, task[t].op, task[t].at)
  BY <1>1, <1>3 DEF Works, Resetting
<1>5. /\ timerQueue' \in Seq(TimerCommands) /\ Len(timerQueue') = Len(timerQueue) + 1
      /\ asserted' = asserted
      /\ \A r \in Slots : Bound(timerQueue', active', r) => r # slot /\ Bound(timerQueue, active, r)
  BY <1>1, <1>2, Sends
<1>6. /\ task'[t].pc = "remove" /\ task'[t].slot = slot /\ task'[t].at = task[t].at
      /\ TasksTyped'
  BY <1>3 DEF Moved, Record
<1>7. /\ Listed = Live \ Off(t) /\ Listed' = Live' \ {slot} /\ Off(t) = {slot}
      /\ Linking = {} /\ Linking' = {}
      /\ \A u \in Tasks \ {t} : task'[u] = task[u] /\ task[u].pc \in {"idle", "take", "run"}
      /\ \A s \in Live : blocks[s].timer
  <2>1. /\ Listed = Live \ Off(t) /\ Listed' = Live' \ Off(t)'
        /\ Off(t)' = {slot}
        /\ Linking = (IF t = "log" /\ task[t].pc = "link" THEN {task[t].op} ELSE {})
        /\ Linking' = {}
        /\ \A u \in Tasks \ {t} : task'[u] = task[u] /\ task[u].pc \in {"idle", "take", "run"}
        /\ \A s \in Live : blocks[s].timer \/ (task[t].pc \in {"create", "remove"} /\ task[t].slot = s)
    BY <1>4, WorksFrame
  <2>2. Off(t) = {slot}
    BY <1>1 DEF Off, slot
  <2>3. QED
    BY <1>1, <2>1, <2>2
<1>8. /\ blocks' \in Blocks
      /\ \A s \in Slots : /\ blocks'[s].id = blocks[s].id /\ blocks'[s].ops = blocks[s].ops
                          /\ s # slot => blocks'[s].timer = blocks[s].timer
      /\ ~blocks'[slot].timer
  BY <1>1, <1>2 DEF LogTyped, Blocks
<1>9. Live' = Live
  BY <1>8 DEF Live
<1>10. LogTyped'
  BY <1>1, <1>2, <1>5, <1>6, <1>8 DEF LogTyped
<1>11. Place(t)'
  BY <1>1, <1>2, <1>6, <1>9, TaskShape DEF Place, OnBlock, Resetting, slot
<1>12. UniqueIds'
  BY <1>8, UniqueStay DEF LogInv
<1>13. TimersKept'
  <2>1. ~asserted' /\ Timed'
    BY <1>5, <1>6, <1>7, <1>8, <1>9 DEF LogInv, TimersKept, Timed, Live
  <2>2. StartedOnly'
    BY <1>1, <1>5, <1>8, <1>9 DEF LogInv, TimersKept, StartedOnly
  <2>3. \A u \in Tasks : task'[u].pc = "remove" => ~blocks'[task'[u].slot].timer
    BY <1>6, <1>7, <1>8, Zenon
  <2>4. task'["log"].pc \notin {"period", "start", "create", "clear"}
    BY <1>6, <1>7 DEF Tasks
  <2>5. QED
    BY <2>1, <2>2, <2>3, <2>4 DEF TimersKept
<1>14. OpsKept'
  <2>1. Listed' = Listed
    BY <1>7, <1>9
  <2>2. task'["log"].pc \notin {"fill", "link"}
    BY <1>6, <1>7 DEF Tasks
  <2>3. QED
    BY <1>1, <1>7, <1>8, <2>1, <2>2, OpsSame
<1>16. ASSUME t = "log" PROVE FreshRun'
  <2>1. task'["worker"] = task["worker"]
    BY <1>7, <1>16 DEF Tasks
  <2>2. task'["log"].pc \in Ending
    BY <1>6, <1>16 DEF Ending, Resetting
  <2>3. task["worker"].pc = "run" => task["worker"].slot \in Slots
    BY DEF LogInv, Places, Place, Tasks
  <2>4. QED
    BY <1>1, <1>8, <2>1, <2>2, <2>3, FreshStays DEF LogInv
<1>17. QED
  BY <1>4, <1>10, <1>11, <1>12, <1>13, <1>14, <1>16, WorksInv

\* RemoveBlock: the slot is free, and neither a timer nor an op is left of the block.
LEMMA RemoveStep ==
  ASSUME LogInv, NEW t \in Tasks, RemoveBlock(t)
  PROVE  LogInv'
<1> DEFINE slot == task[t].slot
           pc2 == IF task[t].at = 0 THEN "reply" ELSE "reset"
           at2 == IF task[t].at = 0 THEN 0 ELSE task[t].at + 1
<1>1. /\ task[t].pc = "remove"
      /\ blocks' = [blocks EXCEPT ![slot].id = Free]
      /\ Goto(t, IF task[t].at = 0 THEN [task[t] EXCEPT !.pc = "reply"]
                 ELSE [task[t] EXCEPT !.pc = "reset", !.at = task[t].at + 1])
      /\ UNCHANGED <<ops, logLock, workQueue, timers, link, asserted, started>>
  BY DEF RemoveBlock, NextSlot
<1>2. /\ slot \in Slots /\ slot \in Live /\ ~blocks[slot].timer
      /\ task[t].at # 0 => task[t].at = slot
      /\ LogTyped
      /\ t = "worker" => task[t].at # 0
      /\ \A s \in Live : task[t].at <= s
      /\ task[t].at \in 0 .. LOG_MAX_BLOCKS + 1
  <2>1. Place(t) /\ task[t].at \in 0 .. LOG_MAX_BLOCKS + 1 /\ LOG_MAX_BLOCKS \in Nat
    BY TaskShape, LogAssumption
  <2>2. \A s \in Live : task[t].at <= s
    BY <2>1 DEF Place, Live, Slots
  <2>3. QED
    BY <1>1, <2>1, <2>2, Deletes DEF Place, LogInv
<1>3. Moved(t, pc2, slot, task[t].op, at2)
  <2>1. CASE task[t].at = 0
    BY <1>1, <2>1, TaskShape, Records, MovesTo
  <2>2. CASE task[t].at # 0
    <3>1. task[t].at + 1 \in 0 .. LOG_MAX_BLOCKS + 1
      BY <1>2, <2>2, LogAssumption DEF Slots
    <3>2. Goto(t, [task[t] EXCEPT !.pc = "reset", !.at = task[t].at + 1])
      BY <1>1, <2>2
    <3>3. QED
      BY <2>2, <3>1, <3>2, TaskShape, Records, MovesTo
  <2>3. QED
    BY <2>1, <2>2
<1>4. /\ pc2 \in {"reply", "reset"} /\ (at2 # 0 <=> pc2 = "reset") /\ (t = "worker" => pc2 = "reset")
      /\ at2 # 0 => at2 = slot + 1
  BY <1>2
<1> HIDE DEF slot, pc2, at2
<1>5. Works(t, pc2, slot, task[t].op, at2)
  BY <1>1, <1>3, <1>4 DEF Works, Resetting
<1>6. /\ task'[t].pc = pc2 /\ task'[t].slot = slot /\ task'[t].at = at2
      /\ TasksTyped'
  BY <1>3 DEF Moved, Record
<1>7. /\ Listed = Live \ {slot} /\ Listed' = Live' \ Off(t)' /\ Off(t)' = {}
      /\ Linking = {} /\ Linking' = {}
      /\ \A u \in Tasks \ {t} : task'[u] = task[u] /\ task[u].pc \in {"idle", "take", "run"}
      /\ \A s \in Live : blocks[s].timer \/ slot = s
      /\ t = "worker" => task'["log"].pc \in {"idle", "take"}
  <2>1. /\ Listed = Live \ Off(t) /\ Listed' = Live' \ Off(t)'
        /\ Off(t)' = IF pc2 \in {"create", "clear", "stop", "delete", "remove"} THEN {slot} ELSE {}
        /\ Linking = (IF t = "log" /\ task[t].pc = "link" THEN {task[t].op} ELSE {})
        /\ Linking' = IF t = "log" /\ pc2 = "link" THEN {task[t].op} ELSE {}
        /\ t = "worker" => task'["log"].pc \in {"idle", "take"}
        /\ \A u \in Tasks \ {t} : task'[u] = task[u] /\ task[u].pc \in {"idle", "take", "run"}
        /\ \A s \in Live : blocks[s].timer \/ (task[t].pc \in {"create", "remove"} /\ task[t].slot = s)
    BY <1>5, WorksFrame
  <2>2. Off(t) = {slot}
    BY <1>1 DEF Off, slot
  <2>3. Off(t)' = {} /\ Linking = {} /\ Linking' = {}
    BY <1>1, <1>4, <2>1
  <2>4. \A s \in Live : blocks[s].timer \/ slot = s
    BY <2>1 DEF slot
  <2>5. QED
    BY <2>1, <2>2, <2>3, <2>4
<1>8. /\ blocks' \in Blocks /\ blocks'[slot].id = Free
      /\ \A s \in Slots : /\ blocks'[s].timer = blocks[s].timer /\ blocks'[s].ops = blocks[s].ops
                          /\ s # slot => blocks'[s].id = blocks[s].id
  BY <1>1, <1>2 DEF LogTyped, Blocks
<1>9. Live' = Live \ {slot}
  BY <1>2, <1>8 DEF Live
<1>10. LogTyped'
  BY <1>1, <1>2, <1>6, <1>8 DEF LogTyped, timers
<1>11. Place(t)'
  <2>1. at2 # 0 => \A s \in Live' : at2 <= s
    <3>1. ASSUME at2 # 0, NEW s \in Live' PROVE at2 <= s
      <4>1. task[t].at = slot /\ at2 = slot + 1
        BY <1>2, <1>4, <3>1 DEF at2
      <4>2. s \in Live /\ s # slot /\ s \in Nat /\ slot \in Nat
        BY <1>2, <1>9, LogAssumption DEF Live, Slots
      <4>3. slot <= s
        BY <1>2, <4>1, <4>2
      <4>4. QED
        BY <4>1, <4>2, <4>3
    <3>2. QED
      BY <3>1
  <2>2. QED
    BY <1>4, <1>6, <2>1 DEF Place, OnBlock, Resetting
<1>12. UniqueIds'
  BY <1>8, UniqueStay DEF LogInv
<1>13. TimersKept'
  <2>1. ~asserted' /\ Timed'
    BY <1>1, <1>7, <1>8, <1>9 DEF LogInv, TimersKept, Timed, Live
  <2>2. StartedOnly'
    BY <1>1, <1>2, <1>8, <1>9 DEF LogInv, TimersKept, StartedOnly, timers
  <2>3. \A u \in Tasks : task'[u].pc # "remove"
    BY <1>4, <1>6, <1>7, Zenon
  <2>4. task'["log"].pc \notin {"period", "start", "create", "clear"}
    BY <1>4, <1>6, <1>7 DEF Tasks
  <2>5. QED
    BY <2>1, <2>2, <2>3, <2>4 DEF TimersKept
<1>14. OpsKept'
  <2>1. Listed' = Listed
    BY <1>7, <1>9
  <2>2. task'["log"].pc \notin {"fill", "link"}
    BY <1>4, <1>6, <1>7 DEF Tasks
  <2>3. QED
    BY <1>1, <1>7, <1>8, <2>1, <2>2, OpsSame
<1>16. ASSUME t = "log" PROVE FreshRun'
  <2>1. task'["worker"] = task["worker"]
    BY <1>7, <1>16 DEF Tasks
  <2>2. task'["log"].pc \in Ending
    BY <1>4, <1>6, <1>16 DEF Ending, Resetting
  <2>3. task["worker"].pc = "run" => task["worker"].slot \in Slots
    BY DEF LogInv, Places, Place, Tasks
  <2>4. \A s \in Slots : blocks'[s].ops = blocks[s].ops /\
          (blocks'[s].id = blocks[s].id \/ (blocks'[s].id = Free /\ task'["log"].pc \in Ending))
    BY <1>8, <2>2
  <2>5. QED
    BY <1>1, <2>1, <2>2, <2>3, <2>4, FreshStays DEF LogInv
<1>17. QED
  BY <1>5, <1>10, <1>11, <1>12, <1>13, <1>14, <1>16, WorksInv

\* The record of a task without work.
LEMMA IdleRecord ==
  Record(Idle, "idle", 0, 0, 0)
<1>1. 0 \in 0 .. LOG_MAX_BLOCKS /\ 0 \in 0 .. LOG_MAX_OPS /\ 0 \in 0 .. LOG_MAX_BLOCKS + 1
  BY LogAssumption
<1>2. QED
  BY <1>1, Fields DEF Idle

\* ForgetAll: the reset has left no block.
LEMMA ForgetStep ==
  ASSUME LogInv, NEW t \in Tasks, ForgetAll(t)
  PROVE  LogInv'
<1> DEFINE pc2 == IF t = "log" THEN "reply" ELSE "idle"
           slot2 == IF t = "log" THEN task[t].slot ELSE 0
           op2 == IF t = "log" THEN task[t].op ELSE 0
<1>1. /\ task[t].pc = "forget"
      /\ blocks' = [s \in Slots |-> [blocks[s] EXCEPT !.id = Free]]
      /\ ops' = [o \in DOMAIN ops |-> [ops[o] EXCEPT !.used = FALSE]]
      /\ Goto(t, IF t = "log" THEN [task[t] EXCEPT !.pc = "reply", !.at = 0] ELSE Idle)
      /\ UNCHANGED <<logLock, workQueue, timers, asserted, started>>
  BY DEF ForgetAll
<1>2. LogTyped /\ Place(t) /\ task[t].pc \in Resetting
  BY <1>1, TaskShape DEF LogInv, Resetting
<1>3. Live = {}
  <2>1. /\ LOG_MAX_BLOCKS \in Nat /\ task[t].at = LOG_MAX_BLOCKS + 1
        /\ \A s \in Live : LOG_MAX_BLOCKS + 1 <= s
    BY <1>1, <1>2, LogAssumption DEF Place
  <2>2. QED
    BY <2>1 DEF Live, Slots
<1>4. Moved(t, pc2, slot2, op2, 0)
  <2>1. 0 \in 0 .. LOG_MAX_BLOCKS + 1
    BY LogAssumption
  <2>2. CASE t = "log"
    BY <1>1, <2>1, <2>2, TaskShape, Records, MovesTo
  <2>3. CASE t # "log"
    BY <1>1, <2>3, IdleRecord, TaskShape, MovesTo
  <2>4. QED
    BY <2>2, <2>3
<1>5. pc2 \in {"reply", "idle"} /\ (t = "log" <=> pc2 = "reply")
  OBVIOUS
<1> HIDE DEF pc2, slot2, op2
<1>6. Works(t, pc2, slot2, op2, 0)
  BY <1>1, <1>4, <1>5 DEF Works, Resetting, Tasks
<1>7. task'[t].pc = pc2 /\ task'[t].at = 0 /\ TasksTyped'
  BY <1>4 DEF Moved, Record
<1>8. /\ Listed = Live \ Off(t) /\ Listed' = Live' \ Off(t)'
      /\ Linking' = {}
      /\ \A u \in Tasks \ {t} : task'[u] = task[u] /\ task[u].pc \in {"idle", "take", "run"}
  BY <1>5, <1>6, WorksFrame
<1>9. /\ blocks' \in Blocks
      /\ \A s \in Slots : blocks'[s].ops = blocks[s].ops /\ blocks'[s].id = Free
  BY <1>1, <1>2 DEF LogTyped, Blocks
<1>10. /\ ops' \in OpLists
       /\ \A o \in Ops : ops'[o].next = ops[o].next /\ ~ops'[o].used
  BY <1>1, <1>2 DEF LogTyped, OpLists
<1>11. Live' = {}
  BY <1>9 DEF Live
<1>12. LogTyped'
  BY <1>1, <1>2, <1>7, <1>9, <1>10 DEF LogTyped, timers
<1>13. Place(t)'
  BY <1>5, <1>7 DEF Place, OnBlock, Resetting
<1>14. UniqueIds'
  BY <1>11 DEF UniqueIds
<1>15. TimersKept'
  <2>1. ~asserted' /\ Timed'
    BY <1>1, <1>11 DEF LogInv, TimersKept, Timed
  <2>2. StartedOnly'
    BY <1>1, <1>3 DEF LogInv, TimersKept, StartedOnly, timers
  <2>3. \A u \in Tasks : task'[u].pc # "remove"
    BY <1>5, <1>7, <1>8, Zenon
  <2>4. task'["log"].pc \notin {"period", "start", "create", "clear"}
    BY <1>5, <1>7, <1>8 DEF Tasks
  <2>5. QED
    BY <2>1, <2>2, <2>3, <2>4 DEF TimersKept
<1>16. OpsKept'
  <2>1. Listed = {} /\ Listed' = {}
    BY <1>3, <1>8, <1>11
  <2>2. ListsOf(ops, First, Listed, Linking)'
    BY <1>8, <1>9, <1>10, <2>1, OpsStay
  <2>3. task'["log"].pc \notin {"fill", "link"}
    BY <1>5, <1>7, <1>8 DEF Tasks
  <2>4. QED
    BY <2>2, <2>3 DEF OpsKept
<1>18. ASSUME t = "log" PROVE FreshRun'
  <2>1. task'["worker"] = task["worker"]
    BY <1>8, <1>18 DEF Tasks
  <2>2. task'["log"].pc \in Ending
    BY <1>5, <1>7, <1>18 DEF Ending
  <2>3. task["worker"].pc = "run" => task["worker"].slot \in Slots
    BY DEF LogInv, Places, Place, Tasks
  <2>4. QED
    BY <1>1, <1>9, <2>1, <2>2, <2>3, FreshStays DEF LogInv
<1>19. QED
  BY <1>6, <1>12, <1>13, <1>14, <1>15, <1>16, <1>18, WorksInv

\* Either task's deletion or reset keeps the invariant.
LEMMA DeleteOrResetStep ==
  ASSUME LogInv, NEW t \in Tasks, DeleteOrReset(t)
  PROVE  LogInv'
  BY FreeStep, StopStep, DeleteTimerStep, RemoveStep, ResetNextStep, HaltStep, ResetDeleteStep,
     ForgetStep
  DEF DeleteOrReset

-----------------------------------------------------------------------------
(* The LOG task *)

\* A block that a command names is none but a client's.
LEMMA CommandIds ==
  ASSUME NEW c \in Commands, c.op \notin {"reset", "toc"}
  PROVE  c.id \in Ids /\ c.id # Free
<1>1. c.id \in Ids
  BY DEF Commands
<1>2. QED
  BY <1>1, LogAssumption DEF Free

\* Between two steps of a command, neither the blocks nor the ops change.
LEMMA LogQuiet ==
  ASSUME LogInv,
         NEW pc \in {"reply", "append", "fill", "free", "period", "schedule", "halt", "start"},
         NEW slot, NEW op, NEW next, Goto("log", next), Record(next, pc, slot, op, 0),
         task["log"].pc \in {"begin", "append", "period", "start", "schedule"},
         blocks' = blocks, ops' = ops, logLock' = logLock, active' = active, asserted' = asserted,
         started \subseteq started', started' \subseteq Slots,
         workQueue' \in Seq(Slots), timerQueue' \in Seq(TimerCommands),
         \A r \in Slots : Bound(timerQueue', active', r) =>
           Bound(timerQueue, active, r) \/ (r \in Live \cap started' /\ blocks[r].timer),
         pc # "reply" => slot \in Live,
         pc \in {"period", "start"} => slot \in started',
         pc = "fill" => /\ op \in Ops /\ ~ops[op].used
                        /\ BlockCalcLength(slot) + 1 <= LOG_MAX_LEN
  PROVE  LogInv'
<1>1. "log" \in Tasks
  BY DEF Tasks
<1>2. Moved("log", pc, slot, op, 0)
  BY <1>1, TaskShape, MovesTo
<1>3. Works("log", pc, slot, op, 0)
  BY <1>2 DEF Works
<1>4. task'["log"].pc = pc /\ task'["log"].slot = slot /\ task'["log"].at = 0
  BY <1>2 DEF Moved, Record
<1>5. Live' = Live /\ Live \subseteq Slots
  BY DEF Live
<1>6. Place("log")'
  BY <1>4, <1>5 DEF Place, OnBlock
<1>7. Off("log")' = Off("log")
  BY <1>4 DEF Off
<1>8. task["log"].pc \notin Ending
  BY DEF Ending, Resetting
<1>9. pc = "fill" => slot \in Slots
  BY <1>5
<1>10. QED
  BY <1>1, <1>3, <1>6, <1>7, <1>8, <1>9, QuietStep

\* Where the LOG task is in no reset.
LEMMA LogRecord ==
  ASSUME LogInv, task["log"].pc \in {"begin", "append", "period", "start", "schedule"}
  PROVE  /\ task["log"].at = 0 /\ Shape(task["log"]) /\ TasksTyped /\ LogTyped
         /\ task["log"].slot \in 0 .. LOG_MAX_BLOCKS
         /\ task["log"].pc \in {"append", "period", "start"} => task["log"].slot \in Live
         /\ task["log"].pc = "schedule" => task["log"].slot \in Slots
         /\ task["log"].pc = "begin" => task["log"].command \in Commands
         /\ task["log"].pc \in {"period", "start"} =>
              task["log"].slot \in started /\ blocks[task["log"].slot].timer
         /\ task["log"].pc = "append" => task["log"].slot \in Listed
<1>1. /\ Shape(task["log"]) /\ TasksTyped /\ LogTyped /\ Place("log")
      /\ task["log"].slot \in 0 .. LOG_MAX_BLOCKS
  BY TaskShape DEF Tasks, LogInv
<1>2. /\ task["log"].at = 0
      /\ task["log"].pc \in {"append", "period", "start"} => task["log"].slot \in Live
      /\ task["log"].pc = "schedule" => task["log"].slot \in Slots
  BY <1>1 DEF Place, Resetting, OnBlock
<1>3. task["log"].pc = "begin" => task["log"].command \in Commands
  BY DEF LogInv, Turns
<1>4. /\ \A u \in Tasks \ {"log"} : task[u].pc \in {"idle", "take", "run"}
  BY OtherTask DEF Tasks
<1>5. ASSUME task["log"].pc \in {"period", "start"}
      PROVE  task["log"].slot \in started /\ blocks[task["log"].slot].timer
  <2>1. ~ \E u \in Tasks : task[u].pc \in {"create", "remove"}
    BY <1>4, <1>5
  <2>2. task["log"].slot \in Live
    BY <1>2, <1>5
  <2>3. blocks[task["log"].slot].timer
    BY <2>1, <2>2, Zenon DEF LogInv, TimersKept, Timed
  <2>4. QED
    BY <1>5, <2>3 DEF LogInv, TimersKept
<1>6. ASSUME task["log"].pc = "append" PROVE task["log"].slot \in Listed
  BY <1>2, <1>4, <1>6 DEF Listed, Off, Tasks
<1>7. QED
  BY <1>1, <1>2, <1>3, <1>5, <1>6

\* Toc: nothing changes.
LEMMA TocStep ==
  ASSUME LogInv, Toc
  PROVE  LogInv'
<1>1. /\ task["log"].pc = "begin" /\ Goto("log", [task["log"] EXCEPT !.pc = "reply"])
      /\ UNCHANGED <<blocks, ops, logLock, workQueue, timers, link, asserted, started>>
  BY DEF Toc, BeginsWith, At, Log, log
<1>2. /\ LogTyped /\ task["log"].at = 0 /\ Shape(task["log"])
  BY <1>1, LogRecord
<1>3. Record([task["log"] EXCEPT !.pc = "reply"], "reply", task["log"].slot, task["log"].op, 0)
  BY <1>2, Records DEF Shape
<1>4. timerQueue' = timerQueue /\ active' = active
  BY <1>1 DEF timers
<1>5. QED
  BY <1>1, <1>2, <1>3, <1>4, LogQuiet DEF LogTyped

\* FindBlock: the slot that it finds is a block's.
LEMMA FindStep ==
  ASSUME LogInv, FindBlock
  PROVE  LogInv'
<1> DEFINE r == task["log"]
           slot == IndexOf(r.command.id)
           next == CASE r.command.op = "append" -> "append"
                     [] r.command.op = "delete" -> "free"
                     [] r.command.op = "start" -> "period"
                     [] r.command.op = "runOnce" -> "schedule"
                     [] r.command.op = "stop" -> "halt"
<1>1. /\ r.pc = "begin" /\ r.command.op \in {"append", "delete", "start", "runOnce", "stop"}
      /\ IF slot = Null THEN Goto("log", [r EXCEPT !.pc = "reply"]) /\ UNCHANGED started
         ELSE /\ Goto("log", [r EXCEPT !.pc = next, !.slot = slot])
              /\ started' = IF next \in {"period", "schedule"} THEN started \union {slot}
                            ELSE started
      /\ UNCHANGED <<blocks, ops, logLock, workQueue, timers, link, asserted>>
  BY Zenon DEF FindBlock, At, Log, log
<1>2. next \in {"append", "free", "period", "schedule", "halt"}
  BY <1>1
<1>3. /\ LogTyped /\ r.at = 0 /\ Shape(r) /\ r.command \in Commands
      /\ r.command.id # Free
  BY <1>1, LogRecord, CommandIds
<1>4. slot = Null \/ (slot \in Slots /\ slot \in Live)
  <2>1. slot = Null \/ (slot \in Slots /\ blocks[slot].id = r.command.id)
    BY IndexOfId
  <2>2. QED
    BY <1>3, <2>1 DEF Live
<1> HIDE DEF slot, next
<1>5. timerQueue' = timerQueue /\ active' = active
  BY <1>1 DEF timers
<1>6. CASE slot = Null
  <2>1. Record([r EXCEPT !.pc = "reply"], "reply", r.slot, r.op, 0)
    BY <1>3, Records DEF Shape
  <2>2. QED
    BY <1>1, <1>3, <1>5, <1>6, <2>1, LogQuiet DEF LogTyped
<1>7. CASE slot # Null
  <2>1. slot \in Slots /\ slot \in Live /\ slot \in 0 .. LOG_MAX_BLOCKS
    BY <1>4, <1>7, LogAssumption DEF Slots
  <2>2. Record([r EXCEPT !.pc = next, !.slot = slot], next, slot, r.op, 0)
    BY <1>3, <2>1, Records DEF Shape
  <2>3. /\ started \subseteq started' /\ started' \subseteq Slots
        /\ next \in {"period", "start"} => slot \in started'
    BY <1>1, <1>2, <1>3, <1>7, <2>1 DEF LogTyped
  <2>4. next \in {"reply", "append", "fill", "free", "period", "schedule", "halt", "start"}
        /\ next # "fill"
    BY <1>2
  <2>5. Goto("log", [r EXCEPT !.pc = next, !.slot = slot])
    BY <1>1, <1>7
  <2>6. QED
    BY <1>1, <1>3, <1>5, <2>1, <2>2, <2>3, <2>4, <2>5, LogQuiet DEF LogTyped
<1>8. QED
  BY <1>6, <1>7

\* AppendNext: the op that it finds is free, and there is room for it in the block.
LEMMA AppendStep ==
  ASSUME LogInv, AppendNext
  PROVE  LogInv'
<1> DEFINE r == task["log"]
           ends == \/ r.command.settings = <<>>
                   \/ BlockCalcLength(r.slot) + 1 > LOG_MAX_LEN
                   \/ FreeOps = {}
                   \/ Head(r.command.settings) = "unknown"
           op == Min(FreeOps)
<1>1. /\ r.pc = "append"
      /\ IF ends THEN Goto("log", [r EXCEPT !.pc = "reply"])
         ELSE Goto("log", [r EXCEPT !.pc = "fill", !.op = op])
      /\ UNCHANGED <<blocks, ops, logLock, workQueue, timers, link, asserted, started>>
  BY Zenon DEF AppendNext, At, Log, log
<1>2. LogTyped /\ r.at = 0 /\ Shape(r) /\ r.slot \in Live /\ r.slot \in Listed
  BY <1>1, LogRecord
<1>3. timerQueue' = timerQueue /\ active' = active
  BY <1>1 DEF timers
<1>4. CASE ends
  <2>1. Record([r EXCEPT !.pc = "reply"], "reply", r.slot, r.op, 0)
    BY <1>2, Records DEF Shape
  <2>2. Goto("log", [r EXCEPT !.pc = "reply"])
    BY <1>1, <1>4
  <2>3. QED
    BY <1>1, <1>2, <1>3, <2>1, <2>2, LogQuiet DEF LogTyped
<1>5. CASE ~ends
  <2>1. FreeOps \subseteq Nat /\ FreeOps # {}
    BY <1>5, LogAssumption DEF FreeOps
  <2>2. op \in FreeOps
    BY <2>1, MinOf
  <2>3. op \in Ops /\ op \in 0 .. LOG_MAX_OPS /\ ~ops[op].used
    BY <2>2, LogAssumption DEF FreeOps, Ops
  <2>4. BlockCalcLength(r.slot) + 1 <= LOG_MAX_LEN
    <3>1. BlockCalcLength(r.slot) \in Nat
      <4>1. /\ ListsOf(ops, First, Listed, Linking) /\ First[r.slot] = blocks[r.slot].ops
        BY <1>2 DEF LogInv, OpsKept, First, Live
      <4>2. Walk(ops, blocks[r.slot].ops) \in Seq(Ops)
        BY <1>2, <4>1 DEF ListsOf, Chain
      <4>3. QED
        BY <4>2, LenProperties DEF BlockCalcLength
    <3>2. ~ (BlockCalcLength(r.slot) + 1 > LOG_MAX_LEN)
      BY <1>5
    <3>3. QED
      BY <3>1, <3>2, LogAssumption
  <2>5. Goto("log", [r EXCEPT !.pc = "fill", !.op = op])
    BY <1>1, <1>5
  <2> HIDE DEF op, ends
  <2>6. Record([r EXCEPT !.pc = "fill", !.op = op], "fill", r.slot, op, 0)
    BY <1>2, <2>3, Records DEF Shape
  <2>7. QED
    BY <1>1, <1>2, <1>3, <2>3, <2>4, <2>5, <2>6, LogQuiet DEF LogTyped
<1>6. QED
  BY <1>4, <1>5

\* A command to a timer of a started block binds that timer alone, if it is sent.
LEMMA TrySends ==
  ASSUME LogTyped, NEW s \in Slots, s \in Live, s \in started, blocks[s].timer,
         TrySendTimer("start", s), active' = active
  PROVE  /\ timerQueue' \in Seq(TimerCommands) /\ asserted' = asserted
         /\ \A r \in Slots : Bound(timerQueue', active', r) =>
              Bound(timerQueue, active, r) \/ (r \in Live \cap started /\ blocks[r].timer)
<1>1. CASE SendTimer("start", s)
  <2>1. /\ timerQueue' \in Seq(TimerCommands) /\ asserted' = asserted
        /\ \A r \in Slots : Bound(timerQueue', active', r) => r = s \/ Bound(timerQueue, active, r)
    BY <1>1, Sends
  <2>2. QED
    BY <2>1
<1>2. CASE timerQueue' = timerQueue /\ asserted' = asserted
  BY <1>2 DEF LogTyped
<1>3. QED
  BY <1>1, <1>2 DEF TrySendTimer

\* The worker's queue holds slots.
LEMMA Schedules ==
  ASSUME workQueue \in Seq(Slots), NEW s \in Slots, Schedule(s)
  PROVE  workQueue' \in Seq(Slots)
  BY AppendProperties DEF Schedule

\* ChangePeriod and StartTimer: the block has been started.
LEMMA TimerStep ==
  ASSUME LogInv, ChangePeriod \/ StartTimer
  PROVE  LogInv'
<1> DEFINE r == task["log"]
           next == IF r.pc = "period" THEN "start" ELSE "reply"
<1>1. /\ r.pc \in {"period", "start"} /\ TrySendTimer("start", r.slot)
      /\ Goto("log", [r EXCEPT !.pc = next])
      /\ UNCHANGED <<blocks, ops, logLock, workQueue, active, link, started>>
  BY DEF ChangePeriod, StartTimer, At, Log, log
<1>2. /\ LogTyped /\ r.at = 0 /\ Shape(r) /\ r.slot \in Live /\ r.slot \in Slots
      /\ r.slot \in started /\ blocks[r.slot].timer
  BY <1>1, LogRecord DEF Live
<1>3. /\ timerQueue' \in Seq(TimerCommands) /\ asserted' = asserted
      /\ \A s \in Slots : Bound(timerQueue', active', s) =>
           Bound(timerQueue, active, s) \/ (s \in Live \cap started /\ blocks[s].timer)
  BY <1>1, <1>2, TrySends
<1>4. next \in {"reply", "start"}
  OBVIOUS
<1> HIDE DEF next
<1>5. Record([r EXCEPT !.pc = next], next, r.slot, r.op, 0)
  <2>1. Record([r EXCEPT !.pc = next], next, r.slot, r.op, r.at)
    <3> HIDE DEF r
    <3>1. /\ Shape(r) /\ r.slot \in 0 .. LOG_MAX_BLOCKS /\ r.op \in 0 .. LOG_MAX_OPS
          /\ r.at \in 0 .. LOG_MAX_BLOCKS + 1
      BY <1>2 DEF Shape
    <3>2. QED
      BY <3>1, FieldSet
  <2>2. QED
    BY <1>2, <2>1
<1>6. /\ workQueue' \in Seq(Slots) /\ started \subseteq started' /\ started' \subseteq Slots
      /\ blocks' = blocks /\ ops' = ops /\ logLock' = logLock /\ active' = active
      /\ r.slot \in Live /\ r.slot \in started'
  BY <1>1, <1>2 DEF LogTyped
<1>7. \A s \in Slots : Bound(timerQueue', active', s) =>
        Bound(timerQueue, active, s) \/ (s \in Live \cap started' /\ blocks[s].timer)
  BY <1>1, <1>3
<1>8. Goto("log", [r EXCEPT !.pc = next]) /\ task["log"].pc \in {"period", "start"}
  BY <1>1
<1> HIDE DEF r
<1>9. QED
  BY <1>3, <1>4, <1>5, <1>6, <1>7, <1>8, LogQuiet

\* ScheduleRun: the worker gets the slot, if its queue has room.
LEMMA ScheduleStep ==
  ASSUME LogInv, ScheduleRun
  PROVE  LogInv'
<1> DEFINE r == task["log"]
<1>1. /\ r.pc = "schedule" /\ Schedule(r.slot) /\ Goto("log", [r EXCEPT !.pc = "reply"])
      /\ UNCHANGED <<blocks, ops, logLock, timers, link, asserted, started>>
  BY DEF ScheduleRun, At, Log, log
<1>2. LogTyped /\ r.at = 0 /\ Shape(r) /\ r.slot \in Slots
  BY <1>1, LogRecord
<1>3. workQueue' \in Seq(Slots)
  BY <1>1, <1>2, Schedules DEF LogTyped
<1>4. Record([r EXCEPT !.pc = "reply"], "reply", r.slot, r.op, 0)
  BY <1>2, Records DEF Shape
<1>5. timerQueue' = timerQueue /\ active' = active
  BY <1>1 DEF timers
<1>6. QED
  BY <1>1, <1>2, <1>3, <1>4, <1>5, LogQuiet DEF LogTyped

\* BeginReset: it begins with the first slot.
LEMMA BeginStep ==
  ASSUME LogInv, BeginReset
  PROVE  LogInv'
<1> DEFINE r == task["log"]
<1>1. /\ r.pc = "begin" /\ Goto("log", [r EXCEPT !.pc = "reset", !.at = 1])
      /\ UNCHANGED <<blocks, ops, logLock, workQueue, timers, link, asserted, started>>
  BY DEF BeginReset, BeginsWith, At, log
<1>2. LogTyped /\ r.at = 0 /\ Shape(r) /\ TasksTyped /\ "log" \in Tasks
  BY <1>1, LogRecord DEF Tasks
<1>3. 1 \in 0 .. LOG_MAX_BLOCKS + 1
  BY LogAssumption
<1>4. Record([r EXCEPT !.pc = "reset", !.at = 1], "reset", r.slot, r.op, 1)
  BY <1>2, <1>3, Records DEF Shape
<1>5. Moved("log", "reset", r.slot, r.op, 1)
  BY <1>1, <1>2, <1>4, MovesTo
<1>6. Works("log", "reset", r.slot, r.op, 1)
  BY <1>1, <1>5 DEF Works
<1>7. task'["log"].pc = "reset" /\ task'["log"].at = 1
  BY <1>5 DEF Moved, Record
<1>8. Place("log")'
  <2>1. \A s \in Live' : 1 <= s
    BY LogAssumption DEF Live, Slots
  <2>2. QED
    BY <1>7, <2>1 DEF Place, OnBlock, Resetting
<1>9. Off("log")' = Off("log")
  BY <1>1, <1>7 DEF Off
<1>10. timerQueue' = timerQueue /\ active' = active
  BY <1>1 DEF timers
<1>11. QED
  BY <1>1, <1>2, <1>6, <1>8, <1>9, <1>10, QuietStep DEF LogTyped, Ending, Resetting

\* CreateBlock: the slot had no block, and no block had the id.
LEMMA CreateStep ==
  ASSUME LogInv, CreateBlock
  PROVE  LogInv'
<1> DEFINE r == task["log"]
           slot == IndexOf(Free)
           id == r.command.id
<1>1. /\ r.pc = "begin" /\ r.command.op = "create"
      /\ IF IndexOf(id) # Null \/ slot = Null
         THEN Goto("log", [r EXCEPT !.pc = "reply"]) /\ UNCHANGED <<blocks, started>>
         ELSE /\ blocks' = [blocks EXCEPT ![slot].id = id]
              /\ Goto("log", [r EXCEPT !.pc = "create", !.slot = slot])
              /\ started' = started \ {slot}
      /\ UNCHANGED <<ops, logLock, workQueue, timers, link, asserted>>
  BY DEF CreateBlock, BeginsWith, At, Log, log
<1>2. /\ LogTyped /\ r.at = 0 /\ Shape(r) /\ TasksTyped /\ r.command \in Commands
      /\ r.op \in 0 .. LOG_MAX_OPS /\ "log" \in Tasks
  BY <1>1, LogRecord DEF Shape, Tasks
<1>3. id \in Ids /\ id # Free
  BY <1>1, <1>2, CommandIds
<1>4. /\ IndexOf(id) = Null => \A s \in Slots : blocks[s].id # id
      /\ slot = Null \/ (slot \in Slots /\ blocks[slot].id = Free)
  <2>1. 0 \notin Slots
    BY DEF Slots
  <2>2. QED
    BY <2>1, IndexOfId DEF Null
<1>5. timerQueue' = timerQueue /\ active' = active
  BY <1>1 DEF timers
<1> HIDE DEF slot, id
<1>6. CASE IndexOf(id) # Null \/ slot = Null
  <2>1. Record([r EXCEPT !.pc = "reply"], "reply", r.slot, r.op, 0)
    BY <1>2, Records DEF Shape
  <2>2. Goto("log", [r EXCEPT !.pc = "reply"]) /\ UNCHANGED <<blocks, started>>
    BY <1>1, <1>6
  <2>3. QED
    BY <1>1, <1>2, <1>5, <2>1, <2>2, LogQuiet DEF LogTyped
<1>7. CASE ~ (IndexOf(id) # Null \/ slot = Null)
  <2>1. /\ blocks' = [blocks EXCEPT ![slot].id = id]
        /\ Goto("log", [r EXCEPT !.pc = "create", !.slot = slot])
        /\ started' = started \ {slot}
    BY <1>1, <1>7
  <2>2. slot \in Slots /\ blocks[slot].id = Free /\ slot \in 0 .. LOG_MAX_BLOCKS
    BY <1>4, <1>7, LogAssumption DEF Slots
  <2>3. Moved("log", "create", slot, r.op, 0)
    BY <1>2, <2>1, <2>2, Records, MovesTo DEF Shape
  <2>4. Works("log", "create", slot, r.op, 0)
    BY <1>1, <2>3 DEF Works
  <2>5. /\ task'["log"].pc = "create" /\ task'["log"].slot = slot /\ task'["log"].at = 0
        /\ TasksTyped'
    BY <2>3 DEF Moved, Record
  <2>6. /\ Listed = Live /\ Listed' = Live' \ {slot} /\ Linking = {} /\ Linking' = {}
        /\ \A u \in Tasks \ {"log"} : task'[u] = task[u] /\ task[u].pc \in {"idle", "take", "run"}
        /\ \A s \in Live : blocks[s].timer
    <3>1. /\ Listed = Live \ Off("log") /\ Listed' = Live' \ Off("log")'
          /\ Off("log")' = {slot}
          /\ Linking = (IF r.pc = "link" THEN {r.op} ELSE {}) /\ Linking' = {}
          /\ \A u \in Tasks \ {"log"} : task'[u] = task[u] /\ task[u].pc \in {"idle", "take", "run"}
          /\ \A s \in Live : blocks[s].timer \/ (r.pc \in {"create", "remove"} /\ r.slot = s)
      BY <1>2, <2>4, WorksFrame
    <3>2. Off("log") = {}
      BY <1>1 DEF Off
    <3>3. QED
      BY <1>1, <3>1, <3>2
  <2>7. /\ blocks' \in Blocks /\ blocks'[slot].id = id
        /\ \A s \in Slots : /\ blocks'[s].timer = blocks[s].timer /\ blocks'[s].ops = blocks[s].ops
                            /\ s # slot => blocks'[s].id = blocks[s].id
    BY <1>2, <1>3, <2>1, <2>2 DEF LogTyped, Blocks
  <2>8. Live' = Live \union {slot} /\ slot \notin Live /\ Live \subseteq Slots
    <3>1. slot \notin Live
      BY <2>2 DEF Live
    <3>2. \A s \in Slots : blocks'[s].id # Free <=> blocks[s].id # Free \/ s = slot
      BY <1>3, <2>7
    <3>3. QED
      BY <2>2, <3>1, <3>2 DEF Live
  <2>9. LogTyped'
    BY <1>1, <1>2, <1>5, <2>1, <2>5, <2>7 DEF LogTyped
  <2>10. Place("log")'
    BY <2>5, <2>8 DEF Place, OnBlock
  <2>11. UniqueIds'
    BY <1>4, <1>7, <2>7, <2>8 DEF LogInv, UniqueIds
  <2>12. TimersKept'
    <3>1. ~asserted' /\ Timed'
      BY <1>1, <1>2, <2>5, <2>6, <2>7, <2>8 DEF LogInv, TimersKept, Timed
    <3>2. StartedOnly'
      BY <1>5, <2>1, <2>7, <2>8 DEF LogInv, TimersKept, StartedOnly
    <3>3. \A u \in Tasks : task'[u].pc # "remove"
      BY <2>5, <2>6, Zenon
    <3>4. slot \notin started'
      BY <2>1
    <3>5. QED
      BY <2>5, <3>1, <3>2, <3>3, <3>4 DEF TimersKept
  <2>13. OpsKept'
    <3>1. Listed' = Listed
      BY <2>6, <2>8
    <3>2. QED
      BY <1>1, <2>5, <2>6, <2>7, <3>1, OpsSame
  <2>14. FreshRun'
    <3>1. task'["worker"] = task["worker"]
      BY <2>6 DEF Tasks
    <3>2. r.pc \notin Ending
      BY <1>1 DEF Ending, Resetting
    <3>3. QED
      BY <2>1, <2>7, <2>8, <3>1, <3>2 DEF LogInv, FreshRun
  <2>15. QED
    BY <1>2, <2>4, <2>9, <2>10, <2>11, <2>12, <2>13, <2>14, WorksInv
<1>8. QED
  BY <1>6, <1>7

\* CreateTimer: nothing was sent to the timer before.
LEMMA CreateTimerStep ==
  ASSUME LogInv, CreateTimer
  PROVE  LogInv'
<1> DEFINE r == task["log"]
           slot == r.slot
<1>1. /\ r.pc = "create" /\ blocks' = [blocks EXCEPT ![slot].timer = TRUE]
      /\ Goto("log", [r EXCEPT !.pc = "clear"])
      /\ UNCHANGED <<ops, logLock, workQueue, timers, link, asserted, started>>
  BY DEF CreateTimer, At, Log, log
<1>2. /\ LogTyped /\ TasksTyped /\ Shape(r) /\ Place("log") /\ "log" \in Tasks
      /\ slot \in Live /\ slot \in Slots /\ r.at = 0 /\ slot \notin started
  BY <1>1, TaskShape DEF Tasks, LogInv, Place, OnBlock, Resetting, Live, TimersKept
<1>3. Moved("log", "clear", slot, r.op, 0)
  <2>1. Record([r EXCEPT !.pc = "clear"], "clear", slot, r.op, 0)
    BY <1>2, Records DEF Shape
  <2>2. QED
    BY <1>1, <1>2, <2>1, MovesTo
<1> HIDE DEF slot
<1>4. Works("log", "clear", slot, r.op, 0)
  BY <1>1, <1>3 DEF Works
<1>5. /\ task'["log"].pc = "clear" /\ task'["log"].slot = slot /\ task'["log"].at = 0
      /\ TasksTyped'
  BY <1>3 DEF Moved, Record
<1>6. /\ Listed = Live \ {slot} /\ Listed' = Live' \ {slot} /\ Linking = {} /\ Linking' = {}
      /\ \A u \in Tasks \ {"log"} : task'[u] = task[u] /\ task[u].pc \in {"idle", "take", "run"}
      /\ \A s \in Live : blocks[s].timer \/ slot = s
  <2>1. /\ Listed = Live \ Off("log") /\ Listed' = Live' \ Off("log")'
        /\ Off("log")' = {slot}
        /\ Linking = (IF r.pc = "link" THEN {r.op} ELSE {}) /\ Linking' = {}
        /\ \A u \in Tasks \ {"log"} : task'[u] = task[u] /\ task[u].pc \in {"idle", "take", "run"}
        /\ \A s \in Live : blocks[s].timer \/ (r.pc \in {"create", "remove"} /\ r.slot = s)
    BY <1>2, <1>4, WorksFrame
  <2>2. Off("log") = {slot}
    BY <1>1 DEF Off, slot
  <2>3. QED
    BY <1>1, <2>1, <2>2 DEF slot
<1>7. /\ blocks' \in Blocks /\ blocks'[slot].timer
      /\ \A s \in Slots : /\ blocks'[s].id = blocks[s].id /\ blocks'[s].ops = blocks[s].ops
                          /\ s # slot => blocks'[s].timer = blocks[s].timer
  BY <1>1, <1>2 DEF LogTyped, Blocks
<1>8. Live' = Live
  BY <1>7 DEF Live
<1>9. LogTyped'
  BY <1>1, <1>2, <1>5, <1>7 DEF LogTyped, timers
<1>10. Place("log")'
  BY <1>2, <1>5, <1>8 DEF Place, OnBlock
<1>11. UniqueIds'
  BY <1>7, UniqueStay DEF LogInv
<1>12. TimersKept'
  <2>1. ~asserted' /\ Timed'
    BY <1>1, <1>6, <1>7, <1>8 DEF LogInv, TimersKept, Timed, Live
  <2>2. StartedOnly'
    BY <1>1, <1>7, <1>8 DEF LogInv, TimersKept, StartedOnly, timers
  <2>3. \A u \in Tasks : task'[u].pc # "remove"
    BY <1>5, <1>6, Zenon
  <2>4. QED
    BY <1>1, <1>2, <1>5, <2>1, <2>2, <2>3 DEF TimersKept
<1>13. OpsKept'
  <2>1. Listed' = Listed
    BY <1>6, <1>8
  <2>2. QED
    BY <1>1, <1>5, <1>6, <1>7, <2>1, OpsSame
<1>14. FreshRun'
  <2>1. task'["worker"] = task["worker"]
    BY <1>6 DEF Tasks
  <2>2. r.pc \notin Ending
    BY <1>1 DEF Ending, Resetting
  <2>3. task["worker"].pc = "run" => task["worker"].slot \in Slots
    BY DEF LogInv, Places, Place, Tasks
  <2>4. QED
    BY <1>1, <1>7, <2>1, <2>2, <2>3, FreshStays DEF LogInv
<1>15. QED
  BY <1>2, <1>4, <1>9, <1>10, <1>11, <1>12, <1>13, <1>14, WorksInv

\* ClearOps: the slot has an empty list now, whatever its former block's was.
LEMMA ClearStep ==
  ASSUME LogInv, ClearOps
  PROVE  LogInv'
<1> DEFINE r == task["log"]
           slot == r.slot
<1>1. /\ r.pc = "clear" /\ blocks' = [blocks EXCEPT ![slot].ops = Null]
      /\ Goto("log", [r EXCEPT !.pc = "append"])
      /\ UNCHANGED <<ops, logLock, workQueue, timers, link, asserted, started>>
  BY DEF ClearOps, At, Log, log
<1>2. /\ LogTyped /\ TasksTyped /\ Shape(r) /\ Place("log") /\ "log" \in Tasks
      /\ slot \in Live /\ slot \in Slots /\ r.at = 0 /\ slot \notin started
  BY <1>1, TaskShape DEF Tasks, LogInv, Place, OnBlock, Resetting, Live, TimersKept
<1>3. Moved("log", "append", slot, r.op, 0)
  <2>1. Record([r EXCEPT !.pc = "append"], "append", slot, r.op, 0)
    BY <1>2, Records DEF Shape
  <2>2. QED
    BY <1>1, <1>2, <2>1, MovesTo
<1> HIDE DEF slot
<1>4. Works("log", "append", slot, r.op, 0)
  BY <1>1, <1>3 DEF Works
<1>5. /\ task'["log"].pc = "append" /\ task'["log"].slot = slot /\ task'["log"].at = 0
      /\ TasksTyped'
  BY <1>3 DEF Moved, Record
<1>6. /\ Listed = Live \ {slot} /\ Listed' = Live' /\ Linking = {} /\ Linking' = {}
      /\ \A u \in Tasks \ {"log"} : task'[u] = task[u] /\ task[u].pc \in {"idle", "take", "run"}
      /\ \A s \in Live : blocks[s].timer
  <2>1. /\ Listed = Live \ Off("log") /\ Listed' = Live' \ Off("log")'
        /\ Off("log")' = {}
        /\ Linking = (IF r.pc = "link" THEN {r.op} ELSE {}) /\ Linking' = {}
        /\ \A u \in Tasks \ {"log"} : task'[u] = task[u] /\ task[u].pc \in {"idle", "take", "run"}
        /\ \A s \in Live : blocks[s].timer \/ (r.pc \in {"create", "remove"} /\ r.slot = s)
    BY <1>2, <1>4, WorksFrame
  <2>2. Off("log") = {slot}
    BY <1>1 DEF Off, slot
  <2>3. QED
    BY <1>1, <2>1, <2>2
<1>7. /\ blocks' \in Blocks /\ blocks'[slot].ops = Null
      /\ \A s \in Slots : /\ blocks'[s].id = blocks[s].id /\ blocks'[s].timer = blocks[s].timer
                          /\ s # slot => blocks'[s].ops = blocks[s].ops
  <2>1. Null \in 0 .. LOG_MAX_OPS
    BY LogAssumption DEF Null
  <2>2. QED
    BY <1>1, <1>2, <2>1 DEF LogTyped, Blocks
<1>8. Live' = Live
  BY <1>7 DEF Live
<1>9. LogTyped'
  BY <1>1, <1>2, <1>5, <1>7 DEF LogTyped, timers
<1>10. Place("log")'
  BY <1>2, <1>5, <1>8 DEF Place, OnBlock
<1>11. UniqueIds'
  BY <1>7, UniqueStay DEF LogInv
<1>12. TimersKept'
  <2>1. ~asserted' /\ Timed'
    BY <1>1, <1>6, <1>7, <1>8 DEF LogInv, TimersKept, Timed, Live
  <2>2. StartedOnly'
    BY <1>1, <1>7, <1>8 DEF LogInv, TimersKept, StartedOnly, timers
  <2>3. \A u \in Tasks : task'[u].pc # "remove"
    BY <1>5, <1>6, Zenon
  <2>4. QED
    BY <1>5, <2>1, <2>2, <2>3 DEF TimersKept
<1>13. OpsKept'
  <2>1. /\ First \in Firsts /\ First' \in Firsts /\ First' = [First EXCEPT ![slot] = Null]
        /\ ops \in OpLists /\ Listed \in SUBSET Slots
    BY <1>2, <1>7 DEF LogTyped, First, Firsts, Blocks, Listed, Live
  <2>2. /\ ListsOf(ops, First, Listed, {}) /\ slot \notin Listed
        /\ Listed' = Listed \union {slot}
    BY <1>2, <1>6, <1>8 DEF LogInv, OpsKept
  <2>3. ListsOf(ops, First', Listed', {})
    BY <1>2, <2>1, <2>2, ListsOneMore
  <2>4. ListsOf(ops, First, Listed, Linking)'
    BY <1>1, <1>6, <2>3
  <2>5. QED
    BY <1>5, <2>4 DEF OpsKept
<1>14. FreshRun'
  <2>1. task'["worker"] = task["worker"]
    BY <1>6 DEF Tasks
  <2>2. r.pc \notin Ending
    BY <1>1 DEF Ending, Resetting
  <2>3. Live \subseteq Slots
    BY DEF Live
  <2>4. QED
    BY <1>1, <1>2, <1>7, <1>8, <2>1, <2>2, <2>3 DEF LogInv, FreshRun
<1>15. QED
  BY <1>2, <1>4, <1>9, <1>10, <1>11, <1>12, <1>13, <1>14, WorksInv

\* The list of a block is walked as before while no link changes.
LEMMA WalkStays ==
  ASSUME LogInv, ops' \in OpLists, \A o \in Ops : ops'[o].next = ops[o].next,
         NEW s \in Listed
  PROVE  /\ Walk(ops', blocks[s].ops) = Walk(ops, blocks[s].ops)
         /\ Len(Walk(ops, blocks[s].ops)) \in Nat
<1> DEFINE first == blocks[s].ops
           c == Walk(ops, first)
<1>1. /\ first = First[s] /\ first \in 0 .. LOG_MAX_OPS
  BY DEF First, Listed, Live, LogInv, LogTyped, Blocks
<1>2. Chain(ops, first, c) /\ Len(c) <= LOG_MAX_LEN
  BY <1>1 DEF LogInv, OpsKept, ListsOf
<1> HIDE DEF first, c
<1>3. Len(c) \in Nat
  BY <1>2, LenProperties DEF Chain
<1>4. Len(c) <= LOG_MAX_OPS
  BY <1>2, <1>3, LogAssumption
<1>5. ToSet(c) \subseteq Ops
  BY <1>2, ChainEnds
<1>6. Chain(ops', first, c)
  BY <1>2, <1>5, ChainSame
<1>7. Walk(ops', first) = c
  BY <1>1, <1>4, <1>6, WalkChain
<1>8. QED
  BY <1>3, <1>7 DEF c, first

\* FillOps: the op is in use, and on no list yet.
LEMMA FillStep ==
  ASSUME LogInv, FillOps
  PROVE  LogInv'
<1> DEFINE r == task["log"]
           slot == r.slot
           op == r.op
<1>1. /\ r.pc = "fill" /\ ops' = [ops EXCEPT ![op].used = TRUE]
      /\ Goto("log", [r EXCEPT !.pc = "link"])
      /\ UNCHANGED <<blocks, logLock, workQueue, timers, link, asserted, started>>
  BY DEF FillOps, At, Log, log
<1>2. /\ LogTyped /\ TasksTyped /\ Shape(r) /\ Place("log") /\ "log" \in Tasks
      /\ slot \in Live /\ slot \in Slots /\ r.at = 0
      /\ op \in Ops /\ ~ops[op].used /\ BlockCalcLength(slot) + 1 <= LOG_MAX_LEN
  BY <1>1, TaskShape DEF Tasks, LogInv, Place, OnBlock, Resetting, Live, OpsKept
<1>3. Moved("log", "link", slot, op, 0)
  <2>1. Record([r EXCEPT !.pc = "link"], "link", slot, op, 0)
    BY <1>2, Records DEF Shape
  <2>2. QED
    BY <1>1, <1>2, <2>1, MovesTo
<1> HIDE DEF slot, op
<1>4. Works("log", "link", slot, op, 0)
  BY <1>1, <1>3 DEF Works
<1>5. /\ task'["log"].pc = "link" /\ task'["log"].slot = slot /\ task'["log"].at = 0
      /\ task'["log"].op = op /\ TasksTyped'
  BY <1>3 DEF Moved, Record
<1>6. /\ Listed = Live /\ Listed' = Live' /\ Linking = {} /\ Linking' = {op}
      /\ \A u \in Tasks \ {"log"} : task'[u] = task[u] /\ task[u].pc \in {"idle", "take", "run"}
      /\ \A s \in Live : blocks[s].timer
  <2>1. /\ Listed = Live \ Off("log") /\ Listed' = Live' \ Off("log")'
        /\ Off("log")' = {}
        /\ Linking = (IF r.pc = "link" THEN {r.op} ELSE {}) /\ Linking' = {op}
        /\ \A u \in Tasks \ {"log"} : task'[u] = task[u] /\ task[u].pc \in {"idle", "take", "run"}
        /\ \A s \in Live : blocks[s].timer \/ (r.pc \in {"create", "remove"} /\ r.slot = s)
    BY <1>2, <1>4, WorksFrame
  <2>2. Off("log") = {}
    BY <1>1 DEF Off
  <2>3. QED
    BY <1>1, <2>1, <2>2
<1>7. /\ ops' \in OpLists
      /\ \A o \in Ops : /\ ops'[o].next = ops[o].next
                        /\ ops'[o].used <=> ops[o].used \/ o = op
  BY <1>1, <1>2 DEF LogTyped, OpLists
<1>8. Live' = Live
  BY <1>1 DEF Live
<1>9. LogTyped'
  BY <1>1, <1>2, <1>5, <1>7 DEF LogTyped, timers
<1>10. Place("log")'
  BY <1>2, <1>5, <1>8 DEF Place, OnBlock
<1>11. UniqueIds'
  BY <1>1, UniqueStay DEF LogInv
<1>12. TimersKept'
  <2>1. ~asserted' /\ Timed'
    BY <1>1, <1>6, <1>8 DEF LogInv, TimersKept, Timed, Live
  <2>2. StartedOnly'
    BY <1>1, <1>8 DEF LogInv, TimersKept, StartedOnly, timers
  <2>3. \A u \in Tasks : task'[u].pc # "remove"
    BY <1>5, <1>6, Zenon
  <2>4. QED
    BY <1>5, <2>1, <2>2, <2>3 DEF TimersKept
<1>13. OpsKept'
  <2>1. /\ \A o \in Ops : ops[o].used <=> \E s \in Listed : o \in OpsOf(s)
        /\ Listed' = Listed
    BY <1>6, <1>8, OpsListed
  <2>2. \A s \in Listed : op \notin OpsOf(s)
    BY <1>2, <2>1
  <2>3. \A o \in Ops : ops'[o].used <=> o \in Linking' \/ \E s \in Listed' : o \in OpsOf(s)
    BY <1>6, <1>7, <2>1
  <2>4. blocks' \in Blocks
    BY <1>1, <1>2 DEF LogTyped
  <2>5. ListsOf(ops, First, Listed, Linking)'
    BY <1>1, <1>6, <1>7, <2>1, <2>2, <2>3, <2>4, OpsStay
  <2>6. BlockCalcLength(task["log"].slot)' = BlockCalcLength(slot)
    BY <1>1, <1>2, <1>5, <1>6, <1>7, WalkStays DEF BlockCalcLength
  <2>7. QED
    BY <1>2, <1>5, <2>5, <2>6 DEF OpsKept
<1>14. FreshRun'
  <2>1. task'["worker"] = task["worker"]
    BY <1>6 DEF Tasks
  <2>2. r.pc \notin Ending
    BY <1>1 DEF Ending, Resetting
  <2>3. task["worker"].pc = "run" => task["worker"].slot \in Slots
    BY DEF LogInv, Places, Place, Tasks
  <2>4. QED
    BY <1>1, <2>1, <2>2, <2>3, FreshStays DEF LogInv
<1>15. QED
  BY <1>2, <1>4, <1>9, <1>10, <1>11, <1>12, <1>13, <1>14, WorksInv

\* LinkOps: the op is the last of its block's list.
LEMMA LinkStep ==
  ASSUME LogInv, LinkOps
  PROVE  LogInv'
<1> DEFINE r == task["log"]
           slot == r.slot
           op == r.op
<1>1. /\ r.pc = "link" /\ BlockAppendOps(slot, op)
      /\ Goto("log", [r EXCEPT !.pc = "append", !.command.settings = Tail(@), !.op = Null])
      /\ UNCHANGED <<logLock, workQueue, timers, link, asserted, started>>
  BY DEF LinkOps, At, log
<1>2. /\ LogTyped /\ TasksTyped /\ Shape(r) /\ Place("log") /\ "log" \in Tasks
      /\ slot \in Live /\ slot \in Slots /\ r.at = 0
      /\ op \in Ops /\ BlockCalcLength(slot) + 1 <= LOG_MAX_LEN
  BY <1>1, TaskShape DEF Tasks, LogInv, Place, OnBlock, Resetting, Live, OpsKept
<1>3. Moved("log", "append", slot, Null, 0)
  BY <1>1, <1>2, AppendRecord, MovesTo
<1> HIDE DEF slot, op
<1>4. Works("log", "append", slot, Null, 0)
  BY <1>1, <1>3 DEF Works
<1>5. /\ task'["log"].pc = "append" /\ task'["log"].slot = slot /\ task'["log"].at = 0
      /\ TasksTyped'
  BY <1>3 DEF Moved, Record
<1>6. /\ Listed = Live /\ Listed' = Live' /\ Linking = {op} /\ Linking' = {}
      /\ \A u \in Tasks \ {"log"} : task'[u] = task[u] /\ task[u].pc \in {"idle", "take", "run"}
      /\ \A s \in Live : blocks[s].timer
  <2>1. /\ Listed = Live \ Off("log") /\ Listed' = Live' \ Off("log")'
        /\ Off("log")' = {}
        /\ Linking = (IF r.pc = "link" THEN {r.op} ELSE {}) /\ Linking' = {}
        /\ \A u \in Tasks \ {"log"} : task'[u] = task[u] /\ task[u].pc \in {"idle", "take", "run"}
        /\ \A s \in Live : blocks[s].timer \/ (r.pc \in {"create", "remove"} /\ r.slot = s)
    BY <1>2, <1>4, WorksFrame
  <2>2. Off("log") = {}
    BY <1>1 DEF Off
  <2>3. QED
    BY <1>1, <2>1, <2>2 DEF op
<1>7. \/ /\ blocks[slot].ops = Null
         /\ blocks' = [blocks EXCEPT ![slot].ops = op]
         /\ ops' = [ops EXCEPT ![op].next = Null]
      \/ /\ blocks[slot].ops # Null /\ blocks' = blocks
         /\ ops' = [ops EXCEPT ![op].next = Null, ![Last(Walk(ops, blocks[slot].ops))].next = op]
  BY <1>1 DEF BlockAppendOps
<1>8. /\ blocks' \in Blocks
      /\ \A s \in Slots : /\ blocks'[s].id = blocks[s].id /\ blocks'[s].timer = blocks[s].timer
                          /\ s # slot \/ blocks[s].ops # Null => blocks'[s].ops = blocks[s].ops
  <2>1. op \in 0 .. LOG_MAX_OPS
    BY <1>2, LogAssumption DEF Ops
  <2>2. CASE blocks' = blocks
    BY <1>2, <2>2 DEF LogTyped
  <2>3. CASE blocks[slot].ops = Null /\ blocks' = [blocks EXCEPT ![slot].ops = op]
    BY <1>2, <2>1, <2>3 DEF LogTyped, Blocks
  <2>4. QED
    BY <1>7, <2>2, <2>3
<1>9. ops' \in OpLists
  <2>1. /\ op \in 0 .. LOG_MAX_OPS /\ Null \in 0 .. LOG_MAX_OPS /\ ops \in OpLists
    BY <1>2, LogAssumption DEF Ops, Null, LogTyped
  <2> DEFINE last == Last(Walk(ops, blocks[slot].ops))
             cut == [ops EXCEPT ![op].next = Null]
  <2>2. cut \in OpLists
    BY <1>2, <2>1 DEF OpLists
  <2>3. [ops EXCEPT ![op].next = Null, ![last].next = op] = [cut EXCEPT ![last].next = op]
    BY Zenon
  <2> HIDE DEF last, cut
  <2>4. [cut EXCEPT ![last].next = op] \in OpLists
    BY <2>1, <2>2 DEF OpLists
  <2>5. QED
    BY <1>7, <2>2, <2>3, <2>4 DEF cut, last
<1>10. Live' = Live
  BY <1>8 DEF Live
<1>11. LogTyped'
  BY <1>1, <1>2, <1>5, <1>8, <1>9 DEF LogTyped, timers
<1>12. Place("log")'
  BY <1>2, <1>5, <1>10 DEF Place, OnBlock
<1>13. UniqueIds'
  BY <1>8, UniqueStay DEF LogInv
<1>14. TimersKept'
  <2>1. ~asserted' /\ Timed'
    BY <1>1, <1>6, <1>8, <1>10 DEF LogInv, TimersKept, Timed, Live
  <2>2. StartedOnly'
    BY <1>1, <1>8, <1>10 DEF LogInv, TimersKept, StartedOnly, timers
  <2>3. \A u \in Tasks : task'[u].pc # "remove"
    BY <1>5, <1>6, Zenon
  <2>4. QED
    BY <1>5, <2>1, <2>2, <2>3 DEF TimersKept
<1>15. OpsKept'
  <2>1. /\ First \in Firsts /\ First' \in Firsts /\ ops \in OpLists /\ Listed \in SUBSET Slots
        /\ First[slot] = blocks[slot].ops
    BY <1>2, <1>8 DEF LogTyped, First, Firsts, Blocks, Listed, Live
  <2>2. /\ ListsOf(ops, First, Listed, {op}) /\ slot \in Listed
        /\ Listed' = Listed
    BY <1>2, <1>6, <1>10 DEF LogInv, OpsKept
  <2>3. Len(Walk(ops, First[slot])) + 1 <= LOG_MAX_LEN
    BY <1>2, <2>1 DEF BlockCalcLength
  <2>4. \/ /\ First[slot] = Null
           /\ First' = [First EXCEPT ![slot] = op] /\ ops' = [ops EXCEPT ![op].next = Null]
        \/ /\ First[slot] # Null /\ First' = First
           /\ ops' = [ops EXCEPT ![op].next = Null, ![Last(Walk(ops, First[slot]))].next = op]
    <3>1. CASE blocks[slot].ops = Null
      <4>1. /\ blocks' = [blocks EXCEPT ![slot].ops = op]
            /\ ops' = [ops EXCEPT ![op].next = Null]
        BY <1>7, <3>1
      <4>2. First' = [First EXCEPT ![slot] = op]
        BY <1>2, <4>1 DEF First, LogTyped, Blocks
      <4>3. QED
        BY <2>1, <3>1, <4>1, <4>2
    <3>2. CASE blocks[slot].ops # Null
      <4>1. /\ blocks' = blocks
            /\ ops' = [ops EXCEPT ![op].next = Null,
                                  ![Last(Walk(ops, blocks[slot].ops))].next = op]
        BY <1>7, <3>2
      <4>2. First' = First
        BY <4>1 DEF First
      <4>3. QED
        BY <2>1, <3>2, <4>1, <4>2
    <3>3. QED
      BY <3>1, <3>2
  <2>5. ListsOf(ops', First', Listed, {})
    <3>1. op \in Ops
      BY <1>2
    <3> HIDE DEF slot, op
    <3>2. QED
      BY <1>9, <2>1, <2>2, <2>3, <2>4, <3>1, ListsAppend
  <2>6. ListsOf(ops, First, Listed, Linking)'
    BY <1>6, <2>2, <2>5
  <2>7. QED
    BY <1>5, <2>6 DEF OpsKept
<1>16. FreshRun'
  <2>1. task'["worker"] = task["worker"]
    BY <1>6 DEF Tasks
  <2>2. r.pc \notin Ending
    BY <1>1 DEF Ending, Resetting
  <2>3. Live \subseteq Slots
    BY DEF Live
  <2>4. QED
    BY <1>1, <1>8, <1>10, <2>1, <2>2, <2>3 DEF LogInv, FreshRun
<1>17. QED
  BY <1>2, <1>4, <1>11, <1>12, <1>13, <1>14, <1>15, <1>16, WorksInv

-----------------------------------------------------------------------------
(* The steps outside the work on the blocks *)

\* A step that takes nothing up and leaves nothing half done.
LEMMA OuterStep ==
  ASSUME LogInv, NEW t \in Tasks,
         blocks' = blocks, ops' = ops, started' = started, asserted' = asserted,
         \A u \in Tasks \ {t} : task'[u] = task[u],
         \/ task'[t] = task[t]
         \/ /\ task[t].pc \in {"idle", "take", "run", "reply"}
            /\ task'[t].pc \in {"idle", "take", "begin", "run", "reset"},
         \A s \in Slots : Bound(timerQueue', active', s) => Bound(timerQueue, active, s),
         LogTyped', Turns', Places', FreshRun'
  PROVE  LogInv'
<1> DEFINE Inner == {"create", "clear", "fill", "link", "period", "start", "stop", "delete", "remove"}
<1>1. \A u \in Tasks : task'[u] = task[u] \/ (task[u].pc \notin Inner /\ task'[u].pc \notin Inner)
  OBVIOUS
<1>2. Live' = Live
  BY DEF Live
<1>3. UniqueIds'
  BY UniqueStay DEF LogInv
<1>4. \A u \in Tasks : Off(u)' = Off(u)
  BY <1>1 DEF Off
<1>5. Listed' = Listed /\ Linking' = Linking
  BY <1>1, <1>2, <1>4 DEF Listed, Linking, Tasks
<1>6. TimersKept'
  <2>1. ~asserted' /\ TimersKept
    BY DEF LogInv, TimersKept
  <2>2. Timed'
    <3>1. ASSUME NEW s \in Live, ~blocks[s].timer
          PROVE  \E u \in Tasks : task'[u].pc \in {"create", "remove"} /\ task'[u].slot = s
      <4>1. PICK u \in Tasks : task[u].pc \in {"create", "remove"} /\ task[u].slot = s
        BY <2>1, <3>1, Zenon DEF TimersKept, Timed
      <4>2. task'[u] = task[u]
        BY <1>1, <4>1
      <4>3. QED
        BY <4>1, <4>2, Zenon
    <3>2. QED
      BY <1>2, <3>1, Zenon DEF Timed
  <2>3. StartedOnly'
    BY <1>2, <2>1 DEF TimersKept, StartedOnly
  <2>4. \A u \in Tasks : task'[u].pc = "remove" => ~blocks'[task'[u].slot].timer
    <3>1. ASSUME NEW u \in Tasks, task'[u].pc = "remove" PROVE ~blocks'[task'[u].slot].timer
      <4>1. task'[u] = task[u]
        BY <1>1, <3>1
      <4>2. QED
        BY <2>1, <3>1, <4>1, Zenon DEF TimersKept
    <3>2. QED
      BY <3>1
  <2>5. /\ task'["log"].pc \in {"period", "start"} => task'["log"].slot \in started'
        /\ task'["log"].pc \in {"create", "clear"} => task'["log"].slot \notin started'
    BY <1>1, <2>1 DEF TimersKept, Tasks
  <2>6. QED
    BY <2>1, <2>2, <2>3, <2>4, <2>5 DEF TimersKept
<1>7. OpsKept'
  <2>1. /\ blocks' \in Blocks
        /\ \A s \in Listed \ Listed' : OpsOf(s) = {}
    BY <1>5 DEF LogTyped
  <2>2. task'["log"] = task["log"] \/ task'["log"].pc \notin {"fill", "link"}
    BY <1>1 DEF Tasks
  <2>3. QED
    BY <1>5, <2>1, <2>2, OpsSame
<1>8. QED
  BY <1>3, <1>6, <1>7 DEF LogInv

\* The tasks stay where they are.
LEMMA NoTaskStep ==
  ASSUME LogInv, task' = task, logLock' = logLock,
         blocks' = blocks, ops' = ops, started' = started, asserted' = asserted,
         active' \subseteq Slots, workQueue' \in Seq(Slots), timerQueue' \in Seq(TimerCommands),
         \A s \in Slots : Bound(timerQueue', active', s) => Bound(timerQueue, active, s)
  PROVE  LogInv'
<1>1. "log" \in Tasks
  BY DEF Tasks
<1>2. Live' = Live
  BY DEF Live
<1>3. LogTyped'
  BY DEF LogInv, LogTyped, TasksTyped
<1>4. Turns'
  BY DEF LogInv, Turns
<1>5. Places'
  BY <1>2 DEF LogInv, Places, Place
<1>7. FreshRun'
  BY <1>2 DEF LogInv, FreshRun
<1>8. QED
  BY <1>1, <1>3, <1>4, <1>5, <1>7, OuterStep

\* When the LOG task goes on without the lock, the worker is out or waits in its reset.
LEMMA WorkerOut ==
  ASSUME LogInv, WorkerWaits, task["log"].pc \in {"idle", "take"}
  PROVE  task["worker"].pc \in {"idle", "halt", "stop", "delete"}
<1>1. logLock = "free"
  BY DEF LogInv, Turns
<1>2. QED
  BY <1>1 DEF WorkerWaits

\* ReceiveCommand: the LOG task is outside the lock still.
LEMMA ReceiveStep ==
  ASSUME LogInv, WorkerWaits, ReceiveCommand
  PROVE  LogInv'
<1> DEFINE r == task["log"]
<1>1. /\ r.pc = "idle" /\ Goto("log", [r EXCEPT !.pc = "take"])
      /\ UNCHANGED <<blocks, ops, logLock, workQueue, timers, link, asserted, started>>
  BY DEF ReceiveCommand, At, Log, log
<1>2. /\ TasksTyped /\ LogTyped /\ Shape(r) /\ r.at = 0 /\ "log" \in Tasks /\ "worker" \in Tasks
  BY <1>1, TaskShape DEF Tasks, LogInv, Place, Resetting
<1>3. Record([r EXCEPT !.pc = "take"], "take", r.slot, r.op, 0)
  BY <1>2, Records DEF Shape
<1>4. /\ task'["log"].pc = "take" /\ task'["log"].at = 0 /\ TasksTyped'
      /\ \A u \in Tasks \ {"log"} : task'[u] = task[u]
  BY <1>1, <1>2, <1>3, GoesTo DEF Record
<1>5. /\ task["worker"].pc \in {"idle", "halt", "stop", "delete"}
      /\ task'["worker"] = task["worker"]
  BY <1>1, <1>2, <1>4, WorkerOut DEF Tasks
<1>6. Live' = Live /\ timerQueue' = timerQueue /\ active' = active
  BY <1>1 DEF Live, timers
<1>7. LogTyped'
  BY <1>1, <1>2, <1>4 DEF LogTyped, timers
<1>8. Turns'
  BY <1>1, <1>4, <1>5 DEF LogInv, Turns, Resetting
<1>9. Places'
  <2>1. Place("log")'
    BY <1>4 DEF Place, OnBlock
  <2>2. Place("worker")'
    BY <1>5, <1>6 DEF LogInv, Places, Place, Tasks
  <2>3. QED
    BY <2>1, <2>2 DEF Places, Tasks
<1>10. FreshRun'
  BY <1>5 DEF FreshRun
<1>11. QED
  BY <1>1, <1>2, <1>4, <1>6, <1>7, <1>8, <1>9, <1>10, OuterStep

\* TakeLock: in time, the worker is in no reset.
LEMMA TakeLockStep ==
  ASSUME LogInv, Timely', WorkerWaits, TakeLock
  PROVE  LogInv'
<1> DEFINE r == task["log"]
<1>1. PICK command \in Commands :
        /\ r.pc = "take" /\ logLock' = "log"
        /\ Goto("log", [r EXCEPT !.pc = "begin", !.command = command])
        /\ UNCHANGED <<blocks, ops, workQueue, timers, link, asserted, started>>
  BY DEF TakeLock, At, log
<1> DEFINE next == [r EXCEPT !.pc = "begin", !.command = command]
<1>2. /\ TasksTyped /\ LogTyped /\ Shape(r) /\ r.at = 0 /\ "log" \in Tasks /\ "worker" \in Tasks
  BY <1>1, TaskShape DEF Tasks, LogInv, Place, Resetting
<1>3. Record(next, "begin", r.slot, r.op, 0) /\ next.command = command
  <2> DEFINE p == [r EXCEPT !.pc = "begin"]
  <2>1. next = [p EXCEPT !.command = command]
    BY Zenon
  <2>2. Record(p, "begin", r.slot, r.op, 0)
    BY <1>2, Records DEF Shape
  <2> HIDE DEF p
  <2>3. Shape(p) /\ p.pc = "begin" /\ p.slot = r.slot /\ p.op = r.op /\ p.at = 0
    BY <2>2 DEF Record
  <2> HIDE DEF next
  <2>4. next = [pc |-> p.pc, command |-> command, slot |-> p.slot, op |-> p.op, at |-> p.at,
                fresh |-> p.fresh]
    BY <2>1, <2>3 DEF Shape
  <2>5. Record(next, "begin", r.slot, r.op, 0)
    BY <2>3, <2>4, Fields DEF Shape
  <2>6. next.command = command
    BY <2>4
  <2>7. QED
    BY <2>5, <2>6
<1> HIDE DEF next
<1>4. /\ task'["log"] = next
      /\ task'["log"].pc = "begin" /\ task'["log"].at = 0 /\ TasksTyped'
      /\ \A u \in Tasks \ {"log"} : task'[u] = task[u]
  <2>1. Goto("log", next)
    BY <1>1 DEF next
  <2>2. QED
    BY <1>2, <1>3, <2>1, GoesTo DEF Record
<1>5. task'["log"].command = command
  BY <1>3, <1>4
<1>6. task["worker"].pc = "idle" /\ task'["worker"] = task["worker"]
  <2>1. task["worker"].pc \in {"idle", "run"}
    BY DEF Timely, TakeLock
  <2>2. QED
    BY <1>1, <1>2, <1>4, <2>1, WorkerOut DEF Tasks
<1>7. Live' = Live /\ timerQueue' = timerQueue /\ active' = active
  BY <1>1 DEF Live, timers
<1>8. LogTyped'
  BY <1>1, <1>2, <1>4 DEF LogTyped, timers
<1>9. Turns'
  BY <1>1, <1>4, <1>5, <1>6 DEF LogInv, Turns, Resetting
<1>10. Places'
  <2>1. Place("log")'
    BY <1>4 DEF Place, OnBlock
  <2>2. Place("worker")'
    BY <1>6, <1>7 DEF LogInv, Places, Place, Tasks
  <2>3. QED
    BY <2>1, <2>2 DEF Places, Tasks
<1>11. FreshRun'
  BY <1>4, <1>6 DEF FreshRun
<1>12. QED
  BY <1>1, <1>2, <1>4, <1>7, <1>8, <1>9, <1>10, <1>11, OuterStep

\* Reply: the command has left nothing half done.
LEMMA ReplyStep ==
  ASSUME LogInv, Reply
  PROVE  LogInv'
<1>1. /\ task["log"].pc = "reply" /\ logLock' = "free" /\ Goto("log", Idle)
      /\ UNCHANGED <<blocks, ops, workQueue, timers, asserted, started>>
  BY DEF Reply, At, log
<1>2. /\ TasksTyped /\ LogTyped /\ "log" \in Tasks /\ "worker" \in Tasks
  BY TaskShape DEF Tasks, LogInv
<1>3. /\ task'["log"].pc = "idle" /\ task'["log"].at = 0 /\ TasksTyped'
      /\ \A u \in Tasks \ {"log"} : task'[u] = task[u]
  BY <1>1, <1>2, IdleRecord, GoesTo DEF Record
<1>4. task'["worker"] = task["worker"] /\ task["worker"].pc \in {"idle", "run"}
  BY <1>1, <1>3 DEF LogInv, Turns, Tasks
<1>5. Live' = Live /\ timerQueue' = timerQueue /\ active' = active
  BY <1>1 DEF Live, timers
<1>6. LogTyped'
  BY <1>1, <1>2, <1>3 DEF LogTyped, timers
<1>7. Turns'
  BY <1>1, <1>3, <1>4 DEF Turns
<1>8. Places'
  <2>1. Place("log")'
    BY <1>3 DEF Place, OnBlock
  <2>2. Place("worker")'
    BY <1>4, <1>5 DEF LogInv, Places, Place, Tasks
  <2>3. QED
    BY <2>1, <2>2 DEF Places, Tasks
<1>10. FreshRun'
  BY <1>1, <1>3, <1>4, <1>5 DEF LogInv, FreshRun, Ending
<1>11. QED
  BY <1>1, <1>2, <1>3, <1>5, <1>6, <1>7, <1>8, <1>10, OuterStep

\* TakeWork: the worker takes the slot with what is on it.
LEMMA TakeWorkStep ==
  ASSUME LogInv, TakeWork
  PROVE  LogInv'
<1> DEFINE slot == Head(workQueue)
           fresh == blocks[slot].id # Free /\ slot \in started /\ blocks[slot].ops # Null
           next == [Idle EXCEPT !.pc = "run", !.slot = slot, !.op = blocks[slot].ops, !.fresh = fresh]
<1>1. /\ task["worker"].pc = "idle" /\ workQueue # <<>> /\ workQueue' = Tail(workQueue)
      /\ Goto("worker", next)
      /\ UNCHANGED <<blocks, ops, logLock, timers, link, asserted, started>>
  BY Zenon DEF TakeWork
<1>2. /\ TasksTyped /\ LogTyped /\ "log" \in Tasks /\ "worker" \in Tasks
  BY TaskShape DEF Tasks, LogInv
<1>3. slot \in Slots /\ workQueue' \in Seq(Slots)
  BY <1>1, <1>2, HeadTailProperties DEF LogTyped
<1>4. slot \in 0 .. LOG_MAX_BLOCKS /\ blocks[slot].ops \in 0 .. LOG_MAX_OPS
  BY <1>2, <1>3, LogAssumption DEF Slots, LogTyped, Blocks
<1>5. fresh \in BOOLEAN
  OBVIOUS
<1> HIDE DEF slot, fresh
<1>6. Record(next, "run", slot, blocks[slot].ops, 0) /\ next.fresh = fresh
  <2> DEFINE p == [Idle EXCEPT !.pc = "run", !.slot = slot]
             q == [p EXCEPT !.op = blocks[slot].ops]
  <2>1. next = [q EXCEPT !.fresh = fresh]
    BY Zenon
  <2>2. /\ Shape(Idle) /\ Idle.op = 0 /\ Idle.at = 0
        /\ 0 \in 0 .. LOG_MAX_OPS /\ 0 \in 0 .. LOG_MAX_BLOCKS + 1
    BY IdleRecord, LogAssumption DEF Record
  <2>3. Record(p, "run", slot, 0, 0)
    <3>1. Record(p, "run", slot, Idle.op, Idle.at)
      BY <1>4, <2>2, Records
    <3>2. QED
      BY <2>2, <3>1
  <2> HIDE DEF p
  <2>4. Shape(p) /\ p.pc = "run" /\ p.slot = slot /\ p.at = 0
    BY <2>3 DEF Record
  <2>5. Record(q, p.pc, p.slot, blocks[slot].ops, p.at)
    BY <1>4, <2>4, FieldSet DEF Shape
  <2> HIDE DEF q
  <2>6. Shape(q) /\ q.pc = "run" /\ q.slot = slot /\ q.op = blocks[slot].ops /\ q.at = 0
    BY <2>4, <2>5 DEF Record
  <2> HIDE DEF next
  <2>7. next = [pc |-> q.pc, command |-> q.command, slot |-> q.slot, op |-> q.op, at |-> q.at,
                fresh |-> fresh]
    BY <2>1, <2>6 DEF Shape
  <2>8. Record(next, "run", slot, blocks[slot].ops, 0)
    BY <1>4, <1>5, <2>2, <2>6, <2>7, Fields
  <2>9. next.fresh = fresh
    BY <2>7
  <2>10. QED
    BY <2>8, <2>9
<1> HIDE DEF next
<1>7. /\ task'["worker"] = next /\ task'["worker"].pc = "run" /\ task'["worker"].at = 0
      /\ task'["worker"].slot = slot /\ task'["worker"].op = blocks[slot].ops
      /\ task'["worker"].fresh = fresh /\ TasksTyped'
      /\ \A u \in Tasks \ {"worker"} : task'[u] = task[u]
  BY <1>1, <1>2, <1>6, GoesTo DEF Record
<1>8. /\ Live' = Live /\ timerQueue' = timerQueue /\ active' = active
      /\ task'["log"] = task["log"]
  BY <1>1, <1>7 DEF Live, timers, Tasks
<1>9. LogTyped'
  BY <1>1, <1>2, <1>3, <1>7 DEF LogTyped, timers
<1>10. Turns'
  BY <1>1, <1>7, <1>8 DEF LogInv, Turns, Resetting
<1>11. Places'
  <2>1. Place("worker")'
    BY <1>3, <1>7 DEF Place, OnBlock, Resetting
  <2>2. Place("log")'
    BY <1>8 DEF LogInv, Places, Place, Tasks
  <2>3. QED
    BY <2>1, <2>2 DEF Places, Tasks
<1>13. FreshRun'
  <2>1. fresh => slot \in Live \cap started /\ blocks[slot].ops # Null
    BY <1>3 DEF fresh, Live
  <2>2. QED
    BY <1>1, <1>7, <1>8, <2>1 DEF FreshRun
<1>14. QED
  BY <1>1, <1>2, <1>7, <1>8, <1>9, <1>10, <1>11, <1>13, OuterStep

\* RunBlock: the LOG task is out when the worker begins to reset.
LEMMA RunStep ==
  ASSUME LogInv, RunBlock
  PROVE  LogInv'
<1> DEFINE pc == IF connected THEN "idle" ELSE "reset"
           at == IF connected THEN 0 ELSE 1
<1>1. /\ task["worker"].pc = "run" /\ logLock = "free"
      /\ Goto("worker", IF connected THEN Idle ELSE [Idle EXCEPT !.pc = "reset", !.at = 1])
      /\ UNCHANGED <<blocks, ops, logLock, workQueue, timers, asserted, started>>
  BY DEF RunBlock
<1>2. /\ TasksTyped /\ LogTyped /\ "log" \in Tasks /\ "worker" \in Tasks
  BY TaskShape DEF Tasks, LogInv
<1>3. Moved("worker", pc, 0, 0, at)
  <2>1. /\ Shape(Idle) /\ Idle.slot = 0 /\ Idle.op = 0 /\ 1 \in 0 .. LOG_MAX_BLOCKS + 1
        /\ 0 \in 0 .. LOG_MAX_BLOCKS /\ 0 \in 0 .. LOG_MAX_OPS
    BY IdleRecord, LogAssumption DEF Record
  <2>2. Record([Idle EXCEPT !.pc = "reset", !.at = 1], "reset", Idle.slot, Idle.op, 1)
    BY <2>1, Records
  <2>3. CASE connected
    BY <1>1, <1>2, <2>3, IdleRecord, MovesTo
  <2>4. CASE ~connected
    <3>1. Goto("worker", [Idle EXCEPT !.pc = "reset", !.at = 1])
      BY <1>1, <2>4
    <3>2. Moved("worker", "reset", 0, 0, 1)
      BY <1>2, <2>1, <2>2, <3>1, MovesTo
    <3>3. QED
      BY <2>4, <3>2
  <2>5. QED
    BY <2>3, <2>4
<1>4. pc \in {"idle", "reset"} /\ (pc = "reset" => at = 1) /\ (pc = "idle" => at = 0)
  OBVIOUS
<1> HIDE DEF pc, at
<1>5. /\ task'["worker"].pc = pc /\ task'["worker"].at = at /\ TasksTyped'
      /\ \A u \in Tasks \ {"worker"} : task'[u] = task[u]
  BY <1>3 DEF Moved, Record
<1>6. /\ Live' = Live /\ timerQueue' = timerQueue /\ active' = active
      /\ task'["log"] = task["log"] /\ task["log"].pc \in {"idle", "take"}
  BY <1>1, <1>5 DEF Live, timers, Tasks, LogInv, Turns
<1>7. LogTyped'
  BY <1>1, <1>2, <1>5 DEF LogTyped, timers
<1>8. Turns'
  BY <1>1, <1>4, <1>5, <1>6 DEF LogInv, Turns, Resetting
<1>9. Places'
  <2>1. Place("worker")'
    <3>1. \A s \in Live' : 1 <= s
      BY LogAssumption DEF Live, Slots
    <3>2. QED
      BY <1>4, <1>5, <3>1 DEF Place, OnBlock, Resetting
  <2>2. Place("log")'
    BY <1>6 DEF LogInv, Places, Place, Tasks
  <2>3. QED
    BY <2>1, <2>2 DEF Places, Tasks
<1>11. FreshRun'
  BY <1>4, <1>5 DEF FreshRun
<1>12. QED
  BY <1>1, <1>2, <1>4, <1>5, <1>6, <1>7, <1>8, <1>9, <1>11, OuterStep

\* TimerCommand: the timer task carries out what was sent.
LEMMA CommandStep ==
  ASSUME LogInv, Timely, TimerCommand
  PROVE  LogInv'
<1>1. /\ timerQueue # <<>> /\ timerQueue' = Tail(timerQueue)
      /\ active' = IF Head(timerQueue).command = "start" THEN active \union {Head(timerQueue).slot}
                   ELSE active \ {Head(timerQueue).slot}
      /\ UNCHANGED <<blocks, ops, logLock, task, workQueue, link, asserted, started>>
  BY DEF TimerCommand, Running, Timely
<1>2. timerQueue \in Seq(TimerCommands) /\ active \subseteq Slots /\ workQueue \in Seq(Slots)
  BY DEF LogInv, LogTyped
<1>3. /\ Head(timerQueue) \in TimerCommands /\ timerQueue' \in Seq(TimerCommands)
      /\ Len(timerQueue') <= Len(timerQueue)
  BY <1>1, <1>2, HeadTailProperties
<1>4. active' \subseteq Slots
  BY <1>1, <1>2, <1>3 DEF TimerCommands
<1>5. \A s \in Slots : Bound(timerQueue', active', s) => Bound(timerQueue, active, s)
  BY <1>1, <1>2, BoundTail
<1>6. QED
  BY <1>1, <1>2, <1>3, <1>4, <1>5, NoTaskStep

\* TimerExpires: the worker gets the slot.
LEMMA ExpiresStep ==
  ASSUME LogInv, Timely, NEW s \in Slots, TimerExpires(s)
  PROVE  LogInv'
<1>1. /\ Schedule(s) /\ timerQueue' = timerQueue /\ active' = active
      /\ UNCHANGED <<blocks, ops, logLock, task, asserted, started>>
  BY DEF TimerExpires, Running, Timely
<1>2. timerQueue \in Seq(TimerCommands) /\ active \subseteq Slots /\ workQueue \in Seq(Slots)
  BY DEF LogInv, LogTyped
<1>3. workQueue' \in Seq(Slots) /\ Len(timerQueue) \in Nat
  BY <1>1, <1>2, Schedules, LenProperties
<1>4. QED
  BY <1>1, <1>2, <1>3, NoTaskStep

-----------------------------------------------------------------------------
(* The theorems *)

\* At the start there is no block.
LEMMA LogStart ==
  ASSUME Init
  PROVE  LogInv
<1>1. /\ blocks = [s \in Slots |-> [id |-> Free, timer |-> FALSE, ops |-> Null]]
      /\ ops = [o \in Ops |-> [used |-> FALSE, next |-> Null]]
      /\ logLock = "free" /\ task = [t \in Tasks |-> Idle]
      /\ workQueue = <<>> /\ timerQueue = <<>> /\ active = {}
      /\ ~asserted /\ started = {}
  BY DEF Init, Ops, Tasks
<1>2. /\ Shape(Idle) /\ Idle.pc = "idle" /\ Idle.slot = 0 /\ Idle.op = 0 /\ Idle.at = 0
  BY IdleRecord DEF Record
<1>3. Live = {} /\ Listed = {} /\ Linking = {}
  BY <1>1, <1>2 DEF Live, Listed, Linking, Tasks
<1>4. \A t \in Tasks : task[t].pc = "idle" /\ task[t].at = 0 /\ Shape(task[t])
  BY <1>1, <1>2
<1>5. task["log"].pc = "idle" /\ task["worker"].pc = "idle"
  BY <1>4 DEF Tasks
<1>6. LogTyped
  <2>1. Null \in 0 .. LOG_MAX_OPS
    BY LogAssumption DEF Null
  <2>2. blocks \in Blocks /\ ops \in OpLists
    BY <1>1, <2>1 DEF Blocks, OpLists
  <2>3. TasksTyped
    BY <1>1, <1>4 DEF TasksTyped
  <2>4. workQueue \in Seq(Slots) /\ timerQueue \in Seq(TimerCommands)
    BY <1>1
  <2>5. QED
    BY <1>1, <2>2, <2>3, <2>4 DEF LogTyped
<1>7. Turns /\ Places /\ UniqueIds
  BY <1>1, <1>3, <1>4, <1>5 DEF Turns, Places, Place, OnBlock, Resetting, UniqueIds
<1>8. TimersKept
  <2>1. \A s \in Slots : ~Bound(timerQueue, active, s)
    BY <1>1 DEF Bound
  <2>2. QED
    BY <1>1, <1>3, <1>4, <1>5, <2>1 DEF TimersKept, Timed, StartedOnly
<1>9. FreshRun
  BY <1>5 DEF FreshRun
<1>10. OpsKept
  <2>1. ListsOf(ops, First, {}, {})
    BY <1>1 DEF ListsOf
  <2>2. QED
    BY <1>3, <1>5, <2>1 DEF OpsKept
<1>11. QED
  BY <1>6, <1>7, <1>8, <1>9, <1>10 DEF LogInv

\* Each step keeps the invariant.
LEMMA LogStep ==
  ASSUME LogInv, Timely, Timely', [Next]_vars
  PROVE  LogInv'
<1>1. "log" \in Tasks /\ "worker" \in Tasks
  BY DEF Tasks
<1>2. CASE LogSteps
  BY <1>1, <1>2, DeleteOrResetStep, ReceiveStep, TakeLockStep, TocStep, FindStep, CreateStep,
     CreateTimerStep, ClearStep, AppendStep, FillStep, LinkStep, TimerStep, ScheduleStep, BeginStep,
     ReplyStep
  DEF LogSteps, LogTask
<1>3. CASE WorkerSteps
  BY <1>1, <1>3, TakeWorkStep, RunStep, DeleteOrResetStep DEF WorkerSteps, Worker
<1>4. CASE TimerSteps
  BY <1>4, CommandStep, ExpiresStep DEF TimerSteps
<1>5. CASE LinkChanges \/ Transmit \/ UNCHANGED vars
  <2>1. /\ task' = task /\ logLock' = logLock /\ blocks' = blocks /\ ops' = ops
        /\ started' = started /\ asserted' = asserted /\ active' = active
        /\ workQueue' = workQueue /\ timerQueue' = timerQueue
    BY <1>5 DEF LinkChanges, Transmit, vars, timers
  <2>2. /\ active \subseteq Slots /\ workQueue \in Seq(Slots) /\ timerQueue \in Seq(TimerCommands)
        /\ Len(timerQueue) \in Nat
    BY LenProperties DEF LogInv, LogTyped
  <2>3. QED
    BY <2>1, <2>2, NoTaskStep
<1>6. QED
  BY <1>2, <1>3, <1>4, <1>5 DEF Next

\* What has been overtaken remains so.
LEMMA LateStays == [Next]_vars /\ Timely' => Timely
  BY DEF Timely, vars, Next, LogSteps, LogTask, DeleteOrReset, WorkerSteps, Worker, TimerSteps,
     LinkChanges, Transmit, ReceiveCommand, TakeLock, Toc, FindBlock, CreateBlock, CreateTimer,
     ClearOps, AppendNext, FillOps, LinkOps, ChangePeriod, StartTimer, ScheduleRun, BeginReset, Reply,
     TakeWork, RunBlock, FreeBlockOps, Release, StopTimer, DeleteTimer, RemoveBlock, ResetNext,
     HaltBlock, ResetDelete, ForgetAll, TimerCommand, TimerExpires

\* One task at a time works on the blocks, and what is half done is its own.
THEOREM LogInvariant == Spec => [](Timely => LogInv)
<1>1. Init => (Timely => LogInv)
  BY LogStart
<1>2. (Timely => LogInv) /\ [Next]_vars => (Timely => LogInv)'
  BY LogStep, LateStays
<1>3. QED
  BY <1>1, <1>2, PTL DEF Spec

\* Between commands and resets no op is leaked or shared, no list is too long, and no id names
\* two blocks.
THEOREM LogOpsOwned == Spec => []OpsOwned
<1>1. ASSUME LogInv, AtRest PROVE OpsOwned
  <2>1. Listed = Live /\ Linking = {}
    BY <1>1 DEF AtRest, Listed, Linking, Off
  <2>2. /\ \A o \in Ops : ops[o].used <=> \E s \in Live : o \in OpsOf(s)
        /\ \A s, r \in Live : s # r => OpsOf(s) \cap OpsOf(r) = {}
        /\ \A s \in Live : BlockCalcLength(s) <= LOG_MAX_LEN
    BY <1>1, <2>1, OpsListed
  <2>3. \A s \in Live : \A r \in Live \ {s} : blocks[s].id # blocks[r].id
    BY <1>1 DEF LogInv, UniqueIds
  <2>4. QED
    BY <2>2, <2>3 DEF OpsOwned, Ops
<1>2. (Timely => LogInv) => OpsOwned
  BY <1>1 DEF OpsOwned
<1>3. QED
  BY <1>2, LogInvariant, PTL

\* No timer runs for a block that was deleted or not started, once the timer task has done
\* what was sent to it.
THEOREM LogTimersOfStartedBlocks == Spec => []TimersOfStartedBlocks
<1>1. ASSUME LogInv, timerQueue = <<>>, NEW s \in active PROVE s \in Live \cap started
  <2>1. s \in Slots /\ StartedOnly
    BY <1>1 DEF LogInv, LogTyped, TimersKept
  <2>2. Bound(timerQueue, active, s)
    BY <1>1, BoundRunning
  <2>3. QED
    BY <2>1, <2>2 DEF StartedOnly
<1>2. (Timely => LogInv) => TimersOfStartedBlocks
  BY <1>1 DEF TimersOfStartedBlocks
<1>3. QED
  BY <1>2, LogInvariant, PTL

\* A started block that the worker took and that is still there is sent with its own variables.
THEOREM LogStartedBlocks == Spec => []StartedBlocksLogTheirOps
<1> DEFINE w == task["worker"]
<1>1. ASSUME LogInv, w.pc = "run", logLock = "free", w.fresh, blocks[w.slot].id # Free
      PROVE  /\ \A o \in ToSet(Walk(ops, w.op)) : ops[o].used
             /\ Walk(ops, w.op) = Walk(ops, blocks[w.slot].ops)
  <2>1. w.op = blocks[w.slot].ops /\ w.slot \in Live
    BY <1>1 DEF LogInv, FreshRun
  <2>2. task["log"].pc \in {"idle", "take"}
    BY <1>1 DEF LogInv, Turns
  <2>3. Listed = Live /\ ToSet(Walk(ops, w.op)) = OpsOf(w.slot)
    BY <1>1, <2>1, <2>2 DEF Listed, Off, OpsOf
  <2>4. OpsOf(w.slot) \subseteq Ops
    <3>1. /\ First[w.slot] = w.op /\ w.slot \in Listed
      BY <2>1, <2>3 DEF First, Live
    <3>2. Chain(ops, w.op, Walk(ops, w.op))
      BY <1>1, <3>1 DEF LogInv, OpsKept, ListsOf
    <3>3. QED
      BY <2>3, <3>2, ChainEnds
  <2>5. \A o \in OpsOf(w.slot) : ops[o].used
    BY <1>1, <2>1, <2>3, <2>4, OpsListed
  <2>6. QED
    BY <2>1, <2>3, <2>5
<1>2. (Timely => LogInv) => StartedBlocksLogTheirOps
  BY <1>1 DEF StartedBlocksLogTheirOps
<1>3. QED
  BY <1>2, LogInvariant, PTL

\* No command goes to a timer that does not exist.
THEOREM LogTimersExist == Spec => []TimersExist
<1>1. (Timely => LogInv) => TimersExist
  BY DEF LogInv, TimersKept, TimersExist
<1>2. QED
  BY <1>1, LogInvariant, PTL
=============================================================================
