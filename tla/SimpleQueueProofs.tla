-------------------------- MODULE SimpleQueueProofs --------------------------
(***************************************************************************)
(* SimpleQueue for any set of threads and any number of puts and           *)
(* interrupted waits: the items come out in the order they were put in,    *)
(* whatever is cut off the list, and no wake-up is lost.                   *)
(***************************************************************************)
EXTENDS SimpleQueue, SequenceTheorems, TLAPS

USE QueueAssumption

(***************************************************************************)
(* The list.                                                               *)
(***************************************************************************)
Item == 0..MaxPuts

ListOK ==
  /\ lst \in Seq(Item) /\ lst_pos \in 0..Len(lst)
  /\ puts \in 0..MaxPuts /\ got \in Seq(Item)

\* Item n is at place n of what has been got or, counted on, of what has not been used up.
Placed ==
  /\ Len(got) + Len(lst) = puts + lst_pos
  /\ \A i \in 1..Len(got) : got[i] = i
  /\ \A i \in 1..Len(lst) : i > lst_pos => lst[i] = i + Len(got) - lst_pos

ListInv == ListOK /\ Placed

LEMMA ListNumbers ==
  ListInv => Len(lst) \in Nat /\ Len(got) \in Nat /\ puts \in Nat /\ lst_pos \in Nat
             /\ Len(got) + Len(lst) = puts + lst_pos
BY DEF ListInv, ListOK, Placed

LEMMA PutKeeps == ListInv /\ PutItem => ListInv'
<1> SUFFICES ASSUME ListInv, PutItem PROVE ListInv'
  OBVIOUS
<1> USE DEF ListInv, ListOK, Placed
<1>1. puts' = puts + 1 /\ puts + 1 \in Item /\ got' = got /\ lst_pos' = lst_pos
  BY DEF PutItem, Item
<1>2. lst' = Append(lst, puts + 1)
  BY DEF PutItem
<1>3. lst' \in Seq(Item) /\ Len(lst') = Len(lst) + 1
  BY <1>1, <1>2
<1>4. ASSUME NEW i \in 1..Len(lst'), i > lst_pos PROVE lst'[i] = i + Len(got) - lst_pos
  <2>1. CASE i \in 1..Len(lst)
    <3>1. lst'[i] = lst[i]
      BY <1>1, <1>2, <2>1
    <3> QED BY <2>1, <3>1, <1>4
  <2>2. CASE i = Len(lst) + 1
    <3>1. lst'[i] = puts + 1
      BY <1>1, <1>2, <2>2
    <3> QED BY <2>2, <3>1
  <2> QED BY <2>1, <2>2, <1>3
<1>5. ListOK'
  BY <1>1, <1>3 DEF Item
<1>6. Len(got') + Len(lst') = puts' + lst_pos'
  BY <1>1, <1>3, ListNumbers
<1>7. \A i \in 1..Len(lst') : i > lst_pos' => lst'[i] = i + Len(got') - lst_pos'
  BY <1>1, <1>4
<1>8. Placed'
  BY <1>1, <1>6, <1>7
<1> QED BY <1>5, <1>8

LEMMA PopKeeps == ListInv /\ ~Empty /\ (PopItem \/ PopFails) /\ puts' = puts => ListInv'
<1> SUFFICES ASSUME ListInv, ~Empty, PopItem \/ PopFails, puts' = puts PROVE ListInv'
  OBVIOUS
<1> USE DEF ListInv, ListOK, Placed
<1>1. CASE PopFails
  BY <1>1 DEF PopFails
<1>2. CASE PopItem
  <2>1. Front \in 1..Len(lst) /\ lst[Front] = Len(got) + 1 /\ lst[Front] \in Item
    BY DEF Empty, Front
  <2>2. got' = Append(got, lst[Front])
    BY <1>2 DEF PopItem
  <2>3. got' \in Seq(Item) /\ Len(got') = Len(got) + 1
    BY <2>1, <2>2
  <2>4. ASSUME NEW i \in 1..Len(got') PROVE got'[i] = i
    <3>1. CASE i \in 1..Len(got)
      BY <2>1, <2>2, <3>1
    <3>2. CASE i = Len(got) + 1
      BY <2>1, <2>2, <3>2
    <3> QED BY <2>3, <3>1, <3>2
  <2>5. CASE MostlyUsed
    <3>1. lst' = SubSeq(lst, Front + 1, Len(lst)) /\ lst_pos' = 0
      BY <1>2, <2>5 DEF PopItem
    <3>2. /\ lst' \in Seq(Item) /\ Len(lst') = Len(lst) - Front
          /\ \A i \in 1..Len(lst') : lst'[i] = lst[Front + i]
      BY <2>1, <3>1, SubSeqProperties
    <3>3. ASSUME NEW i \in 1..Len(lst') PROVE lst'[i] = i + Len(got')
      <4>1. Front + i \in 1..Len(lst) /\ Front + i > lst_pos
        BY <2>1, <3>2 DEF Front
      <4>2. lst[Front + i] = Front + i + Len(got) - lst_pos
        BY <4>1
      <4> QED BY <2>1, <2>3, <3>2, <4>2 DEF Front
    <3>4. ListOK'
      BY <2>3, <3>1, <3>2
    <3>5. Len(got') + Len(lst') = puts' + lst_pos'
      <4> HIDE DEF ListInv, ListOK, Placed
      <4>1. Len(got') = Len(got) + 1 /\ Len(lst') = Len(lst) - (lst_pos + 1) /\ lst_pos' = 0
        BY <2>3, <3>1, <3>2 DEF Front
      <4> QED BY <4>1, ListNumbers
    <3>6. \A i \in 1..Len(lst') : i > lst_pos' => lst'[i] = i + Len(got') - lst_pos'
      BY <2>1, <2>3, <3>1, <3>2, <3>3 DEF Front
    <3>7. Placed'
      BY <2>4, <3>5, <3>6
    <3> QED BY <3>4, <3>7
  <2>6. CASE ~MostlyUsed
    <3>1. lst' = [lst EXCEPT ![Front] = PyNone] /\ lst_pos' = Front
      BY <1>2, <2>6 DEF PopItem
    <3>2. lst' \in Seq(Item) /\ Len(lst') = Len(lst)
      BY <2>1, <3>1, ExceptSeq DEF PyNone, Item
    <3>3. \A i \in 1..Len(lst) : i # Front => lst'[i] = lst[i]
      BY <2>1, <3>1, ExceptSeq DEF PyNone, Item
    <3>4. ListOK'
      BY <2>1, <2>3, <3>1, <3>2
    <3>5. Len(got') + Len(lst') = puts' + lst_pos'
      <4> HIDE DEF ListInv, ListOK, Placed
      <4>1. Len(got') = Len(got) + 1 /\ Len(lst') = Len(lst) /\ lst_pos' = lst_pos + 1
        BY <2>3, <3>1, <3>2 DEF Front
      <4> QED BY <4>1, ListNumbers
    <3>6. \A i \in 1..Len(lst') : i > lst_pos' => lst'[i] = i + Len(got') - lst_pos'
      BY <2>1, <2>3, <3>1, <3>2, <3>3 DEF Front
    <3>7. Placed'
      BY <2>4, <3>5, <3>6
    <3> QED BY <3>4, <3>7
  <2> QED BY <2>5, <2>6
<1> QED BY <1>1, <1>2

LEMMA ListStep == ListInv /\ [Next]_vars => ListInv'
<1> SUFFICES ASSUME ListInv, [Next]_vars PROVE ListInv'
  OBVIOUS
<1>1. CASE UNCHANGED <<lst, lst_pos, puts, got>>
  BY <1>1 DEF ListInv, ListOK, Placed
<1>2. CASE PutItem
  BY <1>2, PutKeeps
<1>3. CASE ~Empty /\ (PopItem \/ PopFails) /\ puts' = puts
  BY <1>3, PopKeeps
<1>4. \/ UNCHANGED <<lst, lst_pos, puts, got>>
      \/ PutItem
      \/ ~Empty /\ (PopItem \/ PopFails) /\ puts' = puts
  BY DEF Next, Put, Get, Going, Resume, RaiseEmpty, Acquire, TimeOut, RunHandlers, Interrupt,
         Expire, TakeItem, FindEmpty, Waits, vars, queueVars
<1> QED BY <1>1, <1>2, <1>3, <1>4

LEMMA ListAlways == Spec => []ListInv
<1>1. Init => ListInv
  BY DEF Init, ListInv, ListOK, Placed, Item
<1> QED BY <1>1, ListStep, PTL DEF Spec

\* Every item is got once and in the order of the puts, for any number of items.
THEOREM InOrder == Spec => []FirstInFirstOut
<1>1. ListInv => FirstInFirstOut
  <2> SUFFICES ASSUME ListInv PROVE got \o Items = [i \in 1..puts |-> i]
    BY DEF FirstInFirstOut
  <2> USE DEF ListInv, ListOK, Placed
  <2>1. /\ Items \in Seq(Item) /\ Len(Items) = Len(lst) - lst_pos
        /\ \A i \in 1..Len(Items) : Items[i] = lst[lst_pos + i]
    <3>1. CASE lst_pos + 1 \in 1..Len(lst)
      BY <3>1, SubSeqProperties DEF Items
    <3>2. CASE lst_pos = Len(lst)
      BY <3>2, SubSeqProperties DEF Items
    <3> QED BY <3>1, <3>2
  <2>2. /\ got \o Items \in Seq(Item) /\ Len(got \o Items) = puts
        /\ \A i \in 1..puts :
             (got \o Items)[i] = IF i <= Len(got) THEN got[i] ELSE Items[i - Len(got)]
    <3> HIDE DEF ListInv, ListOK, Placed
    <3>1. got \in Seq(Item)
      BY DEF ListInv, ListOK
    <3>2. /\ got \o Items \in Seq(Item) /\ Len(got \o Items) = Len(got) + Len(Items)
          /\ \A i \in 1..Len(got) + Len(Items) :
               (got \o Items)[i] = IF i <= Len(got) THEN got[i] ELSE Items[i - Len(got)]
      BY <2>1, <3>1, ConcatProperties
    <3>3. Len(got) + Len(Items) = puts
      BY <2>1, ListNumbers
    <3> QED BY <3>2, <3>3
  <2>3. ASSUME NEW i \in 1..puts PROVE (got \o Items)[i] = i
    <3>1. CASE i <= Len(got)
      BY <2>2, <3>1, ListNumbers
    <3>2. CASE i > Len(got)
      <4> DEFINE j == i - Len(got)
      <4>1. j \in 1..Len(Items) /\ lst_pos + j \in 1..Len(lst) /\ lst_pos + j > lst_pos
        BY <2>1, <3>2, ListNumbers
      <4>2. (got \o Items)[i] = Items[j]
        BY <2>2, <3>2
      <4>3. lst[lst_pos + j] = lst_pos + j + Len(got) - lst_pos
        BY <4>1
      <4>4. lst[lst_pos + j] = i
        BY <4>1, <4>3, ListNumbers
      <4> QED BY <2>1, <4>1, <4>2, <4>4
    <3>3. i <= Len(got) \/ i > Len(got)
      BY ListNumbers
    <3> QED BY <3>1, <3>2, <3>3
  <2>4. [i \in 1..puts |-> i] \in Seq(Item) /\ Len([i \in 1..puts |-> i]) = puts
    BY DEF Item
  <2> QED BY <2>2, <2>3, <2>4, SeqEqual
<1> QED BY <1>1, ListAlways, PTL

(***************************************************************************)
(* The promise of Channel.tla.                                             *)
(***************************************************************************)
LEMMA RestOf ==
  ASSUME NEW s \in Seq(Item), NEW p \in 0..Len(s)
  PROVE  /\ SubSeq(s, p + 1, Len(s)) \in Seq(Item)
         /\ Len(SubSeq(s, p + 1, Len(s))) = Len(s) - p
         /\ \A i \in 1..Len(s) - p : SubSeq(s, p + 1, Len(s))[i] = s[p + i]
<1>1. CASE p + 1 \in 1..Len(s)
  BY <1>1, SubSeqProperties
<1>2. CASE p = Len(s)
  BY <1>2, SubSeqProperties
<1> QED BY <1>1, <1>2

\* The items put in so far, and one more.
LEMMA CountedOn ==
  ASSUME NEW n \in Nat
  PROVE  Append([i \in 1..n |-> i], n + 1) = [i \in 1..n + 1 |-> i]
<1> DEFINE s == [i \in 1..n |-> i]
           t == [i \in 1..n + 1 |-> i]
<1>1. s \in Seq(Nat) /\ Len(s) = n /\ \A i \in 1..n : s[i] = i
  OBVIOUS
<1>2. t \in Seq(Nat) /\ Len(t) = n + 1 /\ \A i \in 1..n + 1 : t[i] = i
  OBVIOUS
<1> HIDE DEF s, t
<1>3. /\ Append(s, n + 1) \in Seq(Nat) /\ Len(Append(s, n + 1)) = n + 1
      /\ \A i \in 1..n : Append(s, n + 1)[i] = s[i]
      /\ Append(s, n + 1)[n + 1] = n + 1
  BY <1>1, AppendProperties
<1>4. ASSUME NEW i \in 1..n + 1 PROVE Append(s, n + 1)[i] = t[i]
  <2>1. i \in 1..n \/ i = n + 1
    OBVIOUS
  <2> QED BY <1>1, <1>2, <1>3, <2>1
<1>5. Append(s, n + 1) = t
  BY <1>2, <1>3, <1>4, SeqEqual
<1> QED BY <1>5 DEF s, t

LEMMA PutPromised == ListInv /\ ListInv' /\ PutItem => Promise!Put(puts + 1) /\ puts + 1 \in 1..MaxPuts
<1> SUFFICES ASSUME ListInv, ListInv', PutItem PROVE Promise!Put(puts + 1) /\ puts + 1 \in 1..MaxPuts
  OBVIOUS
<1>1. /\ lst \in Seq(Item) /\ lst_pos \in 0..Len(lst) /\ got \in Seq(Item) /\ puts \in 0..MaxPuts
      /\ lst' \in Seq(Item) /\ lst_pos \in 0..Len(lst') /\ puts < MaxPuts
      /\ lst' = Append(lst, puts + 1) /\ lst_pos' = lst_pos /\ got' = got
  BY DEF ListInv, ListOK, PutItem
<1>2. puts + 1 \in Item /\ puts + 1 \in 1..MaxPuts /\ Len(lst) \in Nat /\ Len(got) \in Nat
  BY <1>1 DEF Item
<1>3. /\ Len(lst') = Len(lst) + 1 /\ lst'[Len(lst) + 1] = puts + 1
      /\ \A i \in 1..Len(lst) : lst'[i] = lst[i]
  BY <1>1, <1>2, AppendProperties
<1>4. /\ Items \in Seq(Item) /\ Len(Items) = Len(lst) - lst_pos
      /\ \A i \in 1..Len(lst) - lst_pos : Items[i] = lst[lst_pos + i]
  BY <1>1, RestOf DEF Items
<1>5. /\ Items' \in Seq(Item) /\ Len(Items') = Len(lst') - lst_pos
      /\ \A i \in 1..Len(lst') - lst_pos : Items'[i] = lst'[lst_pos + i]
  BY <1>1, RestOf DEF Items
<1>6. /\ Append(Items, puts + 1) \in Seq(Item) /\ Len(Append(Items, puts + 1)) = Len(Items) + 1
      /\ \A i \in 1..Len(Items) : Append(Items, puts + 1)[i] = Items[i]
      /\ Append(Items, puts + 1)[Len(Items) + 1] = puts + 1
  BY <1>2, <1>4, AppendProperties
<1>7. ASSUME NEW i \in 1..Len(Items') PROVE Items'[i] = Append(Items, puts + 1)[i]
  <2>1. CASE i \in 1..Len(Items)
    <3>1. lst_pos + i \in 1..Len(lst) /\ i \in 1..Len(lst) - lst_pos /\ i \in 1..Len(lst') - lst_pos
      BY <1>1, <1>2, <1>3, <1>4, <2>1
    <3> QED BY <1>3, <1>4, <1>5, <1>6, <2>1, <3>1
  <2>2. CASE i = Len(Items) + 1
    <3>1. lst_pos + i = Len(lst) + 1 /\ i \in 1..Len(lst') - lst_pos
      BY <1>1, <1>2, <1>3, <1>4, <2>2
    <3> QED BY <1>3, <1>5, <1>6, <2>2, <3>1
  <2>3. Len(Items') = Len(Items) + 1 /\ Len(Items) \in Nat
    BY <1>1, <1>2, <1>3, <1>4, <1>5
  <2> QED BY <2>1, <2>2, <2>3
<1>8. Items' = Append(Items, puts + 1)
  <2>1. Len(Items') = Len(Append(Items, puts + 1))
    BY <1>1, <1>2, <1>3, <1>4, <1>5, <1>6
  <2> QED BY <1>5, <1>6, <1>7, <2>1, SeqEqual
<1>9. Len(Items) < MaxPuts
  BY <1>1, <1>2, <1>4, ListNumbers
<1>10. [i \in 1..puts' |-> i] = Append([i \in 1..puts |-> i], puts + 1)
  <2>1. puts' = puts + 1 /\ puts \in Nat
    BY <1>1 DEF PutItem
  <2> QED BY <2>1, CountedOn
<1> QED BY <1>1, <1>2, <1>8, <1>9, <1>10 DEF Promise!Put

LEMMA PopPromised == ListInv /\ ListInv' /\ ~Empty /\ PopItem /\ puts' = puts => Promise!Take
<1> SUFFICES ASSUME ListInv, ListInv', ~Empty, PopItem, puts' = puts PROVE Promise!Take
  OBVIOUS
<1>1. /\ lst \in Seq(Item) /\ lst_pos \in 0..Len(lst) /\ got \in Seq(Item)
      /\ lst' \in Seq(Item) /\ lst_pos' \in 0..Len(lst')
      /\ got' = Append(got, lst[Front])
  BY DEF ListInv, ListOK, PopItem
<1>2. Front \in 1..Len(lst) /\ Front = lst_pos + 1 /\ Len(lst) \in Nat
  BY <1>1 DEF Empty, Front
<1>3. /\ Items \in Seq(Item) /\ Len(Items) = Len(lst) - lst_pos
      /\ \A i \in 1..Len(lst) - lst_pos : Items[i] = lst[lst_pos + i]
  BY <1>1, RestOf DEF Items
<1>4. /\ Items' \in Seq(Item) /\ Len(Items') = Len(lst') - lst_pos'
      /\ \A i \in 1..Len(lst') - lst_pos' : Items'[i] = lst'[lst_pos' + i]
  BY <1>1, RestOf DEF Items
\* What is left of the list after its front item, whether or not it was cut off.
<1>5. /\ Len(lst') - lst_pos' = Len(lst) - Front
      /\ \A i \in 1..Len(lst) - Front : lst'[lst_pos' + i] = lst[Front + i]
  <2>1. CASE MostlyUsed
    <3>1. lst' = SubSeq(lst, Front + 1, Len(lst)) /\ lst_pos' = 0
      BY <2>1 DEF PopItem
    <3>2. Front \in 0..Len(lst)
      BY <1>2
    <3>3. /\ Len(lst') = Len(lst) - Front
          /\ \A i \in 1..Len(lst) - Front : lst'[i] = lst[Front + i]
      BY <1>1, <3>1, <3>2, RestOf
    <3> QED BY <1>2, <3>1, <3>3
  <2>2. CASE ~MostlyUsed
    <3>1. lst' = [lst EXCEPT ![Front] = PyNone] /\ lst_pos' = Front
      BY <2>2 DEF PopItem
    <3>2. Len(lst') = Len(lst) /\ \A i \in 1..Len(lst) : i # Front => lst'[i] = lst[i]
      BY <1>1, <1>2, <3>1, ExceptSeq DEF PyNone, Item
    <3> QED BY <1>2, <3>1, <3>2
  <2> QED BY <2>1, <2>2
<1>6. Items # <<>> /\ Len(Items) \in Nat /\ Head(Items) = lst[Front]
  BY <1>1, <1>2, <1>3
<1>7. /\ Tail(Items) \in Seq(Item) /\ Len(Tail(Items)) = Len(Items) - 1
      /\ \A i \in 1..Len(Tail(Items)) : Tail(Items)[i] = Items[i + 1]
  BY <1>3, <1>6, HeadTailProperties
<1>8. Len(Items') = Len(Tail(Items))
  <2>1. Len(Items') = Len(lst) - Front
    BY <1>4, <1>5
  <2>2. Len(Tail(Items)) = Len(lst) - lst_pos - 1
    BY <1>3, <1>7
  <2> QED BY <1>1, <1>2, <2>1, <2>2
<1>9. ASSUME NEW i \in 1..Len(Items') PROVE Items'[i] = Tail(Items)[i]
  <2>1. i \in 1..Len(Tail(Items)) /\ i \in 1..Len(lst) - Front /\ i + 1 \in 1..Len(lst) - lst_pos
    BY <1>2, <1>3, <1>4, <1>5, <1>7, <1>8
  <2>2. Items'[i] = lst[Front + i]
    BY <1>4, <1>5, <2>1
  <2>3. Tail(Items)[i] = lst[lst_pos + (i + 1)]
    BY <1>3, <1>7, <2>1
  <2>4. lst_pos + (i + 1) = Front + i
    BY <1>1, <1>2, <2>1
  <2> QED BY <2>2, <2>3, <2>4
<1>10. Items' = Tail(Items)
  BY <1>4, <1>7, <1>8, <1>9, SeqEqual
<1> QED BY <1>1, <1>6, <1>10 DEF Promise!Take

LEMMA PromiseStep == ListInv /\ ListInv' /\ [Next]_vars => [Promise!Next]_(Promise!vars)
<1> SUFFICES ASSUME ListInv, ListInv', [Next]_vars PROVE [Promise!Next]_(Promise!vars)
  OBVIOUS
<1>1. CASE UNCHANGED <<lst, lst_pos, puts, got>>
  BY <1>1 DEF Promise!vars, Items
<1>2. CASE PutItem
  <2> DEFINE added == puts + 1
  <2>1. added \in 1..MaxPuts /\ Promise!Put(added)
    BY <1>2, PutPromised
  <2> HIDE DEF added
  <2>2. \E p \in 1..MaxPuts : Promise!Put(p)
    BY ONLY <2>1, Zenon DEF Promise!Put
  <2> QED BY <2>2 DEF Promise!Next
<1>3. CASE ~Empty /\ PopItem /\ puts' = puts
  BY <1>3, PopPromised DEF Promise!Next
<1>4. \/ UNCHANGED <<lst, lst_pos, puts, got>>
      \/ PutItem
      \/ ~Empty /\ PopItem /\ puts' = puts
  BY DEF Next, Put, Get, Going, Resume, RaiseEmpty, Acquire, TimeOut, RunHandlers, Interrupt,
         Expire, TakeItem, PopFails, FindEmpty, Waits, vars, queueVars
<1> QED BY <1>1, <1>2, <1>3, <1>4

\* The list with its position and its cuts is a channel: every put() and every get() that
\* succeeds takes effect in one step, and nothing else shows, for any number of threads.
THEOREM KeepsPromise == Spec => HandsItemsOver
<1>1. Init => Promise!Init
  <2> SUFFICES ASSUME Init PROVE Items = <<>> /\ got = <<>> /\ [i \in 1..puts |-> i] = <<>>
    BY DEF Promise!Init
  <2> QED BY DEF Init, Items
<1> QED
  BY <1>1, PromiseStep, ListAlways, PTL DEF Spec, HandsItemsOver, Promise!Safety

(***************************************************************************)
(* The lock.                                                               *)
(***************************************************************************)
Step == {"idle", "blocked", "acquired", "failed", "interrupted", "handled"}

LockOK == locked \in BOOLEAN /\ sem \in Nat

ThreadsOK ==
  /\ pc \in [Threads -> Step]
  /\ kind \in [Threads -> Kind]
  /\ microseconds \in [Threads -> {"none", "zero", "some"}]
  /\ expired \in [Threads -> BOOLEAN]

CountOK == interrupts \in 0..MaxInterrupts

LEMMA LockType == LockOK /\ [Next]_vars => LockOK'
<1> SUFFICES ASSUME LockOK, [Next]_vars PROVE LockOK'
  OBVIOUS
<1>1. UNCHANGED locked \/ locked' \in BOOLEAN
  BY DEF LockOK, Next, Put, PutItem, Get, Going, Resume, RaiseEmpty, Acquire, TimeOut, RunHandlers,
         Interrupt, Expire, TakeItem, FindEmpty, Waits, vars, lockVars
<1>2. sem' = sem \/ sem' = sem + 1 \/ sem' = 0 \/ (sem > 0 /\ sem' = sem - 1)
  BY DEF Next, Put, PutItem, Get, Going, Resume, RaiseEmpty, Acquire, TimeOut, RunHandlers,
         Interrupt, Expire, TakeItem, FindEmpty, Waits, vars, lockVars
<1>3. sem' \in Nat
  BY <1>2 DEF LockOK
<1> QED BY <1>1, <1>3 DEF LockOK

LEMMA ThreadsType == ThreadsOK /\ [Next]_vars => ThreadsOK'
<1> SUFFICES ASSUME ThreadsOK, [Next]_vars PROVE ThreadsOK'
  OBVIOUS
<1> USE DEF ThreadsOK, Step, Kind, getVars, Goto, Return
<1>1. ASSUME NEW t \in Threads, NEW k \in Kind, NEW left \in {"none", "zero", "some"},
             NEW late \in BOOLEAN, NEW lockTaken, FindEmpty(t, k, left, late, lockTaken)
      PROVE ThreadsOK'
  BY <1>1 DEF FindEmpty
<1>2. ASSUME NEW t \in Threads, NEW k \in Kind, NEW late
      PROVE Rest(k, late) \subseteq {"none", "zero", "some"}
  BY DEF Rest
<1>3. ASSUME NEW t \in Threads, NEW k \in Kind, Get(t, k) PROVE ThreadsOK'
  <2>1. CASE TakeItem(t, locked)
    BY <2>1 DEF TakeItem
  <2>2. CASE \E late \in BOOLEAN : \E left \in Rest(k, late) : FindEmpty(t, k, left, late, locked)
    <3>1. PICK late \in BOOLEAN : \E left \in Rest(k, late) : FindEmpty(t, k, left, late, locked)
      BY <2>2
    <3>2. PICK left \in Rest(k, late) : FindEmpty(t, k, left, late, locked)
      BY <3>1
    <3>3. left \in {"none", "zero", "some"}
      BY <1>2
    <3> HIDE DEF ThreadsOK, Kind
    <3> QED BY <1>1, <3>2, <3>3
  <2> QED BY <1>3, <2>1, <2>2 DEF Get
<1>4. ASSUME NEW t \in Threads, Resume(t) PROVE ThreadsOK'
  <2>1. kind[t] \in Kind /\ expired[t] \in BOOLEAN
    OBVIOUS
  <2>2. CASE TakeItem(t, TRUE)
    BY <2>2 DEF TakeItem
  <2>3. CASE \E left \in Rest(kind[t], expired[t]) : FindEmpty(t, kind[t], left, expired[t], TRUE)
    <3>1. PICK left \in Rest(kind[t], expired[t]) : FindEmpty(t, kind[t], left, expired[t], TRUE)
      BY <2>3
    <3>2. left \in {"none", "zero", "some"}
      BY <1>2, <2>1
    <3> HIDE DEF ThreadsOK, Kind
    <3> QED BY <1>1, <2>1, <3>1, <3>2
  <2> QED BY <1>4, <2>2, <2>3 DEF Resume
<1>5. ASSUME NEW t \in Threads, Put(t) \/ RaiseEmpty(t) \/ RunHandlers(t) PROVE ThreadsOK'
  BY <1>5 DEF Put, RaiseEmpty, RunHandlers
<1>6. ASSUME NEW t \in Threads, Acquire(t) \/ TimeOut(t) \/ Interrupt(t) PROVE ThreadsOK'
  BY <1>6 DEF Acquire, TimeOut, Interrupt, Waits
<1>7. ASSUME NEW t \in Threads, Expire(t) PROVE ThreadsOK'
  BY <1>7 DEF Expire
<1>8. CASE UNCHANGED vars
  BY <1>8 DEF vars
<1> QED
  BY <1>3, <1>4, <1>5, <1>6, <1>7, <1>8 DEF Next, Going

LEMMA CountType == CountOK /\ [Next]_vars => CountOK'
<1> SUFFICES ASSUME CountOK, [Next]_vars PROVE CountOK'
  OBVIOUS
<1>1. interrupts' = interrupts \/ (interrupts < MaxInterrupts /\ interrupts' = interrupts + 1)
  BY DEF Next, Put, PutItem, Get, Going, Resume, RaiseEmpty, Acquire, TimeOut, RunHandlers,
         Interrupt, Expire, vars
<1> QED BY <1>1 DEF CountOK

\* Every variable of the queue and its threads keeps its type; the position stays inside the
\* list.
THEOREM TypeCorrect == Spec => []TypeOK
<1>1. Init => LockOK /\ CountOK
  <2> SUFFICES ASSUME Init PROVE LockOK /\ CountOK
    OBVIOUS
  <2>1. locked \in BOOLEAN
    BY DEF Init
  <2>2. sem \in Nat /\ interrupts \in 0..MaxInterrupts
    BY DEF Init
  <2> QED BY <2>1, <2>2 DEF LockOK, CountOK
<1>2. Init => ThreadsOK
  BY DEF Init, ThreadsOK, Step, Kind
<1>3. ListInv /\ LockOK /\ ThreadsOK /\ CountOK => TypeOK
  BY DEF ListInv, ListOK, LockOK, ThreadsOK, CountOK, TypeOK, Item, Step
<1> QED
  BY <1>1, <1>2, <1>3, ListAlways, LockType, ThreadsType, CountType, PTL DEF Spec

\* locked is off while there is an item, and while it is off the semaphore has a permit or
\* somebody is on his way with it.
WakeUpInv ==
  /\ ~Empty => ~locked
  /\ ~locked => sem > 0 \/ \E u \in Threads : pc[u] = "acquired"

LEMMA WakeUpStep == LockOK /\ ThreadsOK /\ WakeUpInv /\ [Next]_vars => WakeUpInv'
<1> SUFFICES ASSUME LockOK, ThreadsOK, WakeUpInv, [Next]_vars PROVE WakeUpInv'
  OBVIOUS
<1> USE DEF LockOK, ThreadsOK, WakeUpInv, queueVars, lockVars, getVars, Goto
<1>1. ASSUME NEW t \in Threads, PutItem, pc[t] # "acquired", UNCHANGED pc \/ Goto(t, "handled")
      PROVE WakeUpInv'
  BY <1>1 DEF PutItem
<1>2. ASSUME NEW t \in Threads, TakeItem(t, locked), pc[t] = "idle" PROVE WakeUpInv'
  BY <1>2 DEF TakeItem, Return
<1>3. ASSUME NEW t \in Threads, TakeItem(t, TRUE) PROVE WakeUpInv'
  BY <1>3 DEF TakeItem
<1>4. ASSUME NEW t \in Threads, NEW k, NEW left, NEW late, FindEmpty(t, k, left, late, locked), pc[t] = "idle"
      PROVE WakeUpInv'
  BY <1>4 DEF FindEmpty, Empty, Return
<1>5. ASSUME NEW t \in Threads, NEW k, NEW left, NEW late, FindEmpty(t, k, left, late, TRUE)
      PROVE WakeUpInv'
  BY <1>5 DEF FindEmpty, Empty
<1>6. ASSUME NEW t \in Threads, Put(t) \/ RunHandlers(t) PROVE WakeUpInv'
  BY <1>1, <1>6 DEF Put, RunHandlers, Empty, Return
<1>7. ASSUME NEW t \in Threads, RaiseEmpty(t) \/ TimeOut(t) \/ Interrupt(t) PROVE WakeUpInv'
  BY <1>7 DEF RaiseEmpty, TimeOut, Interrupt, Waits, Empty, Return
<1>8. ASSUME NEW t \in Threads, Acquire(t) PROVE WakeUpInv'
  BY <1>8 DEF Acquire, Waits, Empty
<1>9. ASSUME NEW t \in Threads, Expire(t) PROVE WakeUpInv'
  BY <1>9 DEF Expire, Empty
<1>10. CASE UNCHANGED vars
  BY <1>10 DEF vars, Empty
<1> QED
  BY <1>2, <1>3, <1>4, <1>5, <1>6, <1>7, <1>8, <1>9, <1>10 DEF Next, Going, Get, Resume

\* No wake-up is lost: while there is an item, one who waits for it can be woken, or somebody
\* who was will pass the lock on.
THEOREM WakeUpKept == Spec => []NoLostWakeUp
<1>1. Init => LockOK /\ ThreadsOK
  <2> SUFFICES ASSUME Init PROVE LockOK /\ ThreadsOK
    OBVIOUS
  <2>1. locked \in BOOLEAN
    BY DEF Init
  <2>2. sem \in Nat
    BY DEF Init
  <2>3. ThreadsOK
    BY DEF Init, ThreadsOK, Step, Kind
  <2> QED BY <2>1, <2>2, <2>3 DEF LockOK
<1>2. Init => WakeUpInv
  BY DEF Init, WakeUpInv, Empty
<1>3. WakeUpInv => NoLostWakeUp
  BY DEF WakeUpInv, NoLostWakeUp
<1> QED BY <1>1, <1>2, <1>3, LockType, ThreadsType, WakeUpStep, PTL DEF Spec
==============================================================================
