-------------------------- MODULE BroadcastSyncProofs --------------------------
(***************************************************************************)
(* Proofs about BroadcastSync, for any number of tabs, events, flags,      *)
(* toggles and opened tabs.                                                *)
(***************************************************************************)
EXTENDS BroadcastSync, FiniteSetTheorems, TLAPS

-----------------------------------------------------------------------------
(* The reducer.  Its loop is a recursive function on an interval: that the *)
(* function exists, and what it computes, follows from the well-ordering   *)
(* of the natural numbers.                                                 *)

LEMMA Least ==
    ASSUME NEW S \in SUBSET Nat, S # {}
    PROVE  \E n \in S : \A m \in S : n <= m
<1> DEFINE T == {0..k : k \in S}
<1>1. \A k \in S : 0..k \in FiniteSubsetsOf(Nat)
  <2> SUFFICES ASSUME NEW k \in S PROVE 0..k \in FiniteSubsetsOf(Nat)
    OBVIOUS
  <2>1. IsFiniteSet(0..k)
    <3>1. 0 \in Int /\ k \in Int
      OBVIOUS
    <3>2. QED
      BY <3>1, FS_Interval
  <2>2. QED
    BY <2>1 DEF FiniteSubsetsOf
<1>2. T \subseteq FiniteSubsetsOf(Nat) /\ T # {}
  BY <1>1
<1>3. IsWellFoundedOn(StrictSubsetOrdering(Nat), FiniteSubsetsOf(Nat))
  BY FS_StrictSubsetOrderingWellFounded
<1>4. PICK x \in T : \A y \in T : ~(<<y, x>> \in StrictSubsetOrdering(Nat))
  <2> HIDE DEF T
  <2>1. QED
    BY <1>2, <1>3, WFMin
<1>5. PICK n \in S : x = 0..n
  OBVIOUS
<1>6. ASSUME NEW m \in S, m < n PROVE FALSE
  <2>1. 0..m \in T
    OBVIOUS
  <2>2. 0..m \subseteq 0..n /\ n \in 0..n /\ n \notin 0..m
    BY <1>6
  <2>3. 0..m \in SUBSET Nat /\ 0..n \in SUBSET Nat
    OBVIOUS
  <2>4. <<0..m, 0..n>> \in StrictSubsetOrdering(Nat)
    BY <2>2, <2>3 DEF StrictSubsetOrdering
  <2>5. QED
    BY <1>4, <1>5, <2>1, <2>4
<1>7. QED
  BY <1>6

(* Listing one more event. *)
Listed(l, e) == IF Contains(l, e) THEN l ELSE Append(l, e)

LEMMA ListedFacts ==
    ASSUME NEW l \in Seq(Event), NEW e \in Event
    PROVE  /\ Listed(l, e) \in Seq(Event)
           /\ ToSet(Listed(l, e)) = ToSet(l) \cup {e}
           /\ IsInjective(l) => IsInjective(Listed(l, e))
<1>1. CASE Contains(l, e)
  BY <1>1 DEF Listed, Contains, ToSet
<1>2. CASE ~Contains(l, e)
  <2>1. Listed(l, e) = Append(l, e)
    BY <1>2 DEF Listed
  <2>2. /\ Append(l, e) \in Seq(Event) /\ DOMAIN Append(l, e) = 1..(Len(l) + 1)
        /\ Append(l, e)[Len(l) + 1] = e /\ \A i \in 1..Len(l) : Append(l, e)[i] = l[i]
        /\ Len(l) \in Nat /\ DOMAIN l = 1..Len(l)
    OBVIOUS
  <2>3. ToSet(Append(l, e)) = ToSet(l) \cup {e}
    BY <2>2 DEF ToSet
  <2>4. \A i \in 1..Len(l) : l[i] # e
    BY <1>2 DEF Contains
  <2>5. IsInjective(l) => IsInjective(Append(l, e))
    BY <2>2, <2>4 DEF IsInjective
  <2>6. QED
    BY <2>1, <2>2, <2>3, <2>5
<1>3. QED
  BY <1>1, <1>2

(* What the reducer has listed after the first i events of es. *)
Good(l, list, es, i) ==
    /\ l \in Seq(Event)
    /\ ToSet(l) = ToSet(list) \cup {es[j] : j \in 1..i}
    /\ IsInjective(list) => IsInjective(l)

LEMMA GoodStep ==
    ASSUME NEW list \in Seq(Event), NEW es \in Seq(Event), NEW m \in 1..Len(es), NEW old,
           Good(old, list, es, m - 1)
    PROVE  Good(Listed(old, es[m]), list, es, m)
<1> DEFINE new == Listed(old, es[m])
           A == {es[j] : j \in 1..(m - 1)}
           B == {es[j] : j \in 1..m}
<1>1. B = A \cup {es[m]}
  <2>1. 1..m = 1..(m - 1) \cup {m}
    OBVIOUS
  <2>2. QED
    BY <2>1
<1>2. /\ old \in Seq(Event) /\ ToSet(old) = ToSet(list) \cup A
      /\ IsInjective(list) => IsInjective(old)
  BY DEF Good
<1>3. es[m] \in Event
  OBVIOUS
<1> HIDE DEF A, B
<1>4. /\ new \in Seq(Event) /\ ToSet(new) = ToSet(old) \cup {es[m]}
      /\ IsInjective(old) => IsInjective(new)
  BY <1>2, <1>3, ListedFacts
<1> HIDE DEF new
<1>5. ToSet(new) = ToSet(list) \cup B
  BY <1>1, <1>2, <1>4
<1>6. Good(new, list, es, m)
  BY <1>2, <1>4, <1>5 DEF Good, B
<1>7. QED
  BY <1>6 DEF new

LEMMA ReducerExists ==
    ASSUME NEW list \in Seq(Event), NEW es \in Seq(Event), NEW n \in 0..Len(es)
    PROVE  \E f : /\ f = [i \in 0..n |-> IF i = 0 THEN list ELSE Listed(f[i - 1], es[i])]
                  /\ \A i \in 0..n : Good(f[i], list, es, i)
<1> DEFINE Step(f, m) == [i \in 0..m |-> IF i = 0 THEN list ELSE Listed(f[i - 1], es[i])]
           Fine(f, m) == f = Step(f, m) /\ \A i \in 0..m : Good(f[i], list, es, i)
           Bad == {m \in 0..Len(es) : ~\E f : Fine(f, m)}
<1>1. Bad \subseteq Nat
  OBVIOUS
<1>2. ASSUME Bad # {} PROVE FALSE
  <2>1. PICK m \in Bad : \A k \in Bad : m <= k
    <3> HIDE DEF Bad
    <3>1. QED
      BY <1>1, <1>2, Least
  <2>2. m \in 0..Len(es) /\ ~\E f : Fine(f, m)
    OBVIOUS
  <2>3. CASE m = 0
    <3> DEFINE g == [i \in 0..0 |-> list]
    <3>1. g = Step(g, 0)
      OBVIOUS
    <3>2. Good(list, list, es, 0)
      BY DEF Good
    <3>3. \A i \in 0..0 : Good(g[i], list, es, i)
      BY <3>2
    <3>4. QED
      BY <2>2, <2>3, <3>1, <3>3
  <2>4. CASE m # 0
    <3>1. m \in 1..Len(es) /\ m - 1 \in 0..Len(es)
      BY <2>2, <2>4
    <3>2. PICK f : Fine(f, m - 1)
      <4> HIDE DEF Fine
      <4>1. m - 1 \notin Bad
        <5> HIDE DEF Bad
        <5>1. QED
          BY <2>1, <3>1
      <4>2. QED
        BY <3>1, <4>1
    <3> DEFINE g == [i \in 0..m |-> IF i = m THEN Listed(f[m - 1], es[m]) ELSE f[i]]
    <3>3. \A i \in 0..(m - 1) : f[i] = IF i = 0 THEN list ELSE Listed(f[i - 1], es[i])
      <4>1. f = Step(f, m - 1)
        BY <3>2
      <4> DEFINE h == Step(f, m - 1)
      <4>2. \A i \in 0..(m - 1) : h[i] = IF i = 0 THEN list ELSE Listed(f[i - 1], es[i])
        OBVIOUS
      <4> HIDE DEF h
      <4>3. f = h
        BY <4>1 DEF h
      <4>4. QED
        BY <4>2, <4>3
    <3>4. \A i \in 0..m : g[i] = IF i = 0 THEN list ELSE Listed(g[i - 1], es[i])
      BY <3>1, <3>3
    <3>5. g = Step(g, m)
      <4>1. g = [i \in 0..m |-> g[i]]
        OBVIOUS
      <4> HIDE DEF g
      <4>2. QED
        BY <3>4, <4>1
    <3>6. Good(f[m - 1], list, es, m - 1)
      BY <3>1, <3>2
    <3>8. Good(Listed(f[m - 1], es[m]), list, es, m)
      BY <3>1, <3>6, GoodStep
    <3>9. \A i \in 0..m : Good(g[i], list, es, i)
      BY <3>1, <3>2, <3>8
    <3> HIDE DEF g
    <3>10. QED
      BY <2>2, <3>5, <3>9
  <2>5. QED
    BY <2>3, <2>4
<1>3. n \notin Bad
  BY <1>2
<1>4. QED
  BY <1>3

LEMMA ReducerFacts ==
    ASSUME NEW list \in Seq(Event), NEW es \in Seq(Event)
    PROVE  /\ SyncRemoteEvents(list, es) \in Seq(Event)
           /\ ToSet(SyncRemoteEvents(list, es)) = ToSet(list) \cup ToSet(es)
           /\ IsInjective(list) => IsInjective(SyncRemoteEvents(list, es))
<1> DEFINE after[i \in 0..Len(es)] ==
               IF i = 0 THEN list ELSE Listed(after[i - 1], es[i])
<1>1. SyncRemoteEvents(list, es) = after[Len(es)]
  BY DEF SyncRemoteEvents, Listed
<1>2. PICK f : /\ f = [i \in 0..Len(es) |-> IF i = 0 THEN list ELSE Listed(f[i - 1], es[i])]
               /\ \A i \in 0..Len(es) : Good(f[i], list, es, i)
  <2>1. Len(es) \in 0..Len(es)
    OBVIOUS
  <2>2. QED
    BY <2>1, ReducerExists
<1>3. after = [i \in 0..Len(es) |-> IF i = 0 THEN list ELSE Listed(after[i - 1], es[i])]
  BY <1>2
<1> HIDE DEF after
<1> DEFINE Bad == {i \in 0..Len(es) : ~Good(after[i], list, es, i)}
<1>4. ASSUME Bad # {} PROVE FALSE
  <2>1. PICK m \in Bad : \A k \in Bad : m <= k
    <3>1. Bad \subseteq Nat
      OBVIOUS
    <3> HIDE DEF Bad
    <3>2. QED
      BY <1>4, <3>1, Least
  <2>2. m \in 0..Len(es) /\ ~Good(after[m], list, es, m)
    OBVIOUS
  <2>3. after[m] = IF m = 0 THEN list ELSE Listed(after[m - 1], es[m])
    BY <1>3, <2>2
  <2>4. CASE m = 0
    BY <2>2, <2>3, <2>4 DEF Good
  <2>5. CASE m # 0
    <3>1. m \in 1..Len(es) /\ m - 1 \in 0..Len(es)
      BY <2>2, <2>5
    <3>2. Good(after[m - 1], list, es, m - 1)
      <4>1. m - 1 \notin Bad
        <5> HIDE DEF Bad
        <5>1. QED
          BY <2>1, <3>1
      <4>2. QED
        BY <3>1, <4>1
    <3>3. QED
      BY <2>2, <2>3, <2>5, <3>1, <3>2, GoodStep
  <2>6. QED
    BY <2>4, <2>5
<1>5. Good(after[Len(es)], list, es, Len(es))
  <2>1. Len(es) \in 0..Len(es)
    OBVIOUS
  <2>2. QED
    BY <1>4, <2>1
<1>6. ToSet(es) = {es[j] : j \in 1..Len(es)}
  BY DEF ToSet
<1>7. QED
  BY <1>1, <1>5, <1>6 DEF Good

-----------------------------------------------------------------------------
(* Messages and sequences of messages. *)

(* The Boolean values of the flags, kept apart from formulas. *)
Bit == BOOLEAN

LEMMA LockFacts ==
    /\ \A l \in Lock : l.flag \in Flag /\ l.value \in Bit /\ l # NoLock
    /\ \A f \in Flag, v \in Bit : [flag |-> f, value |-> v] \in Lock
<1>1. ASSUME NEW l \in Lock PROVE l.flag \in Flag /\ l.value \in Bit
  BY DEF Lock, Bit
<1>2. ASSUME NEW f \in Flag, NEW v \in Bit PROVE [flag |-> f, value |-> v] \in Lock
  BY DEF Lock, Bit
<1>3. NoLock.flag = "none"
  BY DEF NoLock
<1>4. QED
  BY <1>1, <1>2, <1>3, NamesAssumption

LEMMA MessageFacts ==
    /\ \A e \in Event : /\ EventMsg(e) \in Message
                        /\ EventMsg(e).type = "event" /\ EventMsg(e).event = e
    /\ \A l \in Lock : /\ LockMsg(l) \in Message
                       /\ LockMsg(l).type = "lock" /\ LockMsg(l).lock = l
    /\ \A m \in Message : \/ m.type = "event" /\ m.event \in Event
                          \/ m.type = "lock" /\ m.lock \in Lock
<1>1. ASSUME NEW e \in Event
      PROVE  /\ EventMsg(e) \in Message
             /\ EventMsg(e).type = "event" /\ EventMsg(e).event = e
  BY DEF EventMsg, Message
<1>2. ASSUME NEW l \in Lock
      PROVE  /\ LockMsg(l) \in Message
             /\ LockMsg(l).type = "lock" /\ LockMsg(l).lock = l
  BY DEF LockMsg, Message
<1>3. ASSUME NEW m \in Message
      PROVE  \/ m.type = "event" /\ m.event \in Event
             \/ m.type = "lock" /\ m.lock \in Lock
  BY DEF Message
<1>4. QED
  BY <1>1, <1>2, <1>3

IsLock(m, f) == m.type = "lock" /\ m.lock.flag = f

(* Some lock payload of f is in q; the last one, if any, has value v. *)
Carries(q, f)    == \E i \in DOMAIN q : IsLock(q[i], f)
Settled(q, f, v) ==
    \A i \in DOMAIN q :
        IsLock(q[i], f) /\ (\A j \in DOMAIN q : j > i => ~IsLock(q[j], f))
        => q[i].lock.value = v

LEMMA EmptyFacts ==
    /\ EventsIn(<<>>) = {}
    /\ \A f, v : ~Carries(<<>>, f) /\ Settled(<<>>, f, v)
BY DEF EventsIn, Carries, Settled

LEMMA JoinedFacts ==
    ASSUME NEW q \in Seq(Message), NEW r \in Seq(Message)
    PROVE  /\ q \o r \in Seq(Message)
           /\ EventsIn(q \o r) = EventsIn(q) \cup EventsIn(r)
           /\ \A f : Carries(q \o r, f) <=> Carries(q, f) \/ Carries(r, f)
           /\ \A f, v : ~Carries(r, f) /\ Settled(q, f, v) => Settled(q \o r, f, v)
<1>1. /\ q \o r \in Seq(Message) /\ Len(q) \in Nat /\ Len(r) \in Nat
      /\ DOMAIN q = 1..Len(q) /\ DOMAIN r = 1..Len(r)
      /\ DOMAIN (q \o r) = 1..(Len(q) + Len(r))
      /\ \A i \in 1..Len(q) : (q \o r)[i] = q[i]
      /\ \A i \in 1..Len(r) : (q \o r)[Len(q) + i] = r[i]
  OBVIOUS
<1> DEFINE p == q \o r
<1> HIDE DEF p
<1>2. /\ DOMAIN p = 1..(Len(q) + Len(r))
      /\ \A i \in 1..Len(q) : p[i] = q[i]
      /\ \A i \in 1..Len(r) : p[Len(q) + i] = r[i]
  BY <1>1 DEF p
<1>3. \A i \in DOMAIN p : i \in 1..Len(q) \/ \E k \in 1..Len(r) : i = Len(q) + k
  <2>1. SUFFICES ASSUME NEW i \in DOMAIN p, i \notin 1..Len(q)
                 PROVE  \E k \in 1..Len(r) : i = Len(q) + k
    OBVIOUS
  <2>2. i - Len(q) \in 1..Len(r) /\ i = Len(q) + (i - Len(q))
    BY <1>1, <1>2, <2>1
  <2>3. QED
    BY <2>2
<1>4. \A k \in 1..Len(r) : Len(q) + k \in DOMAIN p
  BY <1>1, <1>2
<1>5. \A k \in 1..Len(q) : k \in DOMAIN p
  BY <1>1, <1>2
<1>6. EventsIn(p) = EventsIn(q) \cup EventsIn(r)
  <2>1. ASSUME NEW e \in EventsIn(p) PROVE e \in EventsIn(q) \cup EventsIn(r)
    <3>1. PICK i \in DOMAIN p : p[i].type = "event" /\ e = p[i].event
      BY <2>1 DEF EventsIn
    <3>2. CASE i \in 1..Len(q)
      <4>1. i \in DOMAIN q /\ q[i].type = "event" /\ e = q[i].event
        BY <1>1, <1>2, <3>1, <3>2
      <4>2. QED
        BY <4>1 DEF EventsIn
    <3>3. CASE i \notin 1..Len(q)
      <4>1. PICK k \in 1..Len(r) : i = Len(q) + k
        BY <1>3, <3>3
      <4>2. k \in DOMAIN r /\ r[k].type = "event" /\ e = r[k].event
        BY <1>1, <1>2, <3>1, <4>1
      <4>3. QED
        BY <4>2 DEF EventsIn
    <3>4. QED
      BY <3>2, <3>3
  <2>2. ASSUME NEW e \in EventsIn(q) PROVE e \in EventsIn(p)
    <3>1. PICK i \in DOMAIN q : q[i].type = "event" /\ e = q[i].event
      BY <2>2 DEF EventsIn
    <3>2. QED
      BY <1>1, <1>2, <1>5, <3>1 DEF EventsIn
  <2>3. ASSUME NEW e \in EventsIn(r) PROVE e \in EventsIn(p)
    <3>1. PICK i \in DOMAIN r : r[i].type = "event" /\ e = r[i].event
      BY <2>3 DEF EventsIn
    <3>2. QED
      BY <1>1, <1>2, <1>4, <3>1 DEF EventsIn
  <2>4. QED
    BY <2>1, <2>2, <2>3
<1>7. \A f : Carries(p, f) <=> Carries(q, f) \/ Carries(r, f)
  BY <1>1, <1>2, <1>3, <1>4, <1>5 DEF Carries
<1>8. ASSUME NEW f, NEW v, ~Carries(r, f), Settled(q, f, v) PROVE Settled(p, f, v)
  <2>1. SUFFICES ASSUME NEW i \in DOMAIN p, IsLock(p[i], f),
                        \A j \in DOMAIN p : j > i => ~IsLock(p[j], f)
                 PROVE  p[i].lock.value = v
    BY DEF Settled
  <2>2. i \in 1..Len(q)
    BY <1>1, <1>2, <1>3, <1>8, <2>1 DEF Carries
  <2>3. IsLock(q[i], f) /\ \A j \in 1..Len(q) : j > i => ~IsLock(q[j], f)
    BY <1>2, <1>5, <2>1, <2>2
  <2>4. q[i].lock.value = v
    BY <1>1, <1>8, <2>2, <2>3 DEF Settled
  <2>5. QED
    BY <1>2, <2>2, <2>4
<1>9. QED
  BY <1>1, <1>6, <1>7, <1>8 DEF p

LEMMA OneMessage ==
    ASSUME NEW m \in Message
    PROVE  /\ <<m>> \in Seq(Message)
           /\ EventsIn(<<m>>) = IF m.type = "event" THEN {m.event} ELSE {}
           /\ \A f : Carries(<<m>>, f) <=> IsLock(m, f)
<1>1. <<m>> \in Seq(Message) /\ DOMAIN <<m>> = {1} /\ <<m>>[1] = m
  OBVIOUS
<1>2. QED
  BY <1>1 DEF EventsIn, Carries

(* A lock payload that was just posted is the last one. *)
LEMMA PostedSettles ==
    ASSUME NEW q \in Seq(Message), NEW l \in Lock
    PROVE  Settled(q \o <<LockMsg(l)>>, l.flag, l.value)
<1> DEFINE m == LockMsg(l)
           p == q \o <<m>>
<1>1. m \in Message /\ m.type = "lock" /\ m.lock = l
  BY MessageFacts
<1> HIDE DEF m
<1>2. DOMAIN p = 1..(Len(q) + 1) /\ p[Len(q) + 1] = m /\ Len(q) \in Nat
  BY <1>1
<1> HIDE DEF p
<1>3. ASSUME NEW i \in DOMAIN p, \A j \in DOMAIN p : j > i => ~IsLock(p[j], l.flag)
      PROVE  p[i] = m
  BY <1>1, <1>2, <1>3 DEF IsLock
<1>4. Settled(p, l.flag, l.value)
  BY <1>1, <1>3 DEF Settled
<1>5. QED
  BY <1>4 DEF p, m

LEMMA TailFacts ==
    ASSUME NEW q \in Seq(Message), q # <<>>
    PROVE  /\ Tail(q) \in Seq(Message) /\ Head(q) \in Message
           /\ EventsIn(q) = EventsIn(Tail(q)) \cup EventsIn(<<Head(q)>>)
           /\ \A f : Carries(q, f) <=> IsLock(Head(q), f) \/ Carries(Tail(q), f)
           /\ \A f, v : Settled(q, f, v) => Settled(Tail(q), f, v)
           /\ \A f, v : Settled(q, f, v) /\ IsLock(Head(q), f) /\ ~Carries(Tail(q), f)
                           => Head(q).lock.value = v
<1> DEFINE p == Tail(q)
<1>1. /\ p \in Seq(Message) /\ Head(q) \in Message /\ Head(q) = q[1]
      /\ Len(q) \in Nat \ {0} /\ DOMAIN q = 1..Len(q) /\ DOMAIN p = 1..(Len(q) - 1)
      /\ \A i \in 1..(Len(q) - 1) : p[i] = q[i + 1]
  OBVIOUS
<1> HIDE DEF p
<1>2. \A i \in DOMAIN q : i = 1 \/ \E k \in DOMAIN p : i = k + 1
  <2>1. SUFFICES ASSUME NEW i \in DOMAIN q, i # 1 PROVE \E k \in DOMAIN p : i = k + 1
    OBVIOUS
  <2>2. i - 1 \in DOMAIN p /\ i = (i - 1) + 1
    BY <1>1, <2>1
  <2>3. QED
    BY <2>2
<1>3. 1 \in DOMAIN q /\ \A k \in DOMAIN p : k + 1 \in DOMAIN q /\ p[k] = q[k + 1]
  BY <1>1
<1>4. EventsIn(<<Head(q)>>) = IF Head(q).type = "event" THEN {Head(q).event} ELSE {}
  BY <1>1, OneMessage
<1>5. EventsIn(q) = EventsIn(p) \cup EventsIn(<<Head(q)>>)
  <2>1. ASSUME NEW e \in EventsIn(q) PROVE e \in EventsIn(p) \cup EventsIn(<<Head(q)>>)
    <3>1. PICK i \in DOMAIN q : q[i].type = "event" /\ e = q[i].event
      BY <2>1 DEF EventsIn
    <3>2. CASE i = 1
      BY <1>1, <1>4, <3>1, <3>2
    <3>3. CASE i # 1
      BY <1>2, <1>3, <3>1, <3>3 DEF EventsIn
    <3>4. QED
      BY <3>2, <3>3
  <2>2. ASSUME NEW e \in EventsIn(p) PROVE e \in EventsIn(q)
    <3>1. PICK i \in DOMAIN p : p[i].type = "event" /\ e = p[i].event
      BY <2>2 DEF EventsIn
    <3>2. QED
      BY <1>3, <3>1 DEF EventsIn
  <2>3. ASSUME NEW e \in EventsIn(<<Head(q)>>) PROVE e \in EventsIn(q)
    BY <1>1, <1>3, <1>4, <2>3 DEF EventsIn
  <2>4. QED
    BY <2>1, <2>2, <2>3
<1>6. \A f : Carries(q, f) <=> IsLock(Head(q), f) \/ Carries(p, f)
  BY <1>1, <1>2, <1>3 DEF Carries
<1>7. ASSUME NEW f, NEW v, Settled(q, f, v) PROVE Settled(p, f, v)
  <2>1. SUFFICES ASSUME NEW i \in DOMAIN p, IsLock(p[i], f),
                        \A j \in DOMAIN p : j > i => ~IsLock(p[j], f)
                 PROVE  p[i].lock.value = v
    BY DEF Settled
  <2>2. IsLock(q[i + 1], f) /\ i + 1 \in DOMAIN q
    BY <1>3, <2>1
  <2>3. ASSUME NEW j \in DOMAIN q, j > i + 1 PROVE ~IsLock(q[j], f)
    BY <1>1, <1>2, <1>3, <2>1, <2>3
  <2>4. q[i + 1].lock.value = v
    BY <1>7, <2>2, <2>3 DEF Settled
  <2>5. QED
    BY <1>3, <2>1, <2>4
<1>8. ASSUME NEW f, NEW v, Settled(q, f, v), IsLock(Head(q), f), ~Carries(p, f)
      PROVE  Head(q).lock.value = v
  <2>1. ASSUME NEW j \in DOMAIN q, j > 1 PROVE ~IsLock(q[j], f)
    BY <1>1, <1>2, <1>3, <1>8, <2>1 DEF Carries
  <2>2. QED
    BY <1>1, <1>3, <1>8, <2>1 DEF Settled
<1>9. QED
  BY <1>1, <1>5, <1>6, <1>7, <1>8 DEF p

-----------------------------------------------------------------------------
(* What a step does to each tab. *)

Types ==
    /\ phase \in [Tab -> {"closed", "mounted", "initialized", "subscribed"}]
    /\ stored \in [Flag -> Bit]
    /\ flags \in [Tab -> [Flag -> Bit]]
    /\ lastLockState \in [Tab -> Lock \cup {NoLock}]
    /\ systemEvents \in [Tab -> Seq(Event)]
    /\ pendingEvents \in [Tab -> Seq(Event)]
    /\ pendingMessages \in [Tab -> Seq(Message)]
    /\ wire \in [Tab -> [Tab -> Seq(Message)]]
    /\ emitter \in [Event -> Tab \cup {"nobody"}]
    /\ shown \in [Tab -> SUBSET Event]
    /\ due \in [Tab -> SUBSET Event]
    /\ toggledBy \in [Flag -> SUBSET Tab]
    /\ missed \in [Flag -> SUBSET Tab]
    /\ toggles \in 0..MaxToggles
    /\ opens \in 0..MaxOpens

LEMMA TypesAre == TypeOK <=> Types
BY DEF TypeOK, Types, Bit

LEMMA EventsInType == ASSUME NEW q \in Seq(Message) PROVE EventsIn(q) \subseteq Event
<1>1. \A i \in DOMAIN q : q[i] \in Message
  OBVIOUS
<1>2. ASSUME NEW e \in EventsIn(q) PROVE e \in Event
  <2>1. PICK i \in DOMAIN q : q[i].type = "event" /\ e = q[i].event
    BY <1>2 DEF EventsIn
  <2>2. "event" # "lock"
    OBVIOUS
  <2>3. QED
    BY <1>1, <2>1, <2>2, MessageFacts
<1>3. QED
  BY <1>2

(* Tab s, while on is true, posts msgs. *)
Grows(s, on, msgs) ==
    /\ wire' \in [Tab -> [Tab -> Seq(Message)]]
    /\ \A u, v \in Tab :
          wire'[u][v] = IF on /\ u = s /\ v \in Listeners(s)
                        THEN wire[u][v] \o msgs ELSE wire[u][v]
    /\ due' \in [Tab -> SUBSET Event]
    /\ \A v \in Tab :
          due'[v] = IF on /\ v \in Listeners(s)
                    THEN due[v] \cup EventsIn(msgs) ELSE due[v]

LEMMA PostedFacts ==
    ASSUME Types, NEW s \in Tab, NEW msgs \in Seq(Message), Posted(s, msgs)
    PROVE  Grows(s, TRUE, msgs)
<1>1. wire \in [Tab -> [Tab -> Seq(Message)]] /\ due \in [Tab -> SUBSET Event]
  BY DEF Types
<1> DEFINE row == [t \in Tab |-> IF t \in Listeners(s) THEN wire[s][t] \o msgs ELSE wire[s][t]]
<1>2. row \in [Tab -> Seq(Message)]
  <2>1. \A t \in Tab : wire[s][t] \in Seq(Message) /\ wire[s][t] \o msgs \in Seq(Message)
    BY <1>1, JoinedFacts
  <2>2. QED
    BY <2>1
<1>3. wire' = [wire EXCEPT ![s] = row]
  BY DEF Posted
<1>4. \A t \in Tab : row[t] = IF t \in Listeners(s) THEN wire[s][t] \o msgs ELSE wire[s][t]
  OBVIOUS
<1> HIDE DEF row
<1>5. wire' \in [Tab -> [Tab -> Seq(Message)]]
      /\ \A u \in Tab : wire'[u] = IF u = s THEN row ELSE wire[u]
  BY <1>1, <1>2, <1>3
<1>6. due' = [t \in Tab |-> IF t \in Listeners(s) THEN due[t] \cup EventsIn(msgs) ELSE due[t]]
  BY DEF Posted
<1>7. due' \in [Tab -> SUBSET Event]
  BY <1>1, <1>6, EventsInType
<1>8. QED
  BY <1>4, <1>5, <1>6, <1>7 DEF Grows

LEMMA PostFacts ==
    ASSUME Types, NEW s \in Tab, NEW m \in Message, PostMessage(s, m)
    PROVE  /\ Grows(s, Connected(s), <<m>>)
           /\ pendingMessages' \in [Tab -> Seq(Message)]
           /\ \A u \in Tab :
                 pendingMessages'[u] = IF u = s /\ ~Connected(s)
                                       THEN pendingMessages[u] \o <<m>> ELSE pendingMessages[u]
<1>1. wire \in [Tab -> [Tab -> Seq(Message)]] /\ due \in [Tab -> SUBSET Event]
      /\ pendingMessages \in [Tab -> Seq(Message)] /\ <<m>> \in Seq(Message)
  BY DEF Types
<1>2. CASE Connected(s)
  <2>1. Posted(s, <<m>>) /\ pendingMessages' = pendingMessages
    BY <1>2 DEF PostMessage
  <2>2. Grows(s, TRUE, <<m>>)
    BY <1>1, <2>1, PostedFacts
  <2>3. Grows(s, Connected(s), <<m>>)
    BY <1>2, <2>2 DEF Grows
  <2>4. QED
    BY <1>1, <1>2, <2>1, <2>3
<1>3. CASE ~Connected(s)
  <2>1. wire' = wire /\ due' = due
        /\ pendingMessages' = [pendingMessages EXCEPT ![s] = Append(@, m)]
    BY <1>3 DEF PostMessage
  <2>2. Append(pendingMessages[s], m) = pendingMessages[s] \o <<m>>
    BY <1>1
  <2>3. Append(pendingMessages[s], m) \in Seq(Message)
    BY <1>1
  <2>4. Grows(s, Connected(s), <<m>>)
    BY <1>1, <1>3, <2>1 DEF Grows
  <2>5. QED
    BY <1>1, <1>3, <2>1, <2>2, <2>3, <2>4
<1>4. QED
  BY <1>2, <1>3

(* The value a toggle writes, everywhere at once. *)
LEMMA ToggleFacts ==
    ASSUME Types, NEW t \in Tab, NEW f \in Flag, Toggle(t, f)
    PROVE  \E v \in Bit :
              /\ flags' = [flags EXCEPT ![t][f] = v]
              /\ stored' = [stored EXCEPT ![f] = v]
              /\ lastLockState' = [lastLockState EXCEPT ![t] = [flag |-> f, value |-> v]]
              /\ PostMessage(t, LockMsg([flag |-> f, value |-> v]))
<1>1. flags[t][f] \in Bit
  BY DEF Types
<1>2. (~flags[t][f]) \in Bit
  BY <1>1 DEF Bit
<1>3. QED
  BY <1>2, Zenon DEF Toggle

(* handleMessage: the head of a queue is taken and given to its handler. *)
LEMMA TakenFacts ==
    ASSUME Types, NEW s \in Tab, NEW t \in Tab, HandleMessage(s, t)
    PROVE  /\ wire[s][t] \in Seq(Message) /\ wire[s][t] # <<>>
           /\ wire' \in [Tab -> [Tab -> Seq(Message)]]
           /\ \A u, v \in Tab :
                 wire'[u][v] = IF u = s /\ v = t THEN Tail(wire[u][v]) ELSE wire[u][v]
<1>1. wire \in [Tab -> [Tab -> Seq(Message)]] /\ wire[s][t] # <<>>
  BY DEF Types, HandleMessage
<1>2. Tail(wire[s][t]) \in Seq(Message)
  BY <1>1, TailFacts
<1>3. wire' = [wire EXCEPT ![s][t] = Tail(wire[s][t])]
  BY DEF HandleMessage
<1>4. QED
  BY <1>1, <1>2, <1>3

LEMMA WithLockType ==
    ASSUME NEW fs \in [Flag -> Bit], NEW l \in Lock \cup {NoLock}
    PROVE  /\ WithLock(fs, l) \in [Flag -> Bit]
           /\ \A f \in Flag : WithLock(fs, l)[f]
                 = IF l # NoLock /\ l.flag = f THEN l.value ELSE fs[f]
<1>1. CASE l = NoLock
  BY <1>1 DEF WithLock
<1>2. CASE l \in Lock
  BY <1>2, LockFacts DEF WithLock
<1>3. QED
  BY <1>1, <1>2

LEMMA TypesInit == Init => Types
<1> SUFFICES ASSUME Init PROVE Types
  OBVIOUS
<1>1. FALSE \in Bit
  BY DEF Bit
<1> DEFINE no == FALSE
<1>2. no \in Bit
  BY <1>1
<1>3. /\ stored = [f \in Flag |-> no]
      /\ flags = [t \in Tab |-> [f \in Flag |-> no]]
  BY DEF Init
<1> HIDE DEF no
<1>4. stored \in [Flag -> Bit] /\ flags \in [Tab -> [Flag -> Bit]]
  BY <1>2, <1>3
<1>5. toggles \in 0..MaxToggles /\ opens \in 0..MaxOpens
  BY BoundsAssumption DEF Init
<1>6. /\ lastLockState \in [Tab -> Lock \cup {NoLock}]
      /\ emitter \in [Event -> Tab \cup {"nobody"}]
      /\ shown \in [Tab -> SUBSET Event]
      /\ due \in [Tab -> SUBSET Event]
      /\ toggledBy \in [Flag -> SUBSET Tab]
      /\ missed \in [Flag -> SUBSET Tab]
      /\ phase \in [Tab -> {"closed", "mounted", "initialized", "subscribed"}]
  BY DEF Init
<1>7. <<>> \in Seq(Event) /\ <<>> \in Seq(Message)
  OBVIOUS
<1>8. /\ systemEvents \in [Tab -> Seq(Event)]
      /\ pendingEvents \in [Tab -> Seq(Event)]
      /\ pendingMessages \in [Tab -> Seq(Message)]
      /\ wire \in [Tab -> [Tab -> Seq(Message)]]
  BY <1>7 DEF Init
<1>9. QED
  BY <1>4, <1>5, <1>6, <1>8 DEF Types

LEMMA TypesStep == Types /\ [Next]_vars => Types'
<1> SUFFICES ASSUME Types, [Next]_vars PROVE Types'
  OBVIOUS
<1> DEFINE Phases == {"closed", "mounted", "initialized", "subscribed"}
<1>1. ASSUME NEW t \in Tab, OpenTab(t) PROVE Types'
  <2>1. opens' \in 0..MaxOpens
    BY <1>1, BoundsAssumption DEF OpenTab, Types
  <2>2. phase' \in [Tab -> Phases] /\ flags' \in [Tab -> [Flag -> Bit]]
    BY <1>1 DEF OpenTab, Types
  <2>3. QED
    BY <1>1, <2>1, <2>2 DEF OpenTab, Types, service
<1>2. ASSUME NEW t \in Tab, InitChannel(t) PROVE Types'
  <2>1. pendingMessages[t] \in Seq(Message) /\ Posted(t, pendingMessages[t])
    BY <1>2 DEF InitChannel, Types
  <2>2. wire' \in [Tab -> [Tab -> Seq(Message)]] /\ due' \in [Tab -> SUBSET Event]
    BY <2>1, PostedFacts DEF Grows
  <2>3. phase' \in [Tab -> Phases] /\ pendingMessages' \in [Tab -> Seq(Message)]
    <3>1. <<>> \in Seq(Message)
      OBVIOUS
    <3>2. QED
      BY <1>2, <3>1 DEF InitChannel, Types
  <2>4. QED
    BY <1>2, <2>2, <2>3 DEF InitChannel, Types, app
<1>3. ASSUME NEW t \in Tab, Subscribe(t) PROVE Types'
  <2>1. SyncRemoteEvents(systemEvents[t], pendingEvents[t]) \in Seq(Event)
    BY ReducerFacts DEF Types
  <2>2. WithLock(flags[t], lastLockState[t]) \in [Flag -> Bit]
    BY WithLockType DEF Types
  <2>3. systemEvents' \in [Tab -> Seq(Event)] /\ flags' \in [Tab -> [Flag -> Bit]]
    BY <1>3, <2>1, <2>2 DEF Subscribe, Types
  <2>4. phase' \in [Tab -> Phases] /\ pendingEvents' \in [Tab -> Seq(Event)]
    <3>1. <<>> \in Seq(Event)
      OBVIOUS
    <3>2. QED
      BY <1>3, <3>1 DEF Subscribe, Types
  <2>5. shown' \in [Tab -> SUBSET Event]
    <3>1. ToSet(pendingEvents[t]) \subseteq Event
      BY DEF Types, ToSet
    <3>2. QED
      BY <1>3, <3>1 DEF Subscribe, Types
  <2>6. QED
    BY <1>3, <2>3, <2>4, <2>5 DEF Subscribe, Types
<1>4. ASSUME NEW t \in Tab, CloseTab(t) PROVE Types'
  <2>1. <<>> \in Seq(Message) /\ <<>> \in Seq(Event)
    OBVIOUS
  <2>2. wire' \in [Tab -> [Tab -> Seq(Message)]]
    BY <1>4, <2>1 DEF CloseTab, Types
  <2>3. /\ pendingMessages' \in [Tab -> Seq(Message)]
        /\ pendingEvents' \in [Tab -> Seq(Event)]
        /\ systemEvents' \in [Tab -> Seq(Event)]
    BY <1>4, <2>1 DEF CloseTab, Types
  <2>4. /\ phase' \in [Tab -> Phases]
        /\ lastLockState' \in [Tab -> Lock \cup {NoLock}]
        /\ shown' \in [Tab -> SUBSET Event]
        /\ due' \in [Tab -> SUBSET Event]
        /\ missed' \in [Flag -> SUBSET Tab]
    BY <1>4 DEF CloseTab, Types
  <2>5. QED
    BY <1>4, <2>2, <2>3, <2>4 DEF CloseTab, Types
<1>5. ASSUME NEW t \in Tab, ClearSystemEvents(t) PROVE Types'
  <2>1. systemEvents' \in [Tab -> Seq(Event)]
    <3>1. <<>> \in Seq(Event)
      OBVIOUS
    <3>2. QED
      BY <1>5, <3>1 DEF ClearSystemEvents, Types
  <2>2. QED
    BY <1>5, <2>1 DEF ClearSystemEvents, Types, service, history
<1>6. ASSUME NEW t \in Tab, NEW e \in Event, EmitSystemEvent(t, e) PROVE Types'
  <2>1. EventMsg(e) \in Message /\ PostMessage(t, EventMsg(e))
    BY <1>6, MessageFacts DEF EmitSystemEvent
  <2>2. /\ wire' \in [Tab -> [Tab -> Seq(Message)]] /\ due' \in [Tab -> SUBSET Event]
        /\ pendingMessages' \in [Tab -> Seq(Message)]
    BY <2>1, PostFacts DEF Grows
  <2>3. Append(systemEvents[t], e) \in Seq(Event) /\ Append(pendingEvents[t], e) \in Seq(Event)
    BY DEF Types
  <2>4. /\ systemEvents' \in [Tab -> Seq(Event)]
        /\ pendingEvents' \in [Tab -> Seq(Event)]
    BY <1>6, <2>3 DEF EmitSystemEvent, Types
  <2>5. emitter' \in [Event -> Tab \cup {"nobody"}] /\ shown' \in [Tab -> SUBSET Event]
    BY <1>6 DEF EmitSystemEvent, Types
  <2>6. QED
    BY <1>6, <2>2, <2>4, <2>5 DEF EmitSystemEvent, Types
<1>7. ASSUME NEW t \in Tab, NEW f \in Flag, Toggle(t, f) PROVE Types'
  <2>1. PICK v \in Bit :
           /\ flags' = [flags EXCEPT ![t][f] = v]
           /\ stored' = [stored EXCEPT ![f] = v]
           /\ lastLockState' = [lastLockState EXCEPT ![t] = [flag |-> f, value |-> v]]
           /\ PostMessage(t, LockMsg([flag |-> f, value |-> v]))
    BY <1>7, ToggleFacts
  <2> DEFINE l == [flag |-> f, value |-> v]
  <2>2. l \in Lock
    BY LockFacts
  <2> HIDE DEF l
  <2>3. LockMsg(l) \in Message /\ PostMessage(t, LockMsg(l))
    BY <2>1, <2>2, MessageFacts DEF l
  <2>4. /\ wire' \in [Tab -> [Tab -> Seq(Message)]] /\ due' \in [Tab -> SUBSET Event]
        /\ pendingMessages' \in [Tab -> Seq(Message)]
    BY <2>3, PostFacts DEF Grows
  <2>5. lastLockState' \in [Tab -> Lock \cup {NoLock}]
    <3>1. lastLockState' = [lastLockState EXCEPT ![t] = l]
      BY <2>1 DEF l
    <3>2. QED
      BY <2>2, <3>1 DEF Types
  <2>6. flags' \in [Tab -> [Flag -> Bit]] /\ stored' \in [Flag -> Bit]
    BY <2>1 DEF Types
  <2>7. toggles' \in 0..MaxToggles
    BY <1>7, BoundsAssumption DEF Toggle, Types
  <2>8. toggledBy' \in [Flag -> SUBSET Tab] /\ missed' \in [Flag -> SUBSET Tab]
    <3>1. toggledBy[f] \cup {t} \in SUBSET Tab
      BY DEF Types
    <3>2. (missed[f] \cup {u \in Tab \ {t} : phase[u] \in {"mounted", "initialized"}})
             \in SUBSET Tab
      BY DEF Types
    <3>3. toggledBy' \in [Flag -> SUBSET Tab]
      BY <1>7, <3>1 DEF Toggle, Types
    <3>4. missed' \in [Flag -> SUBSET Tab]
      BY <1>7, <3>2 DEF Toggle, Types
    <3>5. QED
      BY <3>3, <3>4
  <2>9. QED
    BY <1>7, <2>4, <2>5, <2>6, <2>7, <2>8 DEF Toggle, Types
<1>8. ASSUME NEW s \in Tab, NEW t \in Tab, HandleMessage(s, t) PROVE Types'
  <2>1. wire' \in [Tab -> [Tab -> Seq(Message)]] /\ Head(wire[s][t]) \in Message
    BY <1>8, TakenFacts, TailFacts
  <2> DEFINE m == Head(wire[s][t])
  <2>2. CASE m.type = "event" /\ HandleEvent(t, m.event)
    <3> DEFINE e == m.event
    <3>1. e \in Event
      BY <2>1, <2>2, MessageFacts
    <3> HIDE DEF e
    <3>2. HandleEvent(t, e)
      BY <2>2 DEF e
    <3>3. <<e>> \in Seq(Event) /\ Append(pendingEvents[t], e) \in Seq(Event)
      BY <3>1 DEF Types
    <3>4. SyncRemoteEvents(systemEvents[t], <<e>>) \in Seq(Event)
      BY <3>3, ReducerFacts DEF Types
    <3>5. /\ systemEvents' \in [Tab -> Seq(Event)]
          /\ pendingEvents' \in [Tab -> Seq(Event)]
          /\ shown' \in [Tab -> SUBSET Event]
      <4>1. CASE Subscribed(t)
        <5>1. shown[t] \cup {e} \in SUBSET Event
          BY <3>1 DEF Types
        <5>2. shown' \in [Tab -> SUBSET Event]
          BY <3>2, <4>1, <5>1 DEF HandleEvent, Types
        <5>3. systemEvents' \in [Tab -> Seq(Event)]
          BY <3>2, <3>4, <4>1 DEF HandleEvent, Types
        <5>4. pendingEvents' = pendingEvents
          BY <3>2, <4>1 DEF HandleEvent
        <5>5. QED
          BY <5>2, <5>3, <5>4 DEF Types
      <4>2. CASE ~Subscribed(t)
        <5>1. pendingEvents' \in [Tab -> Seq(Event)]
          BY <3>2, <3>3, <4>2 DEF HandleEvent, Types
        <5>2. systemEvents' = systemEvents /\ shown' = shown
          BY <3>2, <4>2 DEF HandleEvent
        <5>3. QED
          BY <5>1, <5>2 DEF Types
      <4>3. QED
        BY <4>1, <4>2
    <3>6. flags' = flags /\ lastLockState' = lastLockState
      BY <3>2 DEF HandleEvent
    <3>7. QED
      BY <1>8, <2>1, <3>5, <3>6 DEF HandleMessage, Types
  <2>3. CASE m.type = "lock" /\ HandleLock(t, m.lock)
    <3> DEFINE l == m.lock
    <3>1. l \in Lock
      BY <2>1, <2>3, MessageFacts
    <3> HIDE DEF l
    <3>2. HandleLock(t, l)
      BY <2>3 DEF l
    <3>3. WithLock(flags[t], l) \in [Flag -> Bit]
      BY <3>1, WithLockType DEF Types
    <3>4. flags' \in [Tab -> [Flag -> Bit]] /\ lastLockState' \in [Tab -> Lock \cup {NoLock}]
      BY <3>1, <3>2, <3>3 DEF HandleLock, Types
    <3>5. systemEvents' = systemEvents /\ shown' = shown /\ pendingEvents' = pendingEvents
      BY <3>2 DEF HandleLock
    <3>6. QED
      BY <1>8, <2>1, <3>4, <3>5 DEF HandleMessage, Types
  <2>4. QED
    BY <1>8, <2>2, <2>3 DEF HandleMessage
<1>9. CASE UNCHANGED vars
  BY <1>9 DEF vars, service, app, history, Types
<1>10. QED
  BY <1>1, <1>2, <1>3, <1>4, <1>5, <1>6, <1>7, <1>8, <1>9 DEF Next

-----------------------------------------------------------------------------
(* The events: what is listed, kept or in transit has been emitted, so an  *)
(* event that is emitted is new to every list.                             *)

Emitted == {e \in Event : emitter[e] # "nobody"}

KnownWire   == \A s, t \in Tab : EventsIn(wire[s][t]) \subseteq Emitted
KnownKept   == \A t \in Tab : /\ ToSet(pendingEvents[t]) \subseteq Emitted
                              /\ EventsIn(pendingMessages[t]) \subseteq Emitted
KnownListed == \A t \in Tab : ToSet(systemEvents[t]) \subseteq Emitted

EventsIInv ==
    /\ KnownWire
    /\ KnownKept
    /\ KnownListed
    /\ EventsConserved
    /\ NoDuplicateEvents

LEMMA AppendedFacts ==
    ASSUME NEW q \in Seq(Event), NEW e \in Event
    PROVE  /\ ToSet(Append(q, e)) = ToSet(q) \cup {e}
           /\ IsInjective(q) /\ e \notin ToSet(q) => IsInjective(Append(q, e))
<1> DEFINE p == Append(q, e)
<1>1. /\ DOMAIN p = 1..(Len(q) + 1) /\ p[Len(q) + 1] = e /\ \A i \in 1..Len(q) : p[i] = q[i]
      /\ Len(q) \in Nat /\ DOMAIN q = 1..Len(q)
  OBVIOUS
<1> HIDE DEF p
<1>2. ToSet(p) = ToSet(q) \cup {e}
  BY <1>1 DEF ToSet
<1>3. IsInjective(q) /\ e \notin ToSet(q) => IsInjective(p)
  BY <1>1 DEF ToSet, IsInjective
<1>4. QED
  BY <1>2, <1>3 DEF p

LEMMA NothingListed == ToSet(<<>>) = {} /\ IsInjective(<<>>)
BY DEF ToSet, IsInjective

(* Posting loses nothing. *)
LEMMA GrowthKeeps ==
    ASSUME Types, EventsIInv, NEW s \in Tab, NEW on, NEW msgs \in Seq(Message),
           Grows(s, on, msgs),
           Emitted \subseteq Emitted', EventsIn(msgs) \subseteq Emitted',
           \A t \in Tab : ToSet(pendingEvents[t]) \subseteq ToSet(pendingEvents'[t]),
           \A t \in Tab : shown[t] \subseteq shown'[t]
    PROVE  KnownWire' /\ EventsConserved'
<1>1. \A u, v \in Tab :
         EventsIn(wire'[u][v]) = IF on /\ u = s /\ v \in Listeners(s)
                                 THEN EventsIn(wire[u][v]) \cup EventsIn(msgs)
                                 ELSE EventsIn(wire[u][v])
  <2>1. SUFFICES ASSUME NEW u \in Tab, NEW v \in Tab
                 PROVE  EventsIn(wire'[u][v])
                           = IF on /\ u = s /\ v \in Listeners(s)
                             THEN EventsIn(wire[u][v]) \cup EventsIn(msgs)
                             ELSE EventsIn(wire[u][v])
    OBVIOUS
  <2>2. wire[u][v] \in Seq(Message)
    BY DEF Types
  <2>3. EventsIn(wire[u][v] \o msgs) = EventsIn(wire[u][v]) \cup EventsIn(msgs)
    BY <2>2, JoinedFacts
  <2>4. wire'[u][v] = IF on /\ u = s /\ v \in Listeners(s)
                      THEN wire[u][v] \o msgs ELSE wire[u][v]
    BY DEF Grows
  <2>5. QED
    BY <2>3, <2>4
<1>2. KnownWire'
  BY <1>1 DEF KnownWire, EventsIInv
<1>3. ASSUME NEW t \in Tab, NEW e \in due'[t]
      PROVE  e \in InTransit(t)' \cup ToSet(pendingEvents'[t]) \cup shown'[t]
  <2>1. \A u \in Tab : EventsIn(wire[u][t]) \subseteq EventsIn(wire'[u][t])
    BY <1>1
  <2>2. CASE e \in due[t]
    <3>1. e \in InTransit(t) \cup ToSet(pendingEvents[t]) \cup shown[t]
      BY <2>2 DEF EventsIInv, EventsConserved
    <3>2. QED
      BY <2>1, <3>1 DEF InTransit
  <2>3. CASE e \notin due[t]
    <3>1. on /\ t \in Listeners(s) /\ e \in EventsIn(msgs)
      BY <1>3, <2>3 DEF Grows
    <3>2. e \in EventsIn(wire'[s][t])
      BY <1>1, <3>1
    <3>3. QED
      BY <3>2 DEF InTransit
  <2>4. QED
    BY <2>2, <2>3
<1>4. EventsConserved'
  BY <1>3 DEF EventsConserved
<1>5. QED
  BY <1>2, <1>4

LEMMA EventsInit == Init => EventsIInv
<1> SUFFICES ASSUME Init PROVE EventsIInv
  OBVIOUS
<1>1. \A t \in Tab : /\ systemEvents[t] = <<>> /\ pendingEvents[t] = <<>>
                     /\ pendingMessages[t] = <<>> /\ due[t] = {}
                     /\ \A s \in Tab : wire[s][t] = <<>>
  BY DEF Init
<1>2. KnownWire /\ KnownKept /\ KnownListed
  BY <1>1, EmptyFacts, NothingListed DEF KnownWire, KnownKept, KnownListed
<1>3. EventsConserved /\ NoDuplicateEvents
  BY <1>1, NothingListed DEF EventsConserved, NoDuplicateEvents
<1>4. QED
  BY <1>2, <1>3 DEF EventsIInv

(* A step that leaves the wires, the lists and the kept events alone.      *)
LEMMA EventsUntouched ==
    ASSUME EventsIInv,
           UNCHANGED <<wire, due, shown, emitter, systemEvents, pendingEvents, pendingMessages>>
    PROVE  EventsIInv'
BY DEF EventsIInv, KnownWire, KnownKept, KnownListed, EventsConserved, NoDuplicateEvents,
       Emitted, InTransit

LEMMA InitChannelKeepsEvents ==
    ASSUME Types, EventsIInv, NEW t \in Tab, InitChannel(t)
    PROVE  EventsIInv'
<1>1. /\ pendingMessages[t] \in Seq(Message)
      /\ Posted(t, pendingMessages[t])
      /\ pendingMessages' = [pendingMessages EXCEPT ![t] = <<>>]
      /\ pendingEvents' = pendingEvents /\ systemEvents' = systemEvents
      /\ shown' = shown /\ emitter' = emitter
  BY DEF InitChannel, Types, app
<1>2. Emitted' = Emitted
  BY <1>1 DEF Emitted
<1>3. EventsIn(pendingMessages[t]) \subseteq Emitted
  BY DEF EventsIInv, KnownKept
<1>4. KnownWire' /\ EventsConserved'
  <2>1. Grows(t, TRUE, pendingMessages[t])
    BY <1>1, PostedFacts
  <2>2. QED
    BY <1>1, <1>2, <1>3, <2>1, GrowthKeeps
<1>5. KnownKept'
  <2>1. \A u \in Tab : pendingMessages'[u] = IF u = t THEN <<>> ELSE pendingMessages[u]
    BY <1>1 DEF Types
  <2>2. QED
    BY <1>1, <1>2, <2>1, EmptyFacts DEF EventsIInv, KnownKept
<1>6. KnownListed' /\ NoDuplicateEvents'
  BY <1>1, <1>2 DEF EventsIInv, KnownListed, NoDuplicateEvents
<1>7. QED
  BY <1>4, <1>5, <1>6 DEF EventsIInv

LEMMA SubscribeKeepsEvents ==
    ASSUME Types, EventsIInv, NEW t \in Tab, Subscribe(t)
    PROVE  EventsIInv'
<1> DEFINE list == SyncRemoteEvents(systemEvents[t], pendingEvents[t])
<1>1. /\ systemEvents[t] \in Seq(Event) /\ pendingEvents[t] \in Seq(Event)
      /\ IsInjective(systemEvents[t])
      /\ ToSet(systemEvents[t]) \subseteq Emitted /\ ToSet(pendingEvents[t]) \subseteq Emitted
  BY DEF Types, EventsIInv, KnownKept, KnownListed, NoDuplicateEvents
<1>2. ToSet(list) \subseteq Emitted /\ IsInjective(list)
  BY <1>1, ReducerFacts
<1>3. systemEvents' = [systemEvents EXCEPT ![t] = list]
  BY DEF Subscribe
<1> HIDE DEF list
<1>4. \A u \in Tab : /\ systemEvents'[u] = IF u = t THEN list ELSE systemEvents[u]
                     /\ pendingEvents'[u] = IF u = t THEN <<>> ELSE pendingEvents[u]
                     /\ shown'[u] = IF u = t THEN shown[u] \cup ToSet(pendingEvents[u])
                                             ELSE shown[u]
  BY <1>3 DEF Subscribe, Types
<1>5. /\ pendingMessages' = pendingMessages /\ wire' = wire
      /\ emitter' = emitter /\ due' = due
  BY DEF Subscribe
<1>6. Emitted' = Emitted
  BY <1>5 DEF Emitted
<1>7. KnownWire' /\ KnownKept' /\ KnownListed' /\ NoDuplicateEvents'
  BY <1>2, <1>4, <1>5, <1>6, NothingListed
     DEF EventsIInv, KnownWire, KnownKept, KnownListed, NoDuplicateEvents
<1>8. EventsConserved'
  <2>1. \A u \in Tab : InTransit(u)' = InTransit(u)
    BY <1>5 DEF InTransit
  <2>2. \A u \in Tab : ToSet(pendingEvents[u]) \cup shown[u]
                          \subseteq ToSet(pendingEvents'[u]) \cup shown'[u]
    BY <1>4
  <2>3. QED
    BY <1>5, <2>1, <2>2 DEF EventsIInv, EventsConserved
<1>9. QED
  BY <1>7, <1>8 DEF EventsIInv

LEMMA CloseTabKeepsEvents ==
    ASSUME Types, EventsIInv, NEW t \in Tab, CloseTab(t)
    PROVE  EventsIInv'
<1>1. \A u \in Tab :
         /\ systemEvents'[u] = IF u = t THEN <<>> ELSE systemEvents[u]
         /\ pendingEvents'[u] = IF u = t THEN <<>> ELSE pendingEvents[u]
         /\ pendingMessages'[u] = IF u = t THEN <<>> ELSE pendingMessages[u]
         /\ shown'[u] = IF u = t THEN {} ELSE shown[u]
         /\ due'[u] = IF u = t THEN {} ELSE due[u]
         /\ \A s \in Tab : wire'[s][u] = IF u = t THEN <<>> ELSE wire[s][u]
  BY DEF CloseTab, Types
<1>2. Emitted' = Emitted
  BY DEF CloseTab, Emitted
<1>3. KnownWire' /\ KnownKept' /\ KnownListed' /\ NoDuplicateEvents'
  BY <1>1, <1>2, EmptyFacts, NothingListed
     DEF EventsIInv, KnownWire, KnownKept, KnownListed, NoDuplicateEvents
<1>4. EventsConserved'
  <2>1. \A u \in Tab : u # t => InTransit(u)' = InTransit(u)
    BY <1>1 DEF InTransit
  <2>2. QED
    BY <1>1, <2>1 DEF EventsIInv, EventsConserved
<1>5. QED
  BY <1>3, <1>4 DEF EventsIInv

LEMMA EmitKeepsEvents ==
    ASSUME Types, EventsIInv, NEW t \in Tab, NEW e \in Event, EmitSystemEvent(t, e)
    PROVE  EventsIInv'
<1>1. /\ e \notin Emitted /\ Emitted' = Emitted \cup {e}
  BY NamesAssumption DEF EmitSystemEvent, Emitted, Types
<1>2. /\ systemEvents[t] \in Seq(Event) /\ pendingEvents[t] \in Seq(Event)
      /\ IsInjective(systemEvents[t]) /\ ToSet(systemEvents[t]) \subseteq Emitted
      /\ ToSet(pendingEvents[t]) \subseteq Emitted
  BY DEF Types, EventsIInv, KnownKept, KnownListed, NoDuplicateEvents
<1>3. /\ ToSet(Append(systemEvents[t], e)) \subseteq Emitted'
      /\ IsInjective(Append(systemEvents[t], e))
      /\ ToSet(Append(pendingEvents[t], e)) = ToSet(pendingEvents[t]) \cup {e}
  BY <1>1, <1>2, AppendedFacts
<1>4. /\ \A u \in Tab : systemEvents'[u] = IF u = t THEN Append(systemEvents[t], e)
                                           ELSE systemEvents[u]
      /\ \A u \in Tab : shown[u] \subseteq shown'[u]
  BY DEF EmitSystemEvent, Types
<1>5. \A u \in Tab : /\ ToSet(pendingEvents[u]) \subseteq ToSet(pendingEvents'[u])
                     /\ ToSet(pendingEvents'[u]) \subseteq Emitted'
  <2>1. \A u \in Tab : \/ pendingEvents'[u] = pendingEvents[u]
                       \/ u = t /\ pendingEvents'[u] = Append(pendingEvents[t], e)
    BY DEF EmitSystemEvent, Types
  <2>2. \A u \in Tab : ToSet(pendingEvents[u]) \subseteq Emitted
    BY DEF EventsIInv, KnownKept
  <2>3. QED
    BY <1>1, <1>3, <2>1, <2>2
<1>6. /\ EventMsg(e) \in Message /\ PostMessage(t, EventMsg(e))
      /\ <<EventMsg(e)>> \in Seq(Message) /\ EventsIn(<<EventMsg(e)>>) = {e}
  BY MessageFacts, OneMessage DEF EmitSystemEvent
<1>7. KnownWire' /\ EventsConserved'
  <2>1. Grows(t, Connected(t), <<EventMsg(e)>>)
    BY <1>6, PostFacts
  <2>2. QED
    BY <1>1, <1>4, <1>5, <1>6, <2>1, GrowthKeeps
<1>8. KnownKept'
  <2>1. ASSUME NEW u \in Tab PROVE EventsIn(pendingMessages'[u]) \subseteq Emitted'
    <3>1. pendingMessages'[u] = pendingMessages[u]
          \/ pendingMessages'[u] = pendingMessages[u] \o <<EventMsg(e)>>
      BY <1>6, PostFacts
    <3>2. pendingMessages[u] \in Seq(Message) /\ EventsIn(pendingMessages[u]) \subseteq Emitted
      BY DEF Types, EventsIInv, KnownKept
    <3>3. EventsIn(pendingMessages[u] \o <<EventMsg(e)>>) = EventsIn(pendingMessages[u]) \cup {e}
      BY <1>6, <3>2, JoinedFacts
    <3>4. QED
      BY <1>1, <3>1, <3>2, <3>3
  <2>2. QED
    BY <1>5, <2>1 DEF KnownKept
<1>9. KnownListed' /\ NoDuplicateEvents'
  BY <1>1, <1>3, <1>4 DEF EventsIInv, KnownListed, NoDuplicateEvents
<1>10. QED
  BY <1>7, <1>8, <1>9 DEF EventsIInv

LEMMA ToggleKeepsEvents ==
    ASSUME Types, EventsIInv, NEW t \in Tab, NEW f \in Flag, Toggle(t, f)
    PROVE  EventsIInv'
<1>1. PICK v \in Bit : PostMessage(t, LockMsg([flag |-> f, value |-> v]))
  BY ToggleFacts
<1> DEFINE l == [flag |-> f, value |-> v]
           m == LockMsg(l)
<1>2. l \in Lock
  BY LockFacts
<1> HIDE DEF l
<1>3. /\ m \in Message /\ m.type = "lock" /\ PostMessage(t, m)
  BY <1>1, <1>2, MessageFacts DEF l
<1> HIDE DEF m
<1>4. /\ <<m>> \in Seq(Message) /\ EventsIn(<<m>>) = {}
  BY <1>3, OneMessage
<1>5. /\ systemEvents' = systemEvents /\ pendingEvents' = pendingEvents
      /\ emitter' = emitter /\ shown' = shown /\ Connected(t)
  BY DEF Toggle
<1>6. Emitted' = Emitted
  BY <1>5 DEF Emitted
<1>7. KnownWire' /\ EventsConserved'
  <2>1. Grows(t, Connected(t), <<m>>)
    BY <1>3, PostFacts
  <2>2. QED
    BY <1>4, <1>5, <1>6, <2>1, GrowthKeeps
<1>8. KnownKept'
  <2>1. \A u \in Tab : pendingMessages'[u] = pendingMessages[u]
    BY <1>3, <1>5, PostFacts
  <2>2. QED
    BY <1>5, <1>6, <2>1 DEF EventsIInv, KnownKept
<1>9. KnownListed' /\ NoDuplicateEvents'
  BY <1>5, <1>6 DEF EventsIInv, KnownListed, NoDuplicateEvents
<1>10. QED
  BY <1>7, <1>8, <1>9 DEF EventsIInv

(* A message that is taken from the wire is listed or kept. *)
LEMMA HandleKeepsEvents ==
    ASSUME Types, EventsIInv, NEW s \in Tab, NEW t \in Tab, HandleMessage(s, t)
    PROVE  EventsIInv'
<1> DEFINE m == Head(wire[s][t])
           taken == EventsIn(<<m>>)
<1>0. /\ wire[s][t] \in Seq(Message) /\ wire[s][t] # <<>>
      /\ \A u, v \in Tab :
            wire'[u][v] = IF u = s /\ v = t THEN Tail(wire[u][v]) ELSE wire[u][v]
  BY TakenFacts
<1>1. /\ m \in Message
      /\ EventsIn(wire[s][t]) = EventsIn(Tail(wire[s][t])) \cup taken
      /\ \A u, v \in Tab :
            wire'[u][v] = IF u = s /\ v = t THEN Tail(wire[u][v]) ELSE wire[u][v]
  <2> DEFINE q == wire[s][t]
  <2>1. q \in Seq(Message) /\ q # <<>>
    BY <1>0
  <2>2. Head(q) \in Message /\ EventsIn(q) = EventsIn(Tail(q)) \cup EventsIn(<<Head(q)>>)
    <3> HIDE DEF q
    <3>1. QED
      BY <2>1, TailFacts
  <2>3. QED
    BY <1>0, <2>2
<1>2. taken = IF m.type = "event" THEN {m.event} ELSE {}
  <2>1. m \in Message
    BY <1>1
  <2> HIDE DEF m
  <2>2. QED
    BY <2>1, OneMessage
<1>3. /\ pendingMessages' = pendingMessages /\ emitter' = emitter /\ due' = due
      /\ \/ m.type = "event" /\ HandleEvent(t, m.event)
         \/ m.type = "lock" /\ HandleLock(t, m.lock)
  BY Zenon DEF HandleMessage
<1>4. Emitted' = Emitted
  BY <1>3 DEF Emitted
<1>5. \A u, v \in Tab :
         EventsIn(wire[u][v]) = EventsIn(wire'[u][v])
                                \cup (IF u = s /\ v = t THEN taken ELSE {})
  BY <1>1
<1>6. taken \subseteq Emitted
  BY <1>1 DEF EventsIInv, KnownWire
<1>7. KnownWire'
  BY <1>4, <1>5 DEF EventsIInv, KnownWire
<1>8. /\ \A v \in Tab : systemEvents[v] \in Seq(Event) /\ pendingEvents[v] \in Seq(Event)
      /\ \A v \in Tab : shown[v] \subseteq Event
  BY DEF Types
(* What the handler adds to the lists of t. *)
<1>9. \A v \in Tab :
         /\ IsInjective(systemEvents'[v])
         /\ ToSet(systemEvents'[v]) \subseteq Emitted
         /\ ToSet(pendingEvents'[v]) \subseteq Emitted
         /\ ToSet(pendingEvents[v]) \cup shown[v] \cup (IF v = t THEN taken ELSE {})
               \subseteq ToSet(pendingEvents'[v]) \cup shown'[v]
  <2>1. \A v \in Tab : /\ IsInjective(systemEvents[v])
                       /\ ToSet(systemEvents[v]) \subseteq Emitted
                       /\ ToSet(pendingEvents[v]) \subseteq Emitted
    BY DEF EventsIInv, KnownListed, KnownKept, NoDuplicateEvents
  <2>2. CASE m.type = "lock" /\ HandleLock(t, m.lock)
    <3>1. taken = {}
      BY <1>2, <2>2
    <3>2. systemEvents' = systemEvents /\ pendingEvents' = pendingEvents /\ shown' = shown
      BY <2>2 DEF HandleLock
    <3>3. QED
      BY <2>1, <3>1, <3>2
  <2>3. CASE m.type = "event" /\ HandleEvent(t, m.event)
    <3> DEFINE e == m.event
    <3>1. e \in Event /\ taken = {e}
      BY <1>1, <1>2, <2>3, MessageFacts
    <3> HIDE DEF e, taken, m
    <3>2. HandleEvent(t, e)
      BY <2>3 DEF e
    <3>3. CASE Subscribed(t)
      <4> DEFINE list == SyncRemoteEvents(systemEvents[t], <<e>>)
      <4>1. <<e>> \in Seq(Event) /\ ToSet(<<e>>) = {e}
        <5>1. <<e>> \in Seq(Event) /\ DOMAIN <<e>> = {1} /\ <<e>>[1] = e
          BY <3>1
        <5>2. QED
          BY <5>1 DEF ToSet
      <4>2. ToSet(list) = ToSet(systemEvents[t]) \cup {e} /\ IsInjective(list)
        BY <1>8, <2>1, <4>1, ReducerFacts
      <4>3. systemEvents' = [systemEvents EXCEPT ![t] = list]
            /\ shown' = [shown EXCEPT ![t] = @ \cup {e}] /\ pendingEvents' = pendingEvents
        BY <3>2, <3>3 DEF HandleEvent
      <4> HIDE DEF list
      <4>4. /\ \A v \in Tab : systemEvents'[v] = IF v = t THEN list ELSE systemEvents[v]
            /\ \A v \in Tab : shown'[v] = IF v = t THEN shown[v] \cup {e} ELSE shown[v]
        BY <4>3 DEF Types
      <4>5. QED
        BY <1>6, <2>1, <3>1, <4>2, <4>3, <4>4
    <3>4. CASE ~Subscribed(t)
      <4>1. /\ pendingEvents' = [pendingEvents EXCEPT ![t] = Append(@, e)]
            /\ systemEvents' = systemEvents /\ shown' = shown
        BY <3>2, <3>4 DEF HandleEvent
      <4>2. \A v \in Tab : pendingEvents'[v]
                              = IF v = t THEN Append(pendingEvents[t], e) ELSE pendingEvents[v]
        BY <4>1 DEF Types
      <4>3. ToSet(Append(pendingEvents[t], e)) = ToSet(pendingEvents[t]) \cup {e}
        BY <1>8, <3>1, AppendedFacts
      <4>4. QED
        BY <1>6, <2>1, <3>1, <4>1, <4>2, <4>3
    <3>5. QED
      BY <3>3, <3>4
  <2>4. QED
    BY <1>3, <2>2, <2>3
<1>10. KnownKept' /\ KnownListed' /\ NoDuplicateEvents'
  BY <1>3, <1>4, <1>9 DEF EventsIInv, KnownKept, KnownListed, NoDuplicateEvents
<1>11. EventsConserved'
  <2>1. ASSUME NEW v \in Tab, NEW e \in due'[v]
        PROVE  e \in InTransit(v)' \cup ToSet(pendingEvents'[v]) \cup shown'[v]
    <3>1. e \in InTransit(v) \cup ToSet(pendingEvents[v]) \cup shown[v]
      BY <1>3, <2>1 DEF EventsIInv, EventsConserved
    <3>2. InTransit(v) \subseteq InTransit(v)' \cup (IF v = t THEN taken ELSE {})
      <4> HIDE DEF taken
      <4>1. QED
        BY <1>5 DEF InTransit
    <3>3. QED
      BY <1>9, <3>1, <3>2
  <2>2. QED
    BY <2>1 DEF EventsConserved
<1>12. QED
  BY <1>7, <1>10, <1>11 DEF EventsIInv

LEMMA EventsStep == Types /\ EventsIInv /\ [Next]_vars => EventsIInv'
<1> SUFFICES ASSUME Types, EventsIInv, [Next]_vars PROVE EventsIInv'
  OBVIOUS
<1>1. ASSUME NEW t \in Tab, OpenTab(t) PROVE EventsIInv'
  <2>1. UNCHANGED <<wire, due, shown, emitter, systemEvents, pendingEvents, pendingMessages>>
    BY <1>1 DEF OpenTab, service
  <2>2. QED
    BY <2>1, EventsUntouched
<1>2. ASSUME NEW t \in Tab, ClearSystemEvents(t) PROVE EventsIInv'
  <2>1. UNCHANGED <<wire, due, shown, emitter, pendingEvents, pendingMessages>>
        /\ \A u \in Tab : systemEvents'[u] = IF u = t THEN <<>> ELSE systemEvents[u]
    BY <1>2 DEF ClearSystemEvents, service, history, Types
  <2>2. Emitted' = Emitted
    BY <2>1 DEF Emitted
  <2>3. QED
    BY <2>1, <2>2, NothingListed
       DEF EventsIInv, KnownWire, KnownKept, KnownListed, EventsConserved,
           NoDuplicateEvents, InTransit
<1>3. CASE UNCHANGED vars
  <2>1. UNCHANGED <<wire, due, shown, emitter, systemEvents, pendingEvents, pendingMessages>>
    BY <1>3 DEF vars, service, app, history
  <2>2. QED
    BY <2>1, EventsUntouched
<1>4. QED
  BY <1>1, <1>2, <1>3, InitChannelKeepsEvents, SubscribeKeepsEvents, CloseTabKeepsEvents,
     EmitKeepsEvents, ToggleKeepsEvents, HandleKeepsEvents DEF Next

(* No system event is lost on its way to a tab whose channel was open when *)
(* postMessage sent it: it is in transit, kept by the service for the      *)
(* handlers, or has reached App's list.                                    *)
THEOREM BroadcastCorrect == Spec => []BroadcastInv
<1>1. Types /\ EventsIInv => BroadcastInv
  BY TypesAre DEF EventsIInv, BroadcastInv
<1>2. QED
  BY TypesInit, TypesStep, EventsInit, EventsStep, <1>1, PTL DEF Spec

(* The reducer lists an event once, although onSystemEvent replays a tab's *)
(* own early events to it.                                                 *)
THEOREM EventsListedOnce == Spec => []NoDuplicateEvents
<1>1. EventsIInv => NoDuplicateEvents
  BY DEF EventsIInv
<1>2. QED
  BY TypesInit, TypesStep, EventsInit, EventsStep, <1>1, PTL DEF Spec

-----------------------------------------------------------------------------
(* The lock flags.  A flag with a single toggling tab has one sender, so   *)
(* the last payload on every wire is what that tab wrote to localStorage.  *)

Single(f) == \A s, u \in toggledBy[f] : s = u

(* A tab without a channel has received nothing. *)
StartsClean ==
    /\ \A t \in Tab : ~Connected(t) => /\ lastLockState[t] = NoLock
                                       /\ \A s \in Tab : wire[s][t] = <<>>
    /\ \A t \in Tab : wire[t][t] = <<>>

(* Only a tab with a channel toggles, so no payload waits for one. *)
KeepsNoLock == \A t \in Tab, f \in Flag : ~Carries(pendingMessages[t], f)

LockSenders ==
    /\ \A s, t \in Tab, f \in Flag : Carries(wire[s][t], f) => s \in toggledBy[f]
    /\ \A f \in Flag : IsFiniteSet(toggledBy[f])

LastIsStored ==
    \A f \in Flag : Single(f) => \A s, t \in Tab : Settled(wire[s][t], f, stored[f])

(* While a tab starts up, a toggle elsewhere makes it miss the flag: one   *)
(* that has not missed it has no payload of it from another tab.           *)
StartsUntouched ==
    \A t \in Tab, f \in Flag :
        ~Subscribed(t) /\ t \notin missed[f] => \A s \in Tab : ~Carries(wire[s][t], f)

PayloadIsStored ==
    \A t \in Tab, f \in Flag :
        /\ Single(f) /\ phase[t] = "initialized" /\ t \notin missed[f]
        /\ lastLockState[t] # NoLock /\ lastLockState[t].flag = f
        => lastLockState[t].value = stored[f]

UpToDate ==
    \A t \in Tab, f \in Flag :
        Single(f) /\ phase[t] # "closed" /\ t \notin missed[f]
        => flags[t][f] = stored[f] \/ \E s \in Tab : Carries(wire[s][t], f)

LocksIInv ==
    /\ StartsClean
    /\ KeepsNoLock
    /\ LockSenders
    /\ LastIsStored
    /\ StartsUntouched
    /\ PayloadIsStored
    /\ UpToDate

LEMMA LocksInit == Init => LocksIInv
<1> SUFFICES ASSUME Init PROVE LocksIInv
  OBVIOUS
<1>1. \A t \in Tab : /\ phase[t] = "closed" /\ lastLockState[t] = NoLock
                     /\ pendingMessages[t] = <<>>
                     /\ \A s \in Tab : wire[s][t] = <<>>
  BY DEF Init
<1>2. \A f \in Flag : toggledBy[f] = {} /\ IsFiniteSet(toggledBy[f])
  BY FS_EmptySet DEF Init
<1>3. StartsClean /\ KeepsNoLock /\ LockSenders /\ LastIsStored /\ StartsUntouched
  BY <1>1, <1>2, EmptyFacts
     DEF StartsClean, KeepsNoLock, LockSenders, LastIsStored, StartsUntouched
<1>4. PayloadIsStored /\ UpToDate
  BY <1>1 DEF PayloadIsStored, UpToDate
<1>5. QED
  BY <1>3, <1>4 DEF LocksIInv

LEMMA LocksUntouched ==
    ASSUME LocksIInv,
           UNCHANGED <<phase, stored, flags, lastLockState, pendingMessages, wire,
                       toggledBy, missed>>
    PROVE  LocksIInv'
BY DEF LocksIInv, StartsClean, KeepsNoLock, LockSenders, LastIsStored, StartsUntouched,
       PayloadIsStored, UpToDate, Single, Connected, Subscribed

LEMMA OpenKeepsLocks ==
    ASSUME Types, LocksIInv, NEW t \in Tab, OpenTab(t)
    PROVE  LocksIInv'
<1>1. /\ phase[t] = "closed"
      /\ \A u \in Tab : phase'[u] = IF u = t THEN "mounted" ELSE phase[u]
      /\ \A u \in Tab : flags'[u] = IF u = t THEN stored ELSE flags[u]
      /\ stored' = stored /\ lastLockState' = lastLockState /\ wire' = wire
      /\ pendingMessages' = pendingMessages /\ toggledBy' = toggledBy /\ missed' = missed
  BY DEF OpenTab, Types, service
<1>2. /\ \A u \in Tab : Connected(u)' <=> Connected(u)
      /\ \A u \in Tab : Subscribed(u)' <=> Subscribed(u)
      /\ \A f : Single(f)' <=> Single(f)
  BY <1>1 DEF Connected, Subscribed, Single
<1>3. StartsClean' /\ KeepsNoLock' /\ LockSenders' /\ LastIsStored' /\ StartsUntouched'
  BY <1>1, <1>2 DEF LocksIInv, StartsClean, KeepsNoLock, LockSenders, LastIsStored,
                    StartsUntouched
<1>4. PayloadIsStored' /\ UpToDate'
  BY <1>1, <1>2 DEF LocksIInv, PayloadIsStored, UpToDate
<1>5. QED
  BY <1>3, <1>4 DEF LocksIInv

(* Posting messages without a lock payload. *)
LEMMA EventsPosted ==
    ASSUME Types, NEW s \in Tab, NEW on, NEW msgs \in Seq(Message), Grows(s, on, msgs),
           \A f \in Flag : ~Carries(msgs, f)
    PROVE  /\ \A u, v \in Tab, f \in Flag : Carries(wire'[u][v], f) <=> Carries(wire[u][v], f)
           /\ \A u, v \in Tab, f \in Flag : \A x :
                 Settled(wire[u][v], f, x) => Settled(wire'[u][v], f, x)
           /\ \A u, v \in Tab : ~Connected(v) \/ u = v => wire'[u][v] = wire[u][v]
<1> SUFFICES ASSUME NEW u \in Tab, NEW v \in Tab
    PROVE  /\ \A f \in Flag : Carries(wire'[u][v], f) <=> Carries(wire[u][v], f)
           /\ \A f \in Flag : \A x : Settled(wire[u][v], f, x) => Settled(wire'[u][v], f, x)
           /\ ~Connected(v) \/ u = v => wire'[u][v] = wire[u][v]
  OBVIOUS
<1> DEFINE q == wire[u][v]
<1>1. q \in Seq(Message)
  BY DEF Types
<1>2. wire'[u][v] = IF on /\ u = s /\ v \in Listeners(s) THEN q \o msgs ELSE q
  BY DEF Grows
<1>3. ~Connected(v) \/ u = v => ~(u = s /\ v \in Listeners(s))
  BY DEF Listeners
<1> HIDE DEF q
<1>4. /\ \A f : Carries(q \o msgs, f) <=> Carries(q, f) \/ Carries(msgs, f)
      /\ \A f, x : ~Carries(msgs, f) /\ Settled(q, f, x) => Settled(q \o msgs, f, x)
  BY <1>1, JoinedFacts
<1>5. /\ \A f \in Flag : Carries(wire'[u][v], f) <=> Carries(q, f)
      /\ \A f \in Flag : \A x : Settled(q, f, x) => Settled(wire'[u][v], f, x)
      /\ ~Connected(v) \/ u = v => wire'[u][v] = q
  BY <1>2, <1>3, <1>4
<1>6. QED
  BY <1>5 DEF q

LEMMA InitChannelKeepsLocks ==
    ASSUME Types, LocksIInv, NEW t \in Tab, InitChannel(t)
    PROVE  LocksIInv'
<1>1. /\ pendingMessages[t] \in Seq(Message) /\ Posted(t, pendingMessages[t])
      /\ phase[t] = "mounted"
      /\ \A u \in Tab : phase'[u] = IF u = t THEN "initialized" ELSE phase[u]
      /\ \A u \in Tab : pendingMessages'[u] = IF u = t THEN <<>> ELSE pendingMessages[u]
      /\ stored' = stored /\ flags' = flags /\ lastLockState' = lastLockState
      /\ toggledBy' = toggledBy /\ missed' = missed
  BY DEF InitChannel, Types, app
<1>2. /\ \A u \in Tab : ~Connected(u)' => ~Connected(u)
      /\ \A u \in Tab : Subscribed(u)' <=> Subscribed(u)
      /\ \A f : Single(f)' <=> Single(f)
      /\ ~Connected(t)
  BY <1>1 DEF Connected, Subscribed, Single
<1>3. \A f \in Flag : ~Carries(pendingMessages[t], f)
  BY DEF LocksIInv, KeepsNoLock
<1>4. Grows(t, TRUE, pendingMessages[t])
  BY <1>1, PostedFacts
<1>5. /\ \A u, v \in Tab, f \in Flag : Carries(wire'[u][v], f) <=> Carries(wire[u][v], f)
      /\ \A u, v \in Tab, f \in Flag : \A x :
            Settled(wire[u][v], f, x) => Settled(wire'[u][v], f, x)
      /\ \A u, v \in Tab : ~Connected(v) \/ u = v => wire'[u][v] = wire[u][v]
  BY <1>1, <1>3, <1>4, EventsPosted
<1>6. StartsClean' /\ KeepsNoLock' /\ LockSenders' /\ LastIsStored' /\ StartsUntouched'
  <2>1. StartsClean'
    BY <1>1, <1>2, <1>5, EmptyFacts DEF LocksIInv, StartsClean
  <2>2. KeepsNoLock'
    BY <1>1, EmptyFacts DEF LocksIInv, KeepsNoLock
  <2>3. LockSenders'
    BY <1>1, <1>2, <1>5, EmptyFacts DEF LocksIInv, LockSenders
  <2>4. LastIsStored'
    BY <1>1, <1>2, <1>5, EmptyFacts DEF LocksIInv, LastIsStored
  <2>5. StartsUntouched'
    BY <1>1, <1>2, <1>5, EmptyFacts DEF LocksIInv, StartsUntouched
  <2>6. QED
    BY <2>1, <2>2, <2>3, <2>4, <2>5
<1>7. lastLockState[t] = NoLock
  BY <1>2 DEF LocksIInv, StartsClean
<1>8. PayloadIsStored' /\ UpToDate'
  BY <1>1, <1>2, <1>5, <1>7 DEF LocksIInv, PayloadIsStored, UpToDate
<1>9. QED
  BY <1>6, <1>8 DEF LocksIInv

LEMMA EmitKeepsLocks ==
    ASSUME Types, LocksIInv, NEW t \in Tab, NEW e \in Event, EmitSystemEvent(t, e)
    PROVE  LocksIInv'
<1> DEFINE m == EventMsg(e)
<1>1. /\ m \in Message /\ m.type = "event" /\ PostMessage(t, m)
      /\ phase' = phase /\ stored' = stored /\ flags' = flags
      /\ lastLockState' = lastLockState /\ toggledBy' = toggledBy /\ missed' = missed
  BY MessageFacts DEF EmitSystemEvent
<1> HIDE DEF m
<1>2. <<m>> \in Seq(Message) /\ \A f : ~Carries(<<m>>, f)
  BY <1>1, OneMessage DEF IsLock
<1>3. /\ Grows(t, Connected(t), <<m>>)
      /\ \A u \in Tab : pendingMessages'[u] \in {pendingMessages[u], pendingMessages[u] \o <<m>>}
  BY <1>1, PostFacts
<1>4. /\ \A u \in Tab : Connected(u)' <=> Connected(u)
      /\ \A u \in Tab : Subscribed(u)' <=> Subscribed(u)
      /\ \A f : Single(f)' <=> Single(f)
  BY <1>1 DEF Connected, Subscribed, Single
<1>5. /\ \A u, v \in Tab, f \in Flag : Carries(wire'[u][v], f) <=> Carries(wire[u][v], f)
      /\ \A u, v \in Tab, f \in Flag : \A x :
            Settled(wire[u][v], f, x) => Settled(wire'[u][v], f, x)
      /\ \A u, v \in Tab : ~Connected(v) \/ u = v => wire'[u][v] = wire[u][v]
  BY <1>2, <1>3, EventsPosted
<1>6. KeepsNoLock'
  <2>1. \A u \in Tab : pendingMessages[u] \in Seq(Message)
    BY DEF Types
  <2>2. \A u \in Tab, f \in Flag : ~Carries(pendingMessages[u] \o <<m>>, f)
    BY <1>2, <2>1, JoinedFacts DEF LocksIInv, KeepsNoLock
  <2>3. QED
    BY <1>3, <2>2 DEF LocksIInv, KeepsNoLock
<1>7. StartsClean' /\ LockSenders' /\ LastIsStored' /\ StartsUntouched'
  BY <1>1, <1>4, <1>5
     DEF LocksIInv, StartsClean, LockSenders, LastIsStored, StartsUntouched
<1>8. PayloadIsStored' /\ UpToDate'
  BY <1>1, <1>4, <1>5 DEF LocksIInv, PayloadIsStored, UpToDate
<1>9. QED
  BY <1>6, <1>7, <1>8 DEF LocksIInv

LEMMA SubscribeKeepsLocks ==
    ASSUME Types, LocksIInv, NEW t \in Tab, Subscribe(t)
    PROVE  LocksIInv'
<1> DEFINE fs == WithLock(flags[t], lastLockState[t])
<1>1. /\ phase[t] = "initialized"
      /\ \A u \in Tab : phase'[u] = IF u = t THEN "subscribed" ELSE phase[u]
      /\ \A u \in Tab : flags'[u] = IF u = t THEN fs ELSE flags[u]
      /\ stored' = stored /\ lastLockState' = lastLockState /\ wire' = wire
      /\ pendingMessages' = pendingMessages /\ toggledBy' = toggledBy /\ missed' = missed
  BY DEF Subscribe, Types
<1>2. /\ \A u \in Tab : Connected(u)' <=> Connected(u)
      /\ \A u \in Tab : Subscribed(u) => Subscribed(u)'
      /\ \A f : Single(f)' <=> Single(f)
      /\ ~Subscribed(t)
  BY <1>1 DEF Connected, Subscribed, Single
<1>3. StartsClean' /\ KeepsNoLock' /\ LockSenders' /\ LastIsStored' /\ StartsUntouched'
  BY <1>1, <1>2 DEF LocksIInv, StartsClean, KeepsNoLock, LockSenders, LastIsStored,
                    StartsUntouched
<1>4. PayloadIsStored'
  BY <1>1, <1>2 DEF LocksIInv, PayloadIsStored
<1>5. ASSUME NEW f \in Flag, Single(f), t \notin missed[f] PROVE fs[f] = stored[f]
  <2>1. flags[t][f] = stored[f]
    BY <1>1, <1>2, <1>5 DEF LocksIInv, UpToDate, StartsUntouched
  <2>2. lastLockState[t] # NoLock /\ lastLockState[t].flag = f
           => lastLockState[t].value = stored[f]
    BY <1>1, <1>5 DEF LocksIInv, PayloadIsStored
  <2>3. flags[t] \in [Flag -> Bit] /\ lastLockState[t] \in Lock \cup {NoLock}
    BY DEF Types
  <2>4. fs[f] = IF lastLockState[t] # NoLock /\ lastLockState[t].flag = f
                THEN lastLockState[t].value ELSE flags[t][f]
    BY <2>3, WithLockType
  <2>5. QED
    BY <2>1, <2>2, <2>4
<1>6. UpToDate'
  <2> HIDE DEF fs
  <2>1. QED
    BY <1>1, <1>2, <1>5 DEF LocksIInv, UpToDate
<1>7. QED
  BY <1>3, <1>4, <1>6 DEF LocksIInv

LEMMA CloseKeepsLocks ==
    ASSUME Types, LocksIInv, NEW t \in Tab, CloseTab(t)
    PROVE  LocksIInv'
<1>1. /\ \A u \in Tab : /\ phase'[u] = IF u = t THEN "closed" ELSE phase[u]
                        /\ lastLockState'[u] = IF u = t THEN NoLock ELSE lastLockState[u]
                        /\ pendingMessages'[u] = IF u = t THEN <<>> ELSE pendingMessages[u]
                        /\ \A s \in Tab : wire'[s][u] = IF u = t THEN <<>> ELSE wire[s][u]
      /\ \A f \in Flag : missed'[f] = missed[f] \ {t}
      /\ stored' = stored /\ flags' = flags /\ toggledBy' = toggledBy
  BY DEF CloseTab, Types
<1>2. /\ \A u \in Tab : u # t => (Connected(u)' <=> Connected(u))
      /\ \A u \in Tab : u # t => (Subscribed(u)' <=> Subscribed(u))
      /\ \A f : Single(f)' <=> Single(f)
  BY <1>1 DEF Connected, Subscribed, Single
<1>3. StartsClean' /\ KeepsNoLock' /\ LockSenders' /\ LastIsStored' /\ StartsUntouched'
  <2>1. StartsClean'
    BY <1>1, <1>2, EmptyFacts DEF LocksIInv, StartsClean
  <2>2. KeepsNoLock'
    BY <1>1, <1>2, EmptyFacts DEF LocksIInv, KeepsNoLock
  <2>3. LockSenders'
    BY <1>1, <1>2, EmptyFacts DEF LocksIInv, LockSenders
  <2>4. LastIsStored'
    BY <1>1, <1>2, EmptyFacts DEF LocksIInv, LastIsStored
  <2>5. StartsUntouched'
    BY <1>1, <1>2, EmptyFacts DEF LocksIInv, StartsUntouched
  <2>6. QED
    BY <2>1, <2>2, <2>3, <2>4, <2>5
<1>4. PayloadIsStored' /\ UpToDate'
  BY <1>1, <1>2 DEF LocksIInv, PayloadIsStored, UpToDate
<1>5. QED
  BY <1>3, <1>4 DEF LocksIInv

(* A toggle: the tab, localStorage and every wire to a listening tab agree *)
(* on the new value; a tab that is starting up has missed it.              *)
LEMMA ToggleKeepsLocks ==
    ASSUME Types, LocksIInv, NEW t \in Tab, NEW f \in Flag, Toggle(t, f)
    PROVE  LocksIInv'
<1>1. PICK v \in Bit :
         /\ flags' = [flags EXCEPT ![t][f] = v]
         /\ stored' = [stored EXCEPT ![f] = v]
         /\ lastLockState' = [lastLockState EXCEPT ![t] = [flag |-> f, value |-> v]]
         /\ PostMessage(t, LockMsg([flag |-> f, value |-> v]))
  BY ToggleFacts
<1> DEFINE l == [flag |-> f, value |-> v]
           m == LockMsg(l)
<1>2. l \in Lock /\ l.flag = f /\ l.value = v /\ l # NoLock
  <2>1. l \in Lock
    BY LockFacts
  <2>2. l.flag = f /\ l.value = v
    OBVIOUS
  <2> HIDE DEF l
  <2>3. QED
    BY <2>1, <2>2, LockFacts
<1>3. /\ lastLockState' = [lastLockState EXCEPT ![t] = l] /\ PostMessage(t, m)
  BY <1>1
<1> HIDE DEF l
<1>4. m \in Message /\ m.type = "lock" /\ m.lock = l
  BY <1>2, MessageFacts
<1>5. \A q \in Seq(Message) : Settled(q \o <<m>>, f, v)
  BY <1>2, PostedSettles
<1> HIDE DEF m
<1>6. <<m>> \in Seq(Message) /\ \A g : Carries(<<m>>, g) <=> g = f
  BY <1>2, <1>4, OneMessage DEF IsLock
<1>7. /\ Connected(t)
      /\ phase' = phase /\ pendingMessages' = pendingMessages
      /\ \A g \in Flag : toggledBy'[g] = IF g = f THEN toggledBy[g] \cup {t} ELSE toggledBy[g]
      /\ \A g \in Flag : missed'[g] = IF g = f
            THEN missed[g] \cup {u \in Tab \ {t} : phase[u] \in {"mounted", "initialized"}}
            ELSE missed[g]
  BY DEF Toggle, Types, PostMessage
<1>8. /\ \A u \in Tab : lastLockState'[u] = IF u = t THEN l ELSE lastLockState[u]
      /\ \A g \in Flag : stored'[g] = IF g = f THEN v ELSE stored[g]
      /\ \A u \in Tab, g \in Flag :
            flags'[u][g] = IF u = t /\ g = f THEN v ELSE flags[u][g]
  BY <1>1, <1>3 DEF Types
<1>9. /\ \A u \in Tab : Connected(u)' <=> Connected(u)
      /\ \A u \in Tab : Subscribed(u)' <=> Subscribed(u)
      /\ \A g \in Flag : Single(g)' => Single(g)
      /\ Single(f)' => toggledBy'[f] \subseteq {t}
  BY <1>7 DEF Connected, Subscribed, Single
<1>10. \A u, w \in Tab : /\ wire[u][w] \in Seq(Message)
                         /\ wire'[u][w] = IF u = t /\ w \in Listeners(t)
                                          THEN wire[u][w] \o <<m>> ELSE wire[u][w]
  <2>1. Grows(t, Connected(t), <<m>>)
    BY <1>3, <1>4, PostFacts
  <2>2. \A u, w \in Tab : wire[u][w] \in Seq(Message)
    BY DEF Types
  <2>3. QED
    BY <1>7, <2>1, <2>2 DEF Grows
<1>11. \A u, w \in Tab :
         /\ ~Connected(w) \/ u = w => wire'[u][w] = wire[u][w]
         /\ \A g \in Flag : Carries(wire[u][w], g) => Carries(wire'[u][w], g)
         /\ \A g \in Flag : Carries(wire'[u][w], g)
               => Carries(wire[u][w], g) \/ (g = f /\ u = t /\ w \in Listeners(t))
         /\ \A g \in Flag : \A x : g # f /\ Settled(wire[u][w], g, x) => Settled(wire'[u][w], g, x)
         /\ u = t /\ w \in Listeners(t)
               => Carries(wire'[u][w], f) /\ Settled(wire'[u][w], f, v)
  <2> SUFFICES ASSUME NEW u \in Tab, NEW w \in Tab
      PROVE
         /\ ~Connected(w) \/ u = w => wire'[u][w] = wire[u][w]
         /\ \A g \in Flag : Carries(wire[u][w], g) => Carries(wire'[u][w], g)
         /\ \A g \in Flag : Carries(wire'[u][w], g)
               => Carries(wire[u][w], g) \/ (g = f /\ u = t /\ w \in Listeners(t))
         /\ \A g \in Flag : \A x : g # f /\ Settled(wire[u][w], g, x) => Settled(wire'[u][w], g, x)
         /\ u = t /\ w \in Listeners(t)
               => Carries(wire'[u][w], f) /\ Settled(wire'[u][w], f, v)
    OBVIOUS
  <2> DEFINE q == wire[u][w]
  <2>1. q \in Seq(Message)
        /\ wire'[u][w] = IF u = t /\ w \in Listeners(t) THEN q \o <<m>> ELSE q
    BY <1>10
  <2>2. ~Connected(w) \/ u = w => ~(u = t /\ w \in Listeners(t))
    BY DEF Listeners
  <2> HIDE DEF q
  <2>3. /\ \A g : Carries(q \o <<m>>, g) <=> Carries(q, g) \/ Carries(<<m>>, g)
        /\ \A g, x : ~Carries(<<m>>, g) /\ Settled(q, g, x) => Settled(q \o <<m>>, g, x)
        /\ Settled(q \o <<m>>, f, v)
    BY <1>5, <1>6, <2>1, JoinedFacts
  <2>4. CASE u = t /\ w \in Listeners(t)
    BY <1>6, <2>1, <2>2, <2>3, <2>4 DEF q
  <2>5. CASE ~(u = t /\ w \in Listeners(t))
    BY <2>1, <2>5 DEF q
  <2>6. QED
    BY <2>4, <2>5
<1>12. StartsClean'
  BY <1>7, <1>8, <1>9, <1>11 DEF LocksIInv, StartsClean
<1>13. KeepsNoLock'
  BY <1>7 DEF LocksIInv, KeepsNoLock
<1>14. LockSenders'
  <2>1. \A u, w \in Tab, g \in Flag : Carries(wire'[u][w], g) => u \in toggledBy'[g]
    BY <1>7, <1>11 DEF LocksIInv, LockSenders
  <2>2. \A g \in Flag : IsFiniteSet(toggledBy'[g])
    <3>1. \A g \in Flag : IsFiniteSet(toggledBy[g])
      BY DEF LocksIInv, LockSenders
    <3>2. IsFiniteSet(toggledBy[f] \cup {t})
      BY <3>1, FS_AddElement
    <3>3. QED
      BY <1>7, <3>1, <3>2
  <2>3. QED
    BY <2>1, <2>2 DEF LockSenders
<1>15. LastIsStored'
  <2>1. SUFFICES ASSUME NEW g \in Flag, Single(g)', NEW u \in Tab, NEW w \in Tab
                 PROVE  Settled(wire'[u][w], g, stored'[g])
    BY DEF LastIsStored
  <2>2. CASE g # f
    BY <1>8, <1>9, <1>11, <2>1, <2>2 DEF LocksIInv, LastIsStored
  <2>3. CASE g = f /\ u = t /\ w \in Listeners(t)
    BY <1>8, <1>11, <2>3
  <2>4. CASE g = f /\ ~(u = t /\ w \in Listeners(t))
    <3>1. ~Carries(wire[u][w], f)
      <4>1. CASE u # t
        <5>1. u \notin toggledBy[f]
          BY <1>7, <1>9, <2>1, <2>4, <4>1
        <5>2. QED
          BY <5>1 DEF LocksIInv, LockSenders
      <4>2. CASE u = t
        <5>1. w = t \/ ~Connected(w)
          BY <2>4, <4>2 DEF Listeners
        <5>2. wire[u][w] = <<>>
          BY <4>2, <5>1 DEF LocksIInv, StartsClean
        <5>3. QED
          BY <5>2, EmptyFacts
      <4>3. QED
        BY <4>1, <4>2
    <3>2. wire'[u][w] = wire[u][w]
      BY <1>10, <2>4
    <3>3. QED
      BY <2>4, <3>1, <3>2 DEF Carries, Settled
  <2>5. QED
    BY <2>2, <2>3, <2>4
<1>16. StartsUntouched'
  <2>1. SUFFICES ASSUME NEW w \in Tab, NEW g \in Flag, ~Subscribed(w), w \notin missed'[g],
                        NEW u \in Tab, Carries(wire'[u][w], g)
                 PROVE  FALSE
    BY <1>9 DEF StartsUntouched
  <2>2. w \notin missed[g]
    BY <1>7, <2>1
  <2>3. ~Carries(wire[u][w], g)
    BY <2>1, <2>2 DEF LocksIInv, StartsUntouched
  <2>4. g = f /\ w \in Listeners(t)
    BY <1>11, <2>1, <2>3
  <2>5. phase[w] = "initialized" /\ w # t
    BY <2>1, <2>4 DEF Listeners, Connected, Subscribed
  <2>6. QED
    BY <1>7, <2>1, <2>4, <2>5
<1>17. PayloadIsStored'
  <2>1. SUFFICES ASSUME NEW w \in Tab, NEW g \in Flag, Single(g)',
                        phase[w] = "initialized", w \notin missed'[g],
                        lastLockState'[w] # NoLock, lastLockState'[w].flag = g
                 PROVE  lastLockState'[w].value = stored'[g]
    BY <1>7 DEF PayloadIsStored
  <2>2. CASE w = t
    BY <1>2, <1>8, <2>1, <2>2
  <2>3. CASE w # t
    <3>1. g # f /\ w \notin missed[g]
      BY <1>7, <2>1, <2>3
    <3>2. QED
      BY <1>8, <1>9, <2>1, <2>3, <3>1 DEF LocksIInv, PayloadIsStored
  <2>4. QED
    BY <2>2, <2>3
<1>18. UpToDate'
  <2>1. SUFFICES ASSUME NEW w \in Tab, NEW g \in Flag, Single(g)',
                        phase[w] # "closed", w \notin missed'[g],
                        ~\E u \in Tab : Carries(wire'[u][w], g)
                 PROVE  flags'[w][g] = stored'[g]
    BY <1>7 DEF UpToDate
  <2>2. CASE g # f
    <3>1. ~\E u \in Tab : Carries(wire[u][w], g)
      BY <1>11, <2>1
    <3>2. Single(g) /\ w \notin missed[g]
      BY <1>7, <1>9, <2>1, <2>2
    <3>3. flags[w][g] = stored[g]
      BY <2>1, <3>1, <3>2 DEF LocksIInv, UpToDate
    <3>4. QED
      BY <1>8, <2>2, <3>3
  <2>3. CASE g = f /\ w = t
    BY <1>8, <2>3
  <2>4. CASE g = f /\ w # t
    <3>1. phase[w] \notin {"mounted", "initialized"}
      BY <1>7, <2>1, <2>4
    <3>2. phase[w] = "subscribed"
      BY <2>1, <3>1 DEF Types
    <3>3. w \in Listeners(t)
      BY <2>4, <3>2 DEF Listeners, Connected
    <3>4. Carries(wire'[t][w], f)
      BY <1>11, <3>3
    <3>5. QED
      BY <2>1, <2>4, <3>4
  <2>5. QED
    BY <2>2, <2>3, <2>4
<1>19. QED
  BY <1>12, <1>13, <1>14, <1>15, <1>16, <1>17, <1>18 DEF LocksIInv

LEMMA HandleKeepsLocks ==
    ASSUME Types, LocksIInv, NEW s \in Tab, NEW t \in Tab, HandleMessage(s, t)
    PROVE  LocksIInv'
<1> DEFINE q == wire[s][t]
           m == Head(q)
<1>1. /\ q \in Seq(Message) /\ q # <<>>
      /\ \A u, w \in Tab :
            wire'[u][w] = IF u = s /\ w = t THEN Tail(wire[u][w]) ELSE wire[u][w]
  BY TakenFacts
<1>2. /\ m \in Message
      /\ \A f : Carries(q, f) <=> IsLock(m, f) \/ Carries(Tail(q), f)
      /\ \A f, x : Settled(q, f, x) => Settled(Tail(q), f, x)
      /\ \A f, x : Settled(q, f, x) /\ IsLock(m, f) /\ ~Carries(Tail(q), f)
                      => m.lock.value = x
  <2>1. q \in Seq(Message) /\ q # <<>>
    BY <1>1
  <2> HIDE DEF q
  <2>2. QED
    BY <2>1, TailFacts
<1>3. Connected(t)
  BY <1>1 DEF LocksIInv, StartsClean
<1>4. /\ phase' = phase /\ stored' = stored /\ pendingMessages' = pendingMessages
      /\ toggledBy' = toggledBy /\ missed' = missed
      /\ \/ m.type = "event" /\ HandleEvent(t, m.event)
         \/ m.type = "lock" /\ HandleLock(t, m.lock)
  BY Zenon DEF HandleMessage
<1>5. /\ \A u \in Tab : Connected(u)' <=> Connected(u)
      /\ \A u \in Tab : Subscribed(u)' <=> Subscribed(u)
      /\ \A f : Single(f)' <=> Single(f)
  BY <1>4 DEF Connected, Subscribed, Single
<1>6. /\ \A u, w \in Tab, f \in Flag : Carries(wire'[u][w], f) => Carries(wire[u][w], f)
      /\ \A u, w \in Tab, f \in Flag : Carries(wire[u][w], f)
            => Carries(wire'[u][w], f) \/ (u = s /\ w = t /\ IsLock(m, f))
      /\ \A u, w \in Tab, f \in Flag : \A x :
            Settled(wire[u][w], f, x) => Settled(wire'[u][w], f, x)
      /\ wire'[s][t] = Tail(q)
  BY <1>1, <1>2
<1> HIDE DEF q
(* What the handler does to the flags and the last payload of t. *)
<1>7. \/ /\ lastLockState' = lastLockState /\ flags' = flags
         /\ \A f : ~IsLock(m, f)
      \/ \E l \in Lock :
            /\ \A f : IsLock(m, f) <=> f = l.flag
            /\ m.lock = l
            /\ \A u \in Tab : lastLockState'[u] = IF u = t THEN l ELSE lastLockState[u]
            /\ \A u \in Tab, f \in Flag :
                  flags'[u][f] = IF u = t /\ Subscribed(t) /\ f = l.flag
                                 THEN l.value ELSE flags[u][f]
  <2> HIDE DEF m
  <2>1. CASE m.type = "event" /\ HandleEvent(t, m.event)
    BY <2>1 DEF HandleEvent, IsLock
  <2>2. CASE m.type = "lock" /\ HandleLock(t, m.lock)
    <3>1. PICK l \in Lock : l = m.lock
      BY <1>2, <2>2, MessageFacts
    <3>2. HandleLock(t, l)
      BY <2>2, <3>1
    <3>3. \A f : IsLock(m, f) <=> f = l.flag
      BY <2>2, <3>1 DEF IsLock
    <3>4. \A u \in Tab : lastLockState'[u] = IF u = t THEN l ELSE lastLockState[u]
      BY <3>2 DEF HandleLock, Types
    <3>5. \A f \in Flag : WithLock(flags[t], l)[f] = IF f = l.flag THEN l.value ELSE flags[t][f]
      <4>1. flags[t] \in [Flag -> Bit] /\ l # NoLock
        BY <3>1, LockFacts DEF Types
      <4>2. QED
        BY <4>1, WithLockType
    <3> DEFINE fs == WithLock(flags[t], l)
    <3>6. flags' = IF Subscribed(t) THEN [flags EXCEPT ![t] = fs] ELSE flags
      BY <3>2 DEF HandleLock
    <3> HIDE DEF fs
    <3>7. \A u \in Tab : flags'[u] = IF u = t /\ Subscribed(t) THEN fs ELSE flags[u]
      BY <3>6 DEF Types
    <3>8. \A u \in Tab, f \in Flag :
             flags'[u][f] = IF u = t /\ Subscribed(t) /\ f = l.flag
                            THEN l.value ELSE flags[u][f]
      BY <3>5, <3>7 DEF fs
    <3>9. QED
      BY <3>1, <3>3, <3>4, <3>8
  <2>3. QED
    BY <1>4, <2>1, <2>2
<1>8. StartsClean'
  <2>1. \A u, w \in Tab : ~(u = s /\ w = t) => wire'[u][w] = wire[u][w]
    BY <1>1
  <2>2. s # t
    BY <1>1 DEF LocksIInv, StartsClean, q
  <2>3. \A u \in Tab : u # t => lastLockState'[u] = lastLockState[u]
    BY <1>7
  <2>4. QED
    BY <1>3, <1>5, <2>1, <2>2, <2>3 DEF LocksIInv, StartsClean
<1>9. KeepsNoLock' /\ LockSenders' /\ LastIsStored' /\ StartsUntouched'
  <2>1. KeepsNoLock'
    BY <1>4 DEF LocksIInv, KeepsNoLock
  <2>2. LockSenders'
    BY <1>4, <1>6 DEF LocksIInv, LockSenders
  <2>3. LastIsStored'
    BY <1>4, <1>5, <1>6 DEF LocksIInv, LastIsStored
  <2>4. StartsUntouched'
    BY <1>4, <1>5, <1>6 DEF LocksIInv, StartsUntouched
  <2>5. QED
    BY <2>1, <2>2, <2>3, <2>4
<1> HIDE DEF m
<1>10. \A f \in Flag : IsLock(m, f) => Carries(wire[s][t], f)
  BY <1>2 DEF q
<1>11. PayloadIsStored'
  <2>1. SUFFICES ASSUME NEW w \in Tab, NEW f \in Flag, Single(f),
                        phase[w] = "initialized", w \notin missed[f],
                        lastLockState'[w] # NoLock, lastLockState'[w].flag = f
                 PROVE  lastLockState'[w].value = stored[f]
    BY <1>4, <1>5 DEF PayloadIsStored
  <2>2. CASE w = t /\ IsLock(m, f)
    <3>1. ~Subscribed(t)
      BY <2>1, <2>2 DEF Subscribed
    <3>2. QED
      BY <1>10, <2>1, <2>2, <3>1 DEF LocksIInv, StartsUntouched
  <2>3. CASE ~(w = t /\ IsLock(m, f))
    <3>1. lastLockState'[w] = lastLockState[w]
      BY <1>7, <2>1, <2>3
    <3>2. QED
      BY <2>1, <3>1 DEF LocksIInv, PayloadIsStored
  <2>4. QED
    BY <2>2, <2>3
<1>12. UpToDate'
  <2>1. SUFFICES ASSUME NEW w \in Tab, NEW f \in Flag, Single(f),
                        phase[w] # "closed", w \notin missed[f],
                        ~\E u \in Tab : Carries(wire'[u][w], f)
                 PROVE  flags'[w][f] = stored[f]
    BY <1>4, <1>5 DEF UpToDate
  <2>2. CASE w = t /\ IsLock(m, f)
    <3>1. Subscribed(t)
      BY <1>10, <2>1, <2>2 DEF LocksIInv, StartsUntouched
    <3>2. Settled(q, f, stored[f])
      BY <2>1 DEF LocksIInv, LastIsStored, q
    <3>3. ~Carries(Tail(q), f)
      BY <1>6, <2>1, <2>2
    <3>4. m.lock.value = stored[f]
      BY <1>2, <2>2, <3>2, <3>3
    <3>5. QED
      BY <1>7, <2>2, <3>1, <3>4
  <2>3. CASE ~(w = t /\ IsLock(m, f))
    <3>1. flags'[w][f] = flags[w][f]
      BY <1>7, <2>3
    <3>2. ~\E u \in Tab : Carries(wire[u][w], f)
      BY <1>6, <2>1, <2>3
    <3>3. QED
      BY <2>1, <3>1, <3>2 DEF LocksIInv, UpToDate
  <2>4. QED
    BY <2>2, <2>3
<1>13. QED
  BY <1>8, <1>9, <1>11, <1>12 DEF LocksIInv

LEMMA LocksStep == Types /\ LocksIInv /\ [Next]_vars => LocksIInv'
<1> SUFFICES ASSUME Types, LocksIInv, [Next]_vars PROVE LocksIInv'
  OBVIOUS
<1>1. ASSUME NEW t \in Tab, ClearSystemEvents(t) PROVE LocksIInv'
  <2>1. UNCHANGED <<phase, stored, flags, lastLockState, pendingMessages, wire,
                    toggledBy, missed>>
    BY <1>1 DEF ClearSystemEvents, service, history
  <2>2. QED
    BY <2>1, LocksUntouched
<1>2. CASE UNCHANGED vars
  <2>1. UNCHANGED <<phase, stored, flags, lastLockState, pendingMessages, wire,
                    toggledBy, missed>>
    BY <1>2 DEF vars, service, app, history
  <2>2. QED
    BY <2>1, LocksUntouched
<1>3. QED
  BY <1>1, <1>2, OpenKeepsLocks, InitChannelKeepsLocks, SubscribeKeepsLocks, CloseKeepsLocks,
     EmitKeepsLocks, ToggleKeepsLocks, HandleKeepsLocks DEF Next

(* A set of at most one element. *)
LEMMA OneToggler ==
    ASSUME NEW S, IsFiniteSet(S), Cardinality(S) <= 1
    PROVE  \A s, u \in S : s = u
<1> SUFFICES ASSUME NEW s \in S, NEW u \in S, s # u PROVE FALSE
  OBVIOUS
<1>1. /\ IsFiniteSet({s}) /\ Cardinality({s}) = 1
  BY FS_Singleton
<1>2. IsFiniteSet({s} \cup {u}) /\ Cardinality({s} \cup {u}) = 2
  <2>1. u \notin {s}
    OBVIOUS
  <2> DEFINE T == {s}
  <2>2. IsFiniteSet(T) /\ Cardinality(T) = 1 /\ u \notin T
    BY <1>1, <2>1
  <2> HIDE DEF T
  <2>3. IsFiniteSet(T \cup {u}) /\ Cardinality(T \cup {u}) = 2
    BY <2>2, FS_AddElement
  <2>4. QED
    BY <2>3 DEF T
<1>3. {s} \cup {u} \in SUBSET S
  OBVIOUS
<1>4. Cardinality({s} \cup {u}) <= Cardinality(S)
  BY <1>3, FS_Subset
<1>5. Cardinality(S) \in Nat
  BY FS_CardinalityType
<1>6. QED
  BY <1>2, <1>4, <1>5

(* A flag that one tab toggles is the same in every open tab that was not  *)
(* starting up meanwhile, once nothing about it is in transit: App reads   *)
(* it from localStorage when it mounts and from the channel afterwards.    *)
THEOREM FlagsAgree == Spec => []LocksAgree
<1>1. LocksIInv => LocksAgree
  <2>1. SUFFICES ASSUME LocksIInv, NEW t \in Tab, NEW f \in Flag,
                        Subscribed(t), Cardinality(toggledBy[f]) <= 1,
                        t \notin missed[f], ~LocksInTransit(f, t)
                 PROVE  flags[t][f] = stored[f]
    BY DEF LocksAgree
  <2>2. Single(f)
    BY <2>1, OneToggler DEF LocksIInv, LockSenders, Single
  <2>3. phase[t] # "closed"
    BY <2>1 DEF Subscribed
  <2>4. ~\E s \in Tab : Carries(wire[s][t], f)
    BY <2>1 DEF LocksInTransit, Carries, IsLock
  <2>5. QED
    BY <2>1, <2>2, <2>3, <2>4 DEF LocksIInv, UpToDate
<1>2. QED
  BY TypesInit, TypesStep, LocksInit, LocksStep, <1>1, PTL DEF Spec
=============================================================================
