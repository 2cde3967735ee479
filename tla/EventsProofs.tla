---------------------------- MODULE EventsProofs ----------------------------
(***************************************************************************)
(* Proofs about the event emitter in Services, for every value of its      *)
(* constants: the parallel lists of subscribers and handles, the           *)
(* deliveries that emits start and flushes await.                          *)
(***************************************************************************)
EXTENDS ServicesProofs

-----------------------------------------------------------------------------
(* The lists of subscribers and handles of the emitter.                    *)
EventListTypes ==
  /\ subscribers \in Seq(Subscribers) /\ handles \in Seq(Subscribers)
  /\ subsLock \in Subscribers \cup {Free} /\ handlesLock \in Subscribers \cup {Free}
  /\ registrar \in [Subscribers -> {"out", "subscribing", "in", "leaving", "gone"}]
  /\ position \in [Subscribers -> Nat]

(* A lock belongs to the call that is between its two lists.               *)
LocksHeld ==
  \A s \in Subscribers : /\ registrar[s] = "subscribing" <=> subsLock = s
                         /\ registrar[s] = "leaving" <=> handlesLock = s

(* Who is on which list.                                                   *)
Members ==
  /\ Once(subscribers) /\ Once(handles)
  /\ \A s \in Subscribers :
       /\ Holds(handles, s) <=> registrar[s] = "in"
       /\ Holds(subscribers, s) => registrar[s] \in {"subscribing", "in", "leaving"}
       /\ registrar[s] = "subscribing" => subscribers # <<>> /\ subscribers[Len(subscribers)] = s

(* The lists have the same order, whoever was removed by id.               *)
InOrder(ss, hs) ==
  \A i, j \in 1 .. Len(ss), k, l \in 1 .. Len(hs) :
    i < j /\ hs[k] = ss[i] /\ hs[l] = ss[j] => k < l

(* While nobody was removed by id a handle has the index of its subscriber, *)
(* one less behind the handle that is gone before its subscriber.          *)
AllIn == \A s \in Subscribers : registrar[s] = "in" => Holds(subscribers, s)
SameIndex ==
  /\ Len(subscribers) = Len(handles) + (IF subsLock = Free THEN 0 ELSE 1) + (IF handlesLock = Free THEN 0 ELSE 1)
  /\ handlesLock = Free => \A i \in 1 .. Len(handles) : handles[i] = subscribers[i]
  /\ handlesLock # Free =>
       /\ position[handlesLock] \in 1 .. Len(subscribers)
       /\ subscribers[position[handlesLock]] = handlesLock
       /\ \A i \in 1 .. Len(handles) :
            handles[i] = IF i < position[handlesLock] THEN subscribers[i] ELSE subscribers[i + 1]
Aligned == /\ AllIn => SameIndex
           /\ handlesLock # Free => AllIn

EventListInv == EventListTypes /\ LocksHeld /\ Members /\ InOrder(subscribers, handles) /\ Aligned

(* The first index of an entry of a list without duplicates.               *)
LEMMA IndexIs ==
  ASSUME NEW list \in Seq(Subscribers), NEW s, Once(list), Holds(list, s)
  PROVE  /\ Emitting!Index(list, s) \in 1 .. Len(list) /\ list[Emitting!Index(list, s)] = s
         /\ \A i \in 1 .. Len(list) : list[i] = s => i = Emitting!Index(list, s)
  <1>1. PICK i \in 1 .. Len(list) : list[i] = s
    BY DEF Holds
  <1>2. \A j \in 1 .. i - 1 : list[j] # s
    <2>1. SUFFICES ASSUME NEW j \in 1 .. i - 1 PROVE list[j] # s
      OBVIOUS
    <2>2. j \in 1 .. Len(list) /\ j # i
      BY <1>1, <2>1
    <2>3. QED
      BY <1>1, <2>2 DEF Once
  <1>3. Emitting!Index(list, s) \in 1 .. Len(list) /\ list[Emitting!Index(list, s)] = s
    BY <1>1, <1>2 DEF Emitting!Index
  <1>4. QED
    BY <1>3 DEF Once

LEMMA PutLast ==
  ASSUME NEW S, NEW s \in Seq(S), NEW e \in S
  PROVE  /\ Append(s, e) \in Seq(S) /\ Len(Append(s, e)) = Len(s) + 1
         /\ \A i \in 1 .. Len(s) : Append(s, e)[i] = s[i]
         /\ Append(s, e)[Len(s) + 1] = e
         /\ \A r : Holds(Append(s, e), r) <=> Holds(s, r) \/ r = e
         /\ Once(s) /\ ~ Holds(s, e) => Once(Append(s, e))
  <1> DEFINE t == Append(s, e)
  <1>1. /\ t \in Seq(S) /\ Len(t) = Len(s) + 1 /\ Len(s) \in Nat
        /\ \A i \in 1 .. Len(s) : t[i] = s[i]
        /\ t[Len(s) + 1] = e
    OBVIOUS
  <1> HIDE DEF t
  <1>2. ASSUME NEW r, Holds(t, r) PROVE Holds(s, r) \/ r = e
    BY <1>1, <1>2 DEF Holds
  <1>3. ASSUME NEW r, Holds(s, r) \/ r = e PROVE Holds(t, r)
    <2>1. CASE r = e
      BY <1>1, <2>1 DEF Holds
    <2>2. CASE Holds(s, r)
      <3>1. PICK i \in 1 .. Len(s) : s[i] = r
        BY <2>2 DEF Holds
      <3>2. i \in 1 .. Len(t) /\ t[i] = r
        BY <1>1, <3>1
      <3>3. QED
        BY <3>2 DEF Holds
    <2>3. QED
      BY <1>3, <2>1, <2>2
  <1>4. ASSUME Once(s), ~ Holds(s, e) PROVE Once(t)
    <2>1. SUFFICES ASSUME NEW i \in 1 .. Len(t), NEW j \in 1 .. Len(t), t[i] = t[j], i < j
                   PROVE  FALSE
      BY <1>1 DEF Once
    <2>2. i \in 1 .. Len(s) /\ t[i] = s[i]
      BY <1>1, <2>1
    <2>3. CASE j \in 1 .. Len(s)
      <3>1. t[j] = s[j]
        BY <1>1, <2>3
      <3>2. s[i] = s[j]
        BY <2>1, <2>2, <3>1
      <3>3. QED
        BY <1>4, <2>1, <2>2, <2>3, <3>2 DEF Once
    <2>4. CASE j = Len(s) + 1
      BY <1>1, <1>4, <2>1, <2>2, <2>4 DEF Holds
    <2>5. QED
      BY <1>1, <2>3, <2>4
  <1>5. QED
    BY <1>1, <1>2, <1>3, <1>4 DEF t

(* Where the order of the two lists survives a change of one of them.      *)
LEMMA OrderSurvives ==
  ASSUME NEW ss \in Seq(Subscribers), NEW hs \in Seq(Subscribers), InOrder(ss, hs)
  PROVE  /\ \A e \in Subscribers : ~ Holds(hs, e) => InOrder(Append(ss, e), hs)
         /\ \A e \in Subscribers :
              Once(ss) /\ ss # <<>> /\ ss[Len(ss)] = e => InOrder(ss, Append(hs, e))
         /\ \A i \in 1 .. Len(ss) : InOrder(RemoveAt(ss, i), hs)
         /\ \A i \in 1 .. Len(hs) : InOrder(ss, RemoveAt(hs, i))
  <1>1. Len(ss) \in Nat /\ Len(hs) \in Nat
    OBVIOUS
  <1>2. ASSUME NEW e \in Subscribers, ~ Holds(hs, e) PROVE InOrder(Append(ss, e), hs)
    <2> DEFINE t == Append(ss, e)
    <2>1. /\ Len(t) = Len(ss) + 1 /\ \A i \in 1 .. Len(ss) : t[i] = ss[i]
          /\ t[Len(ss) + 1] = e
      BY PutLast
    <2> HIDE DEF t
    <2>2. SUFFICES ASSUME NEW i \in 1 .. Len(t), NEW j \in 1 .. Len(t),
                          NEW k \in 1 .. Len(hs), NEW l \in 1 .. Len(hs),
                          i < j, hs[k] = t[i], hs[l] = t[j]
                   PROVE  k < l
      BY DEF t, InOrder
    <2>3. j # Len(ss) + 1
      BY <1>2, <2>1, <2>2 DEF Holds
    <2>4. i \in 1 .. Len(ss) /\ j \in 1 .. Len(ss)
      <3>1. i \in 1 .. Len(ss) + 1 /\ j \in 1 .. Len(ss) + 1 /\ i < j
        BY <2>1, <2>2
      <3>2. QED
        BY <1>1, <2>3, <3>1
    <2>5. t[i] = ss[i] /\ t[j] = ss[j]
      BY <2>1, <2>4
    <2>6. QED
      BY <2>2, <2>4, <2>5 DEF InOrder
  <1>3. ASSUME NEW e \in Subscribers, Once(ss), ss # <<>>, ss[Len(ss)] = e
        PROVE  InOrder(ss, Append(hs, e))
    <2> DEFINE t == Append(hs, e)
    <2>1. /\ Len(t) = Len(hs) + 1 /\ \A i \in 1 .. Len(hs) : t[i] = hs[i]
          /\ t[Len(hs) + 1] = e
      BY PutLast
    <2> HIDE DEF t
    <2>2. SUFFICES ASSUME NEW i \in 1 .. Len(ss), NEW j \in 1 .. Len(ss),
                          NEW k \in 1 .. Len(t), NEW l \in 1 .. Len(t),
                          i < j, t[k] = ss[i], t[l] = ss[j]
                   PROVE  k < l
      BY DEF t, InOrder
    <2>3. k # Len(hs) + 1
      <3>1. SUFFICES ASSUME k = Len(hs) + 1 PROVE FALSE
        OBVIOUS
      <3>2. ss[i] = ss[Len(ss)] /\ Len(ss) \in 1 .. Len(ss)
        BY <1>1, <1>3, <2>1, <2>2, <3>1
      <3>3. i = Len(ss)
        BY <1>3, <3>2 DEF Once
      <3>4. QED
        BY <1>1, <2>2, <3>3
    <2>4. k \in 1 .. Len(hs) /\ t[k] = hs[k]
      BY <1>1, <2>1, <2>2, <2>3
    <2>5. CASE l = Len(hs) + 1
      BY <1>1, <2>4, <2>5
    <2>6. CASE l \in 1 .. Len(hs)
      <3>1. t[l] = hs[l]
        BY <2>1, <2>6
      <3>2. QED
        BY <2>2, <2>4, <2>6, <3>1 DEF InOrder
    <2>7. QED
      BY <1>1, <2>1, <2>5, <2>6
  <1>4. ASSUME NEW p \in 1 .. Len(ss) PROVE InOrder(RemoveAt(ss, p), hs)
    <2> DEFINE t == RemoveAt(ss, p)
               from(i) == IF i < p THEN i ELSE i + 1
    <2>1. Len(t) = Len(ss) - 1 /\ \A i \in 1 .. Len(ss) - 1 : t[i] = IF i < p THEN ss[i] ELSE ss[i + 1]
      BY Removed
    <2> HIDE DEF t
    <2>2. SUFFICES ASSUME NEW i \in 1 .. Len(t), NEW j \in 1 .. Len(t),
                          NEW k \in 1 .. Len(hs), NEW l \in 1 .. Len(hs),
                          i < j, hs[k] = t[i], hs[l] = t[j]
                   PROVE  k < l
      BY DEF t, InOrder
    <2>3. from(i) \in 1 .. Len(ss) /\ from(j) \in 1 .. Len(ss) /\ from(i) < from(j)
      BY <1>1, <2>1, <2>2
    <2>4. t[i] = ss[from(i)] /\ t[j] = ss[from(j)]
      BY <2>1
    <2> HIDE DEF from
    <2>5. QED
      BY <2>2, <2>3, <2>4 DEF InOrder
  <1>5. ASSUME NEW p \in 1 .. Len(hs) PROVE InOrder(ss, RemoveAt(hs, p))
    <2> DEFINE t == RemoveAt(hs, p)
               from(i) == IF i < p THEN i ELSE i + 1
    <2>1. Len(t) = Len(hs) - 1 /\ \A i \in 1 .. Len(hs) - 1 : t[i] = IF i < p THEN hs[i] ELSE hs[i + 1]
      BY Removed
    <2> HIDE DEF t
    <2>2. SUFFICES ASSUME NEW i \in 1 .. Len(ss), NEW j \in 1 .. Len(ss),
                          NEW k \in 1 .. Len(t), NEW l \in 1 .. Len(t),
                          i < j, t[k] = ss[i], t[l] = ss[j]
                   PROVE  k < l
      BY DEF t, InOrder
    <2>3. from(k) \in 1 .. Len(hs) /\ from(l) \in 1 .. Len(hs) /\ (from(k) < from(l) => k < l)
      BY <1>1, <2>1, <2>2
    <2>4. t[k] = hs[from(k)] /\ t[l] = hs[from(l)]
      BY <2>1
    <2> HIDE DEF from
    <2>5. QED
      BY <2>2, <2>3, <2>4 DEF InOrder
  <1>6. QED
    BY <1>2, <1>3, <1>4, <1>5

LEMMA SubscribeKeeps ==
  ASSUME EventListInv, NEW s \in Subscribers, Emitting!Subscribe(s)
  PROVE  EventListInv'
  <1>1. /\ registrar[s] = "out" /\ subsLock = Free /\ subsLock' = s
        /\ subscribers' = Append(subscribers, s)
        /\ registrar' = [registrar EXCEPT ![s] = "subscribing"]
        /\ UNCHANGED <<handles, handlesLock, position>>
    BY DEF Emitting!Subscribe
  <1>2. /\ subscribers \in Seq(Subscribers) /\ Once(subscribers) /\ ~ Holds(subscribers, s)
        /\ handles \in Seq(Subscribers) /\ ~ Holds(handles, s)
    BY <1>1 DEF EventListInv, EventListTypes, Members
  <1>3. /\ subscribers' \in Seq(Subscribers) /\ Len(subscribers') = Len(subscribers) + 1
        /\ \A i \in 1 .. Len(subscribers) : subscribers'[i] = subscribers[i]
        /\ subscribers'[Len(subscribers) + 1] = s
        /\ \A r : Holds(subscribers', r) <=> Holds(subscribers, r) \/ r = s
        /\ Once(subscribers')
    BY <1>1, <1>2, PutLast
  <1>4. \A q \in Subscribers : registrar'[q] = IF q = s THEN "subscribing" ELSE registrar[q]
    BY <1>1 DEF EventListInv, EventListTypes
  <1>5. EventListTypes' /\ LocksHeld'
    BY <1>1, <1>3, <1>4, EventsAssumption DEF EventListInv, EventListTypes, LocksHeld
  <1>6. Members'
    <2>1. \A q \in Subscribers : registrar[q] # "subscribing"
      BY <1>1, EventsAssumption DEF EventListInv, LocksHeld
    <2>2. subscribers' # <<>> /\ subscribers'[Len(subscribers')] = s
      BY <1>2, <1>3
    <2>3. \A q \in Subscribers : Holds(handles', q) <=> Holds(handles, q)
      BY <1>1
    <2>4. Once(handles')
      BY <1>1 DEF EventListInv, Members
    <2>5. QED
      BY <1>1, <1>3, <1>4, <2>1, <2>2, <2>3, <2>4 DEF EventListInv, Members
  <1>7. InOrder(subscribers', handles')
    BY <1>1, <1>2, OrderSurvives DEF EventListInv
  <1>8. Aligned'
    <2>1. AllIn' <=> AllIn
      BY <1>1, <1>3, <1>4 DEF AllIn
    <2>2. SameIndex => SameIndex'
      <3>1. SUFFICES ASSUME SameIndex PROVE SameIndex'
        OBVIOUS
      <3>2. Len(subscribers) \in Nat /\ Len(handles) \in Nat
        BY <1>2
      <3>3. Len(subscribers') = Len(handles') + (IF subsLock' = Free THEN 0 ELSE 1) + (IF handlesLock' = Free THEN 0 ELSE 1)
        <4>1. s # Free
          BY EventsAssumption
        <4>2. Len(subscribers) = Len(handles) + (IF handlesLock = Free THEN 0 ELSE 1)
          BY <1>1, <3>1, <3>2 DEF SameIndex
        <4>3. Len(subscribers') = Len(handles) + 1 + (IF handlesLock = Free THEN 0 ELSE 1)
          BY <1>3, <3>2, <4>2
        <4>4. QED
          BY <1>1, <4>1, <4>3
      <3>4. CASE handlesLock = Free
        BY <1>1, <1>3, <3>1, <3>2, <3>3, <3>4 DEF SameIndex
      <3>5. CASE handlesLock # Free
        <4> DEFINE p == position[handlesLock]
        <4>1. p \in 1 .. Len(subscribers) /\ subscribers[p] = handlesLock
          BY <3>1, <3>5 DEF SameIndex
        <4>2. ASSUME NEW i \in 1 .. Len(handles)
              PROVE  handles[i] = IF i < p THEN subscribers'[i] ELSE subscribers'[i + 1]
          <5>1. handles[i] = IF i < p THEN subscribers[i] ELSE subscribers[i + 1]
            BY <3>1, <3>5 DEF SameIndex
          <5>2. i \in 1 .. Len(subscribers) /\ i + 1 \in 1 .. Len(subscribers)
            BY <1>1, <3>1, <3>2, <3>5 DEF SameIndex
          <5>3. QED
            BY <1>3, <5>1, <5>2
        <4>3. p \in 1 .. Len(subscribers') /\ subscribers'[p] = handlesLock
          BY <1>3, <3>2, <4>1
        <4>4. QED
          BY <1>1, <3>3, <3>5, <4>2, <4>3 DEF SameIndex
      <3>6. QED
        BY <3>4, <3>5
    <2>3. QED
      BY <1>1, <2>1, <2>2 DEF EventListInv, Aligned
  <1>9. QED
    BY <1>5, <1>6, <1>7, <1>8 DEF EventListInv

LEMMA IssueHandleKeeps ==
  ASSUME EventListInv, NEW s \in Subscribers, Emitting!IssueHandle(s)
  PROVE  EventListInv'
  <1>1. /\ registrar[s] = "subscribing" /\ handlesLock = Free /\ subsLock' = Free
        /\ handles' = Append(handles, s)
        /\ registrar' = [registrar EXCEPT ![s] = "in"]
        /\ UNCHANGED <<subscribers, handlesLock, position>>
    BY DEF Emitting!IssueHandle
  <1>2. /\ subscribers \in Seq(Subscribers) /\ Once(subscribers) /\ subsLock = s
        /\ subscribers # <<>> /\ subscribers[Len(subscribers)] = s
        /\ handles \in Seq(Subscribers) /\ Once(handles) /\ ~ Holds(handles, s)
    BY <1>1 DEF EventListInv, EventListTypes, LocksHeld, Members
  <1>3. /\ handles' \in Seq(Subscribers) /\ Len(handles') = Len(handles) + 1
        /\ \A i \in 1 .. Len(handles) : handles'[i] = handles[i]
        /\ handles'[Len(handles) + 1] = s
        /\ \A r : Holds(handles', r) <=> Holds(handles, r) \/ r = s
        /\ Once(handles')
    BY <1>1, <1>2, PutLast
  <1>4. \A q \in Subscribers : registrar'[q] = IF q = s THEN "in" ELSE registrar[q]
    BY <1>1 DEF EventListInv, EventListTypes
  <1>5. EventListTypes' /\ LocksHeld'
    BY <1>1, <1>2, <1>3, <1>4, EventsAssumption DEF EventListInv, EventListTypes, LocksHeld
  <1>6. Members'
    <2>1. \A q \in Subscribers : registrar'[q] # "subscribing"
      BY <1>1, <1>5, EventsAssumption DEF LocksHeld
    <2>2. \A q \in Subscribers : Holds(subscribers', q) <=> Holds(subscribers, q)
      BY <1>1
    <2>3. Once(subscribers')
      BY <1>1, <1>2
    <2>4. QED
      BY <1>3, <1>4, <2>1, <2>2, <2>3 DEF EventListInv, Members
  <1>7. InOrder(subscribers', handles')
    BY <1>1, <1>2, OrderSurvives DEF EventListInv
  <1>8. Aligned'
    <2>1. AllIn' => AllIn
      BY <1>1, <1>4 DEF AllIn
    <2>2. SameIndex => SameIndex'
      <3>1. SUFFICES ASSUME SameIndex PROVE SameIndex'
        OBVIOUS
      <3>2. Len(subscribers) \in Nat /\ Len(handles) \in Nat /\ Len(subscribers) = Len(handles) + 1
        BY <1>1, <1>2, <3>1, EventsAssumption DEF SameIndex
      <3>3. \A i \in 1 .. Len(handles') : handles'[i] = subscribers[i]
        BY <1>1, <1>2, <1>3, <3>1, <3>2 DEF SameIndex
      <3>4. QED
        BY <1>1, <1>3, <3>2, <3>3 DEF SameIndex
    <2>3. QED
      BY <1>1, <2>1, <2>2 DEF EventListInv, Aligned
  <1>9. QED
    BY <1>5, <1>6, <1>7, <1>8 DEF EventListInv

(* The handle goes first; the index it had is that of its subscriber,      *)
(* since nobody was removed by id.                                         *)
LEMMA UnsubscribeHandleKeeps ==
  ASSUME ~ MixesRemovals, EventListInv, NEW s \in Subscribers, Emitting!UnsubscribeHandle(s)
  PROVE  EventListInv'
  <1> DEFINE p == Emitting!Index(handles, s)
  <1>1. /\ registrar[s] = "in" /\ handlesLock = Free /\ handlesLock' = s
        /\ handles' = RemoveAt(handles, p)
        /\ position' = [position EXCEPT ![s] = p]
        /\ registrar' = [registrar EXCEPT ![s] = "leaving"]
        /\ UNCHANGED <<subscribers, subsLock>>
    BY DEF Emitting!UnsubscribeHandle, Emitting!RemoveAt, RemoveAt
  <1>2. AllIn
    BY DEF Emitting!UnsubscribeHandle, AllIn, Emitting!RemovedById, Emitting!Contains, Holds
  <1>3. /\ subscribers \in Seq(Subscribers) /\ Once(subscribers)
        /\ handles \in Seq(Subscribers) /\ Once(handles) /\ Holds(handles, s)
    BY <1>1 DEF EventListInv, EventListTypes, Members
  <1>4. p \in 1 .. Len(handles) /\ handles[p] = s
    BY <1>3, IndexIs
  <1> HIDE DEF p
  <1>5. /\ handles' \in Seq(Subscribers) /\ Len(handles') = Len(handles) - 1
        /\ \A i \in 1 .. Len(handles) - 1 : handles'[i] = IF i < p THEN handles[i] ELSE handles[i + 1]
        /\ Once(handles')
        /\ \A r : Holds(handles', r) <=> Holds(handles, r) /\ r # s
    <2>1. /\ RemoveAt(handles, p) \in Seq(Subscribers) /\ Len(RemoveAt(handles, p)) = Len(handles) - 1
          /\ \A i \in 1 .. Len(handles) - 1 :
               RemoveAt(handles, p)[i] = IF i < p THEN handles[i] ELSE handles[i + 1]
      BY <1>3, <1>4, Removed
    <2>2. Once(RemoveAt(handles, p)) /\ \A r : Holds(RemoveAt(handles, p), r) <=> Holds(handles, r) /\ r # s
      BY <1>3, <1>4, TakenAway
    <2>3. QED
      BY <1>1, <2>1, <2>2
  <1>6. \A q \in Subscribers : registrar'[q] = IF q = s THEN "leaving" ELSE registrar[q]
    BY <1>1 DEF EventListInv, EventListTypes
  <1>7. EventListTypes' /\ LocksHeld'
    BY <1>1, <1>4, <1>5, <1>6, EventsAssumption DEF EventListInv, EventListTypes, LocksHeld
  <1>8. Members'
    <2>1. \A q \in Subscribers : Holds(subscribers', q) <=> Holds(subscribers, q)
      BY <1>1
    <2>2. Once(subscribers')
      BY <1>1, <1>3
    <2>3. QED
      BY <1>1, <1>5, <1>6, <2>1, <2>2 DEF EventListInv, Members
  <1>9. InOrder(subscribers', handles')
    BY <1>1, <1>3, <1>4, OrderSurvives DEF EventListInv
  <1>10. AllIn'
    BY <1>1, <1>2, <1>6 DEF AllIn
  <1>11. SameIndex'
    <2>1. SameIndex
      BY <1>2 DEF EventListInv, Aligned
    <2>2. Len(subscribers) \in Nat /\ Len(handles) \in Nat /\ Len(handles) <= Len(subscribers)
      BY <1>1, <1>3, <2>1 DEF SameIndex
    <2>3. handlesLock' # Free /\ position'[handlesLock'] = p
      BY <1>1, EventsAssumption DEF EventListInv, EventListTypes
    <2>4. p \in 1 .. Len(subscribers') /\ subscribers'[p] = s
      BY <1>1, <1>4, <2>1, <2>2 DEF SameIndex
    <2>5. ASSUME NEW i \in 1 .. Len(handles')
          PROVE  handles'[i] = IF i < p THEN subscribers'[i] ELSE subscribers'[i + 1]
      <3>1. i \in 1 .. Len(handles) - 1 /\ i \in 1 .. Len(handles) /\ i + 1 \in 1 .. Len(handles)
        BY <1>5, <2>2
      <3>2. handles[i] = subscribers[i] /\ handles[i + 1] = subscribers[i + 1]
        BY <1>1, <2>1, <3>1 DEF SameIndex
      <3>3. QED
        BY <1>1, <1>5, <3>1, <3>2
    <2>6. Len(subscribers') = Len(handles') + (IF subsLock' = Free THEN 0 ELSE 1) + 1
      BY <1>1, <1>5, <2>1, <2>2 DEF SameIndex
    <2>7. QED
      BY <1>1, <2>3, <2>4, <2>5, <2>6 DEF SameIndex
  <1>12. QED
    BY <1>7, <1>8, <1>9, <1>10, <1>11 DEF EventListInv, Aligned

LEMMA DropSubscriberKeeps ==
  ASSUME EventListInv, NEW s \in Subscribers, Emitting!DropSubscriber(s)
  PROVE  EventListInv'
  <1> DEFINE p == position[s]
  <1>1. /\ registrar[s] = "leaving" /\ subsLock = Free /\ handlesLock' = Free
        /\ subscribers' = RemoveAt(subscribers, p)
        /\ registrar' = [registrar EXCEPT ![s] = "gone"]
        /\ UNCHANGED <<subsLock, handles, position>>
    BY DEF Emitting!DropSubscriber, Emitting!RemoveAt, RemoveAt
  <1>2. /\ handlesLock = s /\ s # Free /\ SameIndex
        /\ subscribers \in Seq(Subscribers) /\ Once(subscribers)
        /\ handles \in Seq(Subscribers) /\ Once(handles)
    BY <1>1, EventsAssumption DEF EventListInv, EventListTypes, LocksHeld, Members, Aligned
  <1>3. p \in 1 .. Len(subscribers) /\ subscribers[p] = s
    BY <1>2 DEF SameIndex
  <1> HIDE DEF p
  <1>4. /\ subscribers' \in Seq(Subscribers) /\ Len(subscribers') = Len(subscribers) - 1
        /\ \A i \in 1 .. Len(subscribers) - 1 :
             subscribers'[i] = IF i < p THEN subscribers[i] ELSE subscribers[i + 1]
        /\ Once(subscribers')
        /\ \A r : Holds(subscribers', r) <=> Holds(subscribers, r) /\ r # s
    <2> DEFINE t == RemoveAt(subscribers, p)
    <2>1. /\ t \in Seq(Subscribers) /\ Len(t) = Len(subscribers) - 1
          /\ \A i \in 1 .. Len(subscribers) - 1 :
               t[i] = IF i < p THEN subscribers[i] ELSE subscribers[i + 1]
      BY <1>2, <1>3, Removed
    <2>2. Once(t) /\ \A r : Holds(t, r) <=> Holds(subscribers, r) /\ r # s
      BY <1>2, <1>3, TakenAway
    <2>3. QED
      BY <1>1, <2>1, <2>2
  <1>5. \A q \in Subscribers : registrar'[q] = IF q = s THEN "gone" ELSE registrar[q]
    BY <1>1 DEF EventListInv, EventListTypes
  <1>6. EventListTypes' /\ LocksHeld'
    BY <1>1, <1>2, <1>4, <1>5, EventsAssumption DEF EventListInv, EventListTypes, LocksHeld
  <1>7. Members'
    <2>1. \A q \in Subscribers : registrar[q] # "subscribing"
      BY <1>1, EventsAssumption DEF EventListInv, LocksHeld
    <2>2. \A q \in Subscribers : Holds(handles', q) <=> Holds(handles, q)
      BY <1>1
    <2>3. Once(handles')
      BY <1>1, <1>2
    <2>4. QED
      BY <1>1, <1>4, <1>5, <2>1, <2>2, <2>3 DEF EventListInv, Members
  <1>8. InOrder(subscribers', handles')
    BY <1>1, <1>2, <1>3, OrderSurvives DEF EventListInv
  <1>9. SameIndex'
    <2>1. Len(subscribers) \in Nat /\ Len(handles) \in Nat /\ Len(subscribers) = Len(handles) + 1
      BY <1>1, <1>2 DEF SameIndex
    <2>2. \A i \in 1 .. Len(handles) : handles[i] = IF i < p THEN subscribers[i] ELSE subscribers[i + 1]
      BY <1>2 DEF SameIndex, p
    <2>3. \A i \in 1 .. Len(handles) : handles[i] = subscribers'[i]
      BY <1>4, <2>1, <2>2
    <2>4. QED
      BY <1>1, <1>4, <2>1, <2>3 DEF SameIndex
  <1>10. QED
    BY <1>1, <1>6, <1>7, <1>8, <1>9 DEF EventListInv, Aligned

(* A removal by id ends the correspondence of the indices for good.        *)
LEMMA UnsubscribeByIdKeeps ==
  ASSUME ~ MixesRemovals, EventListInv, NEW s \in Subscribers, Emitting!UnsubscribeById(s)
  PROVE  EventListInv'
  <1> DEFINE p == Emitting!Index(subscribers, s)
  <1>1. /\ subsLock = Free /\ Holds(subscribers, s)
        /\ \A q \in Subscribers : registrar[q] # "leaving"
        /\ subscribers' = RemoveAt(subscribers, p)
        /\ UNCHANGED <<subsLock, handles, handlesLock, registrar, position>>
    BY DEF Emitting!UnsubscribeById, Emitting!RemoveAt, RemoveAt, Emitting!Contains, Holds
  <1>2. /\ subscribers \in Seq(Subscribers) /\ Once(subscribers)
        /\ handles \in Seq(Subscribers) /\ Once(handles)
    BY DEF EventListInv, EventListTypes, Members
  <1>3. p \in 1 .. Len(subscribers) /\ subscribers[p] = s
    BY <1>1, <1>2, IndexIs
  <1> HIDE DEF p
  <1>4. /\ subscribers' \in Seq(Subscribers) /\ Once(subscribers')
        /\ \A r : Holds(subscribers', r) <=> Holds(subscribers, r) /\ r # s
    BY <1>1, <1>2, <1>3, Removed, TakenAway
  <1>5. \A q \in Subscribers : registrar[q] # "subscribing"
    BY <1>1, EventsAssumption DEF EventListInv, LocksHeld
  <1>6. EventListTypes' /\ LocksHeld'
    BY <1>1, <1>4 DEF EventListInv, EventListTypes, LocksHeld
  <1>7. Members'
    <2>1. \A q \in Subscribers : Holds(handles', q) <=> Holds(handles, q)
      BY <1>1
    <2>2. Once(handles')
      BY <1>1, <1>2
    <2>3. QED
      BY <1>1, <1>4, <1>5, <2>1, <2>2 DEF EventListInv, Members
  <1>8. InOrder(subscribers', handles')
    BY <1>1, <1>2, <1>3, OrderSurvives DEF EventListInv
  <1>9. handlesLock' = Free
    BY <1>1 DEF EventListInv, EventListTypes, LocksHeld
  <1>10. ~ AllIn'
    <2>1. registrar[s] = "in"
      BY <1>1, <1>5 DEF EventListInv, Members
    <2>2. QED
      BY <1>1, <1>4, <2>1 DEF AllIn
  <1>11. QED
    BY <1>6, <1>7, <1>8, <1>9, <1>10 DEF EventListInv, Aligned

LEMMA EventListsUnchanged ==
  ASSUME EventListInv, UNCHANGED Emitting!lists
  PROVE  EventListInv'
  <1>1. UNCHANGED <<subscribers, subsLock, handles, handlesLock, registrar, position>>
    BY DEF Emitting!lists
  <1>2. EventListTypes' /\ LocksHeld'
    BY <1>1 DEF EventListInv, EventListTypes, LocksHeld
  <1>3. Members'
    BY <1>1 DEF EventListInv, Members, Once, Holds
  <1>4. InOrder(subscribers, handles)' /\ (AllIn' <=> AllIn) /\ (SameIndex' <=> SameIndex)
    BY <1>1 DEF EventListInv, InOrder, AllIn, Holds, SameIndex
  <1>5. QED
    BY <1>1, <1>2, <1>3, <1>4 DEF EventListInv, Aligned

LEMMA EventListStep ==
  ASSUME ~ MixesRemovals, EventListInv, [Emitting!Next]_eventVars
  PROVE  EventListInv'
  <1>1. ASSUME NEW s \in Subscribers,
               \/ Emitting!Subscribe(s) \/ Emitting!IssueHandle(s) \/ Emitting!UnsubscribeHandle(s)
               \/ Emitting!DropSubscriber(s) \/ Emitting!UnsubscribeById(s)
        PROVE  EventListInv'
    BY <1>1, SubscribeKeeps, IssueHandleKeeps, UnsubscribeHandleKeeps, DropSubscriberKeeps,
       UnsubscribeByIdKeeps
  <1>2. CASE UNCHANGED Emitting!lists
    BY <1>2, EventListsUnchanged
  <1>3. QED
    BY <1>1, <1>2
    DEF Emitting!Next, Emitting!lists, eventVars, Emitting!Emit, Emitting!Dispatch, Emitting!Track,
        Emitting!AwaitNext, Emitting!Deliver, Emitting!AttemptFails, Emitting!Exhausted,
        Emitting!LettersSent, Emitting!OnFailure, Emitting!SendLetter, Emitting!FlushJoins,
        Emitting!FlushTimesOut, Emitting!Shutdown, Emitting!FlushTakes, Emitting!FlushReturns

LEMMA EventListsStart ==
  ASSUME Emitting!Init
  PROVE  EventListInv
  <1>1. /\ subscribers = Subscribed /\ handles = Subscribed /\ subsLock = Free /\ handlesLock = Free
        /\ registrar = [s \in Subscribers |->
             IF \E i \in 1 .. Len(Subscribed) : Subscribed[i] = s THEN "in" ELSE "out"]
        /\ position = [s \in Subscribers |-> 0]
    BY DEF Emitting!Init
  <1>2. Subscribed \in Seq(Subscribers) /\ Once(Subscribed) /\ Free \notin Subscribers
    BY EventsAssumption DEF Once
  <1>3. EventListTypes /\ LocksHeld
    BY <1>1, <1>2 DEF EventListTypes, LocksHeld
  <1>4. Members
    BY <1>1, <1>2 DEF Members, Holds
  <1>5. InOrder(subscribers, handles)
    <2>1. SUFFICES ASSUME NEW i \in 1 .. Len(Subscribed), NEW j \in 1 .. Len(Subscribed),
                          NEW k \in 1 .. Len(Subscribed), NEW l \in 1 .. Len(Subscribed),
                          i < j, Subscribed[k] = Subscribed[i], Subscribed[l] = Subscribed[j]
                   PROVE  k < l
      BY <1>1 DEF InOrder
    <2>2. k = i /\ l = j
      BY <1>2, <2>1 DEF Once
    <2>3. QED
      BY <2>1, <2>2
  <1>6. SameIndex
    BY <1>1, <1>2 DEF SameIndex
  <1>7. QED
    BY <1>1, <1>3, <1>4, <1>5, <1>6 DEF EventListInv, Aligned

LEMMA HandlesAreAligned ==
  ASSUME EventListInv
  PROVE  Emitting!HandlesAligned
  <1>1. /\ subscribers \in Seq(Subscribers) /\ handles \in Seq(Subscribers)
        /\ DOMAIN subscribers = 1 .. Len(subscribers) /\ DOMAIN handles = 1 .. Len(handles)
        /\ Once(handles) /\ Once(subscribers) /\ InOrder(subscribers, handles)
    BY DEF EventListInv, EventListTypes, Members
  <1>2. ASSUME subsLock = Free, handlesLock = Free, NEW i \in DOMAIN subscribers
        PROVE  Holds(handles, subscribers[i])
    <2>1. subscribers[i] \in Subscribers /\ Holds(subscribers, subscribers[i])
      BY <1>1 DEF Holds
    <2>2. registrar[subscribers[i]] \notin {"subscribing", "leaving"}
      BY <1>2, <2>1, EventsAssumption DEF EventListInv, LocksHeld
    <2>3. QED
      BY <2>1, <2>2 DEF EventListInv, Members
  <1>3. ASSUME subsLock = Free, handlesLock = Free,
               NEW i \in DOMAIN subscribers, NEW j \in DOMAIN subscribers, i < j
        PROVE  Emitting!Index(handles, subscribers[i]) < Emitting!Index(handles, subscribers[j])
    <2> DEFINE k == Emitting!Index(handles, subscribers[i])
               l == Emitting!Index(handles, subscribers[j])
    <2>1. k \in 1 .. Len(handles) /\ handles[k] = subscribers[i]
      BY <1>1, <1>2, <1>3, IndexIs
    <2>2. l \in 1 .. Len(handles) /\ handles[l] = subscribers[j]
      BY <1>1, <1>2, <1>3, IndexIs
    <2> HIDE DEF k, l
    <2>3. k < l
      BY <1>1, <1>3, <2>1, <2>2 DEF InOrder
    <2>4. QED
      BY <2>3 DEF k, l
  <1>4. ASSUME NEW s \in Subscribers, registrar[s] = "leaving"
        PROVE  position[s] \in DOMAIN subscribers /\ subscribers[position[s]] = s
    <2>1. handlesLock = s /\ s # Free
      BY <1>4, EventsAssumption DEF EventListInv, LocksHeld
    <2>2. SameIndex
      BY <2>1 DEF EventListInv, Aligned
    <2>3. QED
      BY <1>1, <2>1, <2>2 DEF SameIndex
  <1>5. \A i \in DOMAIN subscribers :
          subsLock = Free /\ handlesLock = Free => Emitting!Contains(handles, subscribers[i])
    BY <1>2 DEF Emitting!Contains, Holds
  <1>6. \A k, l \in DOMAIN handles : handles[k] = handles[l] => k = l
    BY <1>1 DEF Once
  <1>7. QED
    BY <1>3, <1>4, <1>5, <1>6 DEF Emitting!HandlesAligned

(* The list of handles stays parallel to the list it belongs to: with the  *)
(* subscribers of the emitter where removals by id and by handle are not   *)
(* mixed, with the middlewares where no other call overlaps remove_handle. *)
THEOREM HandlesStayAligned ==
  ASSUME ~ MixesRemovals, ByHandleAlone
  PROVE  Spec => []HandlesAligned
  <1> DEFINE Kept == /\ focus = "events" => EventListInv
                     /\ focus = "middlewares" => MiddlewareInv
  <1>1. Init => Kept
    <2>1. Init /\ focus = "events" => EventListInv
      BY EventListsStart DEF Init
    <2>2. Init /\ focus = "middlewares" => MiddlewareInv
      BY MiddlewareStarts DEF Init
    <2>3. QED
      BY <2>1, <2>2
  <1>2. Kept /\ [Next]_vars => Kept'
    <2>1. SUFFICES ASSUME Kept, [Next]_vars PROVE Kept'
      OBVIOUS
    <2>2. focus' = "events" => EventListInv'
      BY <2>1, OneMoves, EventListStep
    <2>3. focus' = "middlewares" => MiddlewareInv'
      BY <2>1, OneMoves, MiddlewareStep
    <2>4. QED
      BY <2>2, <2>3
  <1>3. Kept => HandlesAligned
    BY HandlesAreAligned, ListsAreParallel DEF HandlesAligned
  <1>4. QED
    <2> HIDE DEF Kept
    <2>1. QED
      BY <1>1, <1>2, <1>3, PTL DEF Spec

-----------------------------------------------------------------------------
(* The deliveries of the emitter.                                          *)
DeliveryTypes ==
  /\ emitter \in [Messages -> {"idle", "admitted", "track", "awaiting", "returned"}]
  /\ DOMAIN mode = Messages /\ DOMAIN stage = Messages \X Subscribers
  /\ pending \subseteq Emitting!Deliveries
  /\ flusher \in [Flushers -> {"idle", "flush", "awaiting", "returned"}]
  /\ held \in [Flushers -> SUBSET Emitting!Deliveries]
  /\ unfinished \in [Flushers -> SUBSET Emitting!Deliveries]
  /\ owed \in [Flushers -> SUBSET Emitting!Deliveries]

(* No delivery before its emit has dispatched, and none that emit tracks   *)
(* is awaited by the emit.                                                 *)
EmitsFollow ==
  \A m \in Messages :
    /\ emitter[m] \in {"idle", "admitted"} => \A s \in Subscribers : stage[<<m, s>>] = "none"
    /\ emitter[m] = "awaiting" => mode[m] # "emit"

(* What a flush has of deliveries, by how far it is.                       *)
FlushesFollow ==
  \A f \in Flushers :
    /\ flusher[f] \in {"idle", "flush"} => held[f] = {} /\ unfinished[f] = {}
    /\ held[f] = {} \/ unfinished[f] = {}

KnownToEmitter ==
  \A d \in Emitting!Deliveries :
    Emitting!Running(d) /\ Emitting!Tracked(d[1]) /\ emitter[d[1]] = "returned" =>
      \/ d \in pending \cup detached
      \/ \E f \in Flushers : d \in held[f] \cup unfinished[f]

(* A patient flush returns with nothing it owes running.                   *)
OwedIsHeld ==
  \A f \in Flushers, d \in Emitting!Deliveries : d \in owed[f] =>
    /\ emitter[d[1]] = "returned"
    /\ f \in Patient /\ Emitting!Running(d) => flusher[f] = "awaiting" /\ d \in held[f]

DeliveryInv == DeliveryTypes /\ EmitsFollow /\ FlushesFollow /\ KnownToEmitter /\ OwedIsHeld

(* What an action of one delivery leaves alone.                            *)
LEMMA DeliveringKeeps ==
  ASSUME DeliveryInv, NEW d \in Emitting!Deliveries, NEW t,
         stage' = [stage EXCEPT ![d] = t], stage[d] # "none", t # "none",
         t \in {"trying", "dlq", "failure"} => Emitting!Running(d),
         UNCHANGED <<emitter, mode, flusher, held, unfinished, owed, pending, detached>>
  PROVE  DeliveryInv'
  <1>1. \A c \in Emitting!Deliveries : stage'[c] = IF c = d THEN t ELSE stage[c]
    BY DEF DeliveryInv, DeliveryTypes, Emitting!Deliveries
  <1>2. \A c \in Emitting!Deliveries : Emitting!Running(c)' => Emitting!Running(c)
    BY <1>1 DEF Emitting!Running
  <1>3. \A m \in Messages, s \in Subscribers : stage[<<m, s>>] = "none" => stage'[<<m, s>>] = "none"
    BY <1>1 DEF Emitting!Deliveries
  <1>4. DeliveryTypes'
    BY DEF DeliveryInv, DeliveryTypes, Emitting!Deliveries
  <1>5. EmitsFollow' /\ FlushesFollow'
    BY <1>3 DEF DeliveryInv, EmitsFollow, FlushesFollow
  <1>6. KnownToEmitter'
    BY <1>2 DEF DeliveryInv, KnownToEmitter, Emitting!Tracked, Emitting!Deliveries
  <1>7. OwedIsHeld'
    BY <1>2 DEF DeliveryInv, OwedIsHeld, Emitting!Deliveries
  <1>8. QED
    BY <1>4, <1>5, <1>6, <1>7 DEF DeliveryInv

LEMMA EmitKeeps ==
  ASSUME DeliveryInv, NEW m \in Messages, Emitting!Emit(m)
  PROVE  DeliveryInv'
  <1>1. /\ emitter[m] = "idle" /\ \E how : mode' = [mode EXCEPT ![m] = how]
        /\ emitter' = [emitter EXCEPT ![m] = IF isShutdown THEN "returned" ELSE "admitted"]
        /\ UNCHANGED <<stage, flusher, held, unfinished, owed, pending, detached>>
    BY DEF Emitting!Emit, Emitting!deliveries, Emitting!flushes
  <1>2. /\ emitter'[m] \in {"returned", "admitted"}
        /\ \A n \in Messages : n # m => emitter'[n] = emitter[n] /\ mode'[n] = mode[n]
    BY <1>1 DEF DeliveryInv, DeliveryTypes
  <1>3. \A d \in Emitting!Deliveries : d[1] = m => ~ Emitting!Running(d)
    BY <1>1 DEF DeliveryInv, EmitsFollow, Emitting!Deliveries, Emitting!Running
  <1>4. \A d \in Emitting!Deliveries : d[1] \in Messages /\ (Emitting!Running(d)' <=> Emitting!Running(d))
    BY <1>1 DEF Emitting!Running, Emitting!Deliveries
  <1>5. DeliveryTypes'
    BY <1>1 DEF DeliveryInv, DeliveryTypes, Emitting!Deliveries
  <1>6. EmitsFollow' /\ FlushesFollow'
    BY <1>1, <1>2 DEF DeliveryInv, EmitsFollow, FlushesFollow
  <1>7. KnownToEmitter'
    BY <1>1, <1>2, <1>3, <1>4 DEF DeliveryInv, KnownToEmitter, Emitting!Tracked, Emitting!Deliveries
  <1>8. OwedIsHeld'
    BY <1>1, <1>2, <1>4 DEF DeliveryInv, OwedIsHeld, Emitting!Deliveries
  <1>9. QED
    BY <1>5, <1>6, <1>7, <1>8 DEF DeliveryInv

(* Only the deliveries of an emit that has not returned may start.         *)
LEMMA StartingDeliveriesKeeps ==
  ASSUME DeliveryInv, NEW m \in Messages, Emitting!Dispatch(m) \/ Emitting!AwaitNext(m)
  PROVE  DeliveryInv'
  <1>1. /\ emitter[m] \in {"admitted", "awaiting"}
        /\ \E p \in {"track", "returned", "awaiting"} :
             /\ emitter' = [emitter EXCEPT ![m] = p]
             /\ p = "awaiting" => mode[m] # "emit"
             /\ p = "returned" => mode[m] # "emit"
        /\ UNCHANGED <<mode, flusher, held, unfinished, owed, pending, detached>>
    <2>1. CASE Emitting!Dispatch(m)
      BY <2>1 DEF Emitting!Dispatch, Emitting!flushes
    <2>2. CASE Emitting!AwaitNext(m)
      BY <2>2 DEF Emitting!AwaitNext, Emitting!flushes, DeliveryInv, DeliveryTypes, EmitsFollow
    <2>3. QED
      BY <2>1, <2>2
  <1>2. /\ DOMAIN stage' = Messages \X Subscribers
        /\ \A d \in Emitting!Deliveries : d[1] # m => stage'[d] = stage[d]
    <2>1. CASE Emitting!Dispatch(m)
      BY <2>1 DEF Emitting!Dispatch, Emitting!Deliveries
    <2>2. CASE Emitting!AwaitNext(m)
      <3>1. stage' = stage \/ \E s : stage' = [stage EXCEPT ![<<m, s>>] = "trying"]
        BY <2>2 DEF Emitting!AwaitNext
      <3>2. \A s, d : d[1] # m => d # <<m, s>>
        OBVIOUS
      <3>3. CASE stage' = stage
        BY <3>3 DEF DeliveryInv, DeliveryTypes
      <3>4. ASSUME NEW s, stage' = [stage EXCEPT ![<<m, s>>] = "trying"]
            PROVE  /\ DOMAIN stage' = Messages \X Subscribers
                   /\ \A d \in Emitting!Deliveries : d[1] # m => stage'[d] = stage[d]
        BY <3>2, <3>4 DEF DeliveryInv, DeliveryTypes, Emitting!Deliveries
      <3>5. QED
        BY <3>1, <3>3, <3>4
    <2>3. QED
      BY <2>1, <2>2
  <1>3. /\ emitter'[m] \in {"track", "returned", "awaiting"}
        /\ emitter'[m] \in {"returned", "awaiting"} => mode[m] # "emit"
        /\ \A n \in Messages : n # m => emitter'[n] = emitter[n]
    BY <1>1 DEF DeliveryInv, DeliveryTypes
  <1>4. \A d \in Emitting!Deliveries :
          d[1] \in Messages /\ (d[1] # m => (Emitting!Running(d)' <=> Emitting!Running(d)))
    BY <1>2 DEF Emitting!Running, Emitting!Deliveries
  <1>5. DeliveryTypes'
    BY <1>1, <1>2 DEF DeliveryInv, DeliveryTypes, Emitting!Deliveries
  <1>6. EmitsFollow'
    <2>1. \A n \in Messages, s \in Subscribers : n # m => stage'[<<n, s>>] = stage[<<n, s>>]
      BY <1>2 DEF Emitting!Deliveries
    <2>2. QED
      BY <1>1, <1>3, <2>1 DEF DeliveryInv, EmitsFollow
  <1>7. FlushesFollow'
    BY <1>1 DEF DeliveryInv, FlushesFollow
  <1>8. KnownToEmitter'
    BY <1>1, <1>3, <1>4 DEF DeliveryInv, KnownToEmitter, Emitting!Tracked, Emitting!Deliveries
  <1>9. OwedIsHeld'
    BY <1>1, <1>3, <1>4 DEF DeliveryInv, OwedIsHeld, Emitting!Deliveries
  <1>10. QED
    BY <1>5, <1>6, <1>7, <1>8, <1>9 DEF DeliveryInv

LEMMA TrackKeeps ==
  ASSUME DeliveryInv, NEW m \in Messages, Emitting!Track(m)
  PROVE  DeliveryInv'
  <1>1. /\ emitter[m] = "track" /\ emitter' = [emitter EXCEPT ![m] = "returned"]
        /\ \A d \in Emitting!Deliveries : Emitting!Running(d) /\ (d \in pending \/ d[1] = m) => d \in pending'
        /\ pending' \subseteq pending \cup Emitting!Deliveries
        /\ UNCHANGED <<mode, stage, flusher, held, unfinished, owed, detached>>
    BY DEF Emitting!Track, Emitting!deliveries, Emitting!flushes, Emitting!Running
  <1>2. \A n \in Messages : emitter'[n] = IF n = m THEN "returned" ELSE emitter[n]
    BY <1>1 DEF DeliveryInv, DeliveryTypes
  <1>3. \A d \in Emitting!Deliveries : d[1] \in Messages /\ (Emitting!Running(d)' <=> Emitting!Running(d))
    BY <1>1 DEF Emitting!Running, Emitting!Deliveries
  <1>4. DeliveryTypes'
    BY <1>1 DEF DeliveryInv, DeliveryTypes, Emitting!Deliveries
  <1>5. EmitsFollow' /\ FlushesFollow'
    BY <1>1, <1>2 DEF DeliveryInv, EmitsFollow, FlushesFollow
  <1>6. KnownToEmitter'
    BY <1>1, <1>2, <1>3 DEF DeliveryInv, KnownToEmitter, Emitting!Tracked, Emitting!Deliveries
  <1>7. OwedIsHeld'
    BY <1>1, <1>2, <1>3 DEF DeliveryInv, OwedIsHeld, Emitting!Deliveries
  <1>8. QED
    BY <1>4, <1>5, <1>6, <1>7 DEF DeliveryInv

LEMMA FlushStartKeeps ==
  ASSUME DeliveryInv, NEW f \in Flushers, Emitting!Shutdown(f) \/ Emitting!FlushTakes(f)
  PROVE  DeliveryInv'
  <1>1. CASE Emitting!Shutdown(f)
    <2>1. /\ flusher[f] = "idle"
          /\ \E p \in {"returned", "flush"} : flusher' = [flusher EXCEPT ![f] = p]
          /\ UNCHANGED <<emitter, mode, stage, held, unfinished, owed, pending, detached>>
      BY <1>1 DEF Emitting!Shutdown, Emitting!emits, Emitting!deliveries
    <2>2. \A g \in Flushers : g # f => flusher'[g] = flusher[g]
      BY <2>1 DEF DeliveryInv, DeliveryTypes
    <2>3. DeliveryTypes'
      BY <2>1 DEF DeliveryInv, DeliveryTypes, Emitting!Deliveries
    <2>4. EmitsFollow' /\ FlushesFollow'
      BY <2>1, <2>2 DEF DeliveryInv, EmitsFollow, FlushesFollow
    <2>5. \A d \in Emitting!Deliveries : Emitting!Running(d)' <=> Emitting!Running(d)
      BY <2>1 DEF Emitting!Running
    <2>6. KnownToEmitter'
      BY <2>1, <2>5 DEF DeliveryInv, KnownToEmitter, Emitting!Tracked, Emitting!Deliveries
    <2>7. OwedIsHeld'
      BY <2>1, <2>2, <2>5 DEF DeliveryInv, OwedIsHeld, Emitting!Deliveries
    <2>8. QED
      BY <2>3, <2>4, <2>6, <2>7 DEF DeliveryInv
  <1>2. CASE Emitting!FlushTakes(f)
    <2> DEFINE due == {d \in Emitting!Deliveries :
                 /\ Emitting!Running(d) /\ Emitting!Tracked(d[1]) /\ emitter[d[1]] = "returned"
                 /\ d \notin detached
                 /\ \A g \in Flushers : d \notin held[g] \cup unfinished[g]}
    <2>1. /\ flusher[f] \in {"idle", "flush"} /\ flusher' = [flusher EXCEPT ![f] = "awaiting"]
          /\ held' = [held EXCEPT ![f] = pending] /\ pending' = {}
          /\ owed' = [owed EXCEPT ![f] = due]
          /\ UNCHANGED <<emitter, mode, stage, unfinished, detached>>
      BY <1>2 DEF Emitting!FlushTakes, Emitting!emits, Emitting!deliveries
    <2>2. due \subseteq pending
      BY DEF DeliveryInv, KnownToEmitter
    <2>3. due \subseteq Emitting!Deliveries /\ \A d \in due : emitter[d[1]] = "returned"
      OBVIOUS
    <2> HIDE DEF due
    <2>4. /\ flusher'[f] = "awaiting" /\ held'[f] = pending /\ owed'[f] = due /\ held[f] = {} /\ unfinished[f] = {}
          /\ \A g \in Flushers : g # f => flusher'[g] = flusher[g] /\ held'[g] = held[g] /\ owed'[g] = owed[g]
      BY <2>1 DEF DeliveryInv, DeliveryTypes, FlushesFollow
    <2>5. \A d \in Emitting!Deliveries : Emitting!Running(d)' <=> Emitting!Running(d)
      BY <2>1 DEF Emitting!Running
    <2>6. DeliveryTypes'
      BY <2>1, <2>3 DEF DeliveryInv, DeliveryTypes, Emitting!Deliveries
    <2>7. EmitsFollow' /\ FlushesFollow'
      BY <2>1, <2>4 DEF DeliveryInv, EmitsFollow, FlushesFollow
    <2>8. KnownToEmitter'
      BY <2>1, <2>4, <2>5 DEF DeliveryInv, KnownToEmitter, Emitting!Tracked, Emitting!Deliveries
    <2>9. OwedIsHeld'
      BY <2>1, <2>2, <2>3, <2>4, <2>5 DEF DeliveryInv, OwedIsHeld, Emitting!Deliveries
    <2>10. QED
      BY <2>6, <2>7, <2>8, <2>9 DEF DeliveryInv
  <1>3. QED
    BY <1>1, <1>2

LEMMA FlushEndKeeps ==
  ASSUME DeliveryInv, NEW f \in Flushers,
         \/ Emitting!FlushReturns(f)
         \/ \E d \in Emitting!Deliveries : Emitting!FlushJoins(f, d) \/ Emitting!FlushTimesOut(f, d)
  PROVE  DeliveryInv'
  <1>1. CASE Emitting!FlushReturns(f)
    <2>1. /\ flusher[f] = "awaiting" /\ flusher' = [flusher EXCEPT ![f] = "returned"]
          /\ held[f] = {} /\ unfinished' = [unfinished EXCEPT ![f] = {}]
          /\ pending' = pending \cup unfinished[f]
          /\ UNCHANGED <<emitter, mode, stage, held, owed, detached>>
      BY <1>1 DEF Emitting!FlushReturns, Emitting!emits, Emitting!deliveries
    <2>2. /\ flusher'[f] = "returned" /\ unfinished'[f] = {}
          /\ \A g \in Flushers : g # f => flusher'[g] = flusher[g] /\ unfinished'[g] = unfinished[g]
      BY <2>1 DEF DeliveryInv, DeliveryTypes
    <2>3. \A d \in Emitting!Deliveries : Emitting!Running(d)' <=> Emitting!Running(d)
      BY <2>1 DEF Emitting!Running
    <2>4. DeliveryTypes'
      BY <2>1 DEF DeliveryInv, DeliveryTypes, Emitting!Deliveries
    <2>5. EmitsFollow' /\ FlushesFollow'
      BY <2>1, <2>2 DEF DeliveryInv, EmitsFollow, FlushesFollow
    <2>6. KnownToEmitter'
      BY <2>1, <2>2, <2>3 DEF DeliveryInv, KnownToEmitter, Emitting!Tracked, Emitting!Deliveries
    <2>7. OwedIsHeld'
      BY <2>1, <2>2, <2>3 DEF DeliveryInv, OwedIsHeld, Emitting!Deliveries
    <2>8. QED
      BY <2>4, <2>5, <2>6, <2>7 DEF DeliveryInv
  <1>2. ASSUME NEW d \in Emitting!Deliveries, Emitting!FlushJoins(f, d) PROVE DeliveryInv'
    <2>1. /\ ~ Emitting!Running(d) /\ held' = [held EXCEPT ![f] = held[f] \ {d}]
          /\ UNCHANGED <<emitter, mode, stage, flusher, unfinished, owed, pending, detached>>
      BY <1>2 DEF Emitting!FlushJoins, Emitting!emits, Emitting!deliveries
    <2>2. held'[f] = held[f] \ {d} /\ \A g \in Flushers : g # f => held'[g] = held[g]
      BY <2>1 DEF DeliveryInv, DeliveryTypes
    <2>3. \A c \in Emitting!Deliveries : Emitting!Running(c)' <=> Emitting!Running(c)
      BY <2>1 DEF Emitting!Running
    <2>4. DeliveryTypes'
      BY <2>1 DEF DeliveryInv, DeliveryTypes, Emitting!Deliveries
    <2>5. EmitsFollow' /\ FlushesFollow'
      BY <2>1, <2>2 DEF DeliveryInv, EmitsFollow, FlushesFollow
    <2>6. KnownToEmitter'
      BY <2>1, <2>2, <2>3 DEF DeliveryInv, KnownToEmitter, Emitting!Tracked, Emitting!Deliveries
    <2>7. OwedIsHeld'
      BY <2>1, <2>2, <2>3 DEF DeliveryInv, OwedIsHeld, Emitting!Deliveries
    <2>8. QED
      BY <2>4, <2>5, <2>6, <2>7 DEF DeliveryInv
  <1>3. ASSUME NEW d \in Emitting!Deliveries, Emitting!FlushTimesOut(f, d) PROVE DeliveryInv'
    <2>1. /\ flusher[f] = "awaiting" /\ f \notin Patient /\ d \in held[f]
          /\ detached' = detached \cup {d} /\ held' = [held EXCEPT ![f] = {}]
          /\ unfinished' = [unfinished EXCEPT ![f] = held[f] \ {d}]
          /\ UNCHANGED <<emitter, mode, stage, flusher, owed, pending>>
      BY <1>3 DEF Emitting!FlushTimesOut, Emitting!emits, Emitting!deliveries
    <2>2. /\ held'[f] = {} /\ unfinished'[f] = held[f] \ {d} /\ unfinished[f] = {}
          /\ \A g \in Flushers : g # f => held'[g] = held[g] /\ unfinished'[g] = unfinished[g]
      BY <2>1 DEF DeliveryInv, DeliveryTypes, FlushesFollow
    <2>3. \A c \in Emitting!Deliveries : Emitting!Running(c)' <=> Emitting!Running(c)
      BY <2>1 DEF Emitting!Running
    <2>4. DeliveryTypes'
      BY <2>1 DEF DeliveryInv, DeliveryTypes, Emitting!Deliveries
    <2>5. EmitsFollow' /\ FlushesFollow'
      BY <2>1, <2>2 DEF DeliveryInv, EmitsFollow, FlushesFollow
    <2>6. KnownToEmitter'
      BY <2>1, <2>2, <2>3 DEF DeliveryInv, KnownToEmitter, Emitting!Tracked, Emitting!Deliveries
    <2>7. OwedIsHeld'
      BY <2>1, <2>2, <2>3 DEF DeliveryInv, OwedIsHeld, Emitting!Deliveries
    <2>8. QED
      BY <2>4, <2>5, <2>6, <2>7 DEF DeliveryInv
  <1>4. QED
    BY <1>1, <1>2, <1>3

LEMMA DeliveriesUnchanged ==
  ASSUME DeliveryInv,
         UNCHANGED <<emitter, mode, stage, flusher, held, unfinished, owed, pending, detached>>
  PROVE  DeliveryInv'
  BY DEF DeliveryInv, DeliveryTypes, EmitsFollow, FlushesFollow, KnownToEmitter, OwedIsHeld,
         Emitting!Deliveries, Emitting!Running, Emitting!Tracked

(* One attempt, the dead letters and the failure callback of a delivery.   *)
LEMMA OneDeliveryKeeps ==
  ASSUME DeliveryInv, NEW d \in Emitting!Deliveries,
         \/ Emitting!Deliver(d) \/ Emitting!AttemptFails(d) \/ Emitting!Exhausted(d)
         \/ Emitting!LettersSent(d) \/ Emitting!OnFailure(d)
         \/ \E s \in Subscribers : Emitting!SendLetter(d, s)
  PROVE  DeliveryInv'
  <1>1. /\ Emitting!Running(d)
        /\ stage' = stage \/ \E t \in {"delivered", "dlq", "failure", "failed"} : stage' = [stage EXCEPT ![d] = t]
        /\ UNCHANGED <<emitter, mode, flusher, held, unfinished, owed, pending, detached>>
    BY DEF Emitting!Deliver, Emitting!AttemptFails, Emitting!Exhausted, Emitting!LettersSent,
           Emitting!OnFailure, Emitting!SendLetter, Emitting!Running, Emitting!emits, Emitting!flushes
  <1>2. CASE stage' = stage
    BY <1>1, <1>2, DeliveriesUnchanged
  <1>3. ASSUME NEW t \in {"delivered", "dlq", "failure", "failed"}, stage' = [stage EXCEPT ![d] = t]
        PROVE  DeliveryInv'
    BY <1>1, <1>3, DeliveringKeeps DEF Emitting!Running
  <1>4. QED
    BY <1>1, <1>2, <1>3

LEMMA DeliveryStep ==
  ASSUME DeliveryInv, [Emitting!Next]_eventVars
  PROVE  DeliveryInv'
  <1>1. ASSUME NEW m \in Messages,
               \/ Emitting!Emit(m) \/ Emitting!Dispatch(m) \/ Emitting!Track(m) \/ Emitting!AwaitNext(m)
        PROVE  DeliveryInv'
    BY <1>1, EmitKeeps, StartingDeliveriesKeeps, TrackKeeps
  <1>2. ASSUME NEW s \in Subscribers,
               \/ Emitting!Subscribe(s) \/ Emitting!IssueHandle(s) \/ Emitting!UnsubscribeHandle(s)
               \/ Emitting!DropSubscriber(s) \/ Emitting!UnsubscribeById(s)
        PROVE  DeliveryInv'
    <2>1. UNCHANGED <<emitter, mode, stage, flusher, held, unfinished, owed, pending, detached>>
      BY <1>2 DEF Emitting!Subscribe, Emitting!IssueHandle, Emitting!UnsubscribeHandle,
           Emitting!DropSubscriber, Emitting!UnsubscribeById, Emitting!emits, Emitting!deliveries, Emitting!flushes
    <2>2. QED
      BY <2>1, DeliveriesUnchanged
  <1>3. CASE UNCHANGED eventVars
    BY <1>3, DeliveriesUnchanged DEF eventVars
  <1>4. QED
    BY <1>1, <1>2, <1>3, OneDeliveryKeeps, FlushStartKeeps, FlushEndKeeps DEF Emitting!Next

(* A delivery that emit started stays known to the emitter until it is     *)
(* over, and a flush without a deadline returns with none of its own.      *)
THEOREM DeliveriesStayTracked == Spec => []DeliveriesTracked
  <1> DEFINE Kept == focus = "events" => DeliveryInv
  <1>1. Init => Kept
    <2>1. Emitting!Init => DeliveryInv
      BY DEF Emitting!Init, DeliveryInv, DeliveryTypes, EmitsFollow, FlushesFollow, KnownToEmitter,
             OwedIsHeld, Emitting!Deliveries, Emitting!Running
    <2>2. QED
      BY <2>1 DEF Init
  <1>2. Kept /\ [Next]_vars => Kept'
    BY OneMoves, DeliveryStep
  <1>3. Kept => DeliveriesTracked
    <2>1. DeliveryInv => Emitting!DeliveriesTracked
      BY DEF DeliveryInv, DeliveryTypes, KnownToEmitter, OwedIsHeld, Emitting!DeliveriesTracked
    <2>2. QED
      BY <2>1 DEF DeliveriesTracked
  <1>4. QED
    <2> HIDE DEF Kept
    <2>1. QED
      BY <1>1, <1>2, <1>3, PTL DEF Spec
=============================================================================
