--------------------- MODULE SubscriptionsManager_proofs ---------------------
(***************************************************************************)
(* The subscription table is consistent for every set of event types,      *)
(* names (namesakes included) and handlers.                                *)
(***************************************************************************)
EXTENDS SubscriptionsManager, SequenceTheorems, TLAPS

\* List.Remove at one position: what is left, element by element.
LEMMA RemoveAtFacts ==
  ASSUME NEW S, NEW s \in Seq(S), NEW i \in 1..Len(s)
  PROVE  /\ RemoveAt(s, i) \in Seq(S)
         /\ Len(RemoveAt(s, i)) = Len(s) - 1
         /\ \A j \in 1..(Len(s) - 1) :
              RemoveAt(s, i)[j] = IF j < i THEN s[j] ELSE s[j + 1]
<1> DEFINE l == SubSeq(s, 1, i - 1)
           r == SubSeq(s, i + 1, Len(s))
<1>1. /\ l \in Seq(S) /\ Len(l) = i - 1
      /\ \A j \in 1..(i - 1) : l[j] = s[j]
  OBVIOUS
<1>2. /\ r \in Seq(S) /\ Len(r) = Len(s) - i
      /\ \A j \in 1..(Len(s) - i) : r[j] = s[i + j]
  OBVIOUS
<1>3. RemoveAt(s, i) = l \o r
  BY DEF RemoveAt
<1>4. Len(s) \in Nat /\ i \in Nat
  OBVIOUS
<1> HIDE DEF l, r
<1>5. l \o r \in Seq(S) /\ Len(l \o r) = Len(l) + Len(r)
  <2>1. l \in Seq(S) /\ r \in Seq(S)
    BY <1>1, <1>2
  <2>2. l \o r \in Seq(S)
    BY <2>1
  <2>3. Len(l \o r) = Len(l) + Len(r)
    BY <2>1
  <2> QED BY <2>2, <2>3
<1>6. Len(l) + Len(r) = Len(s) - 1
  BY <1>1, <1>2, <1>4
<1>7. \A j \in 1..(Len(s) - 1) : (l \o r)[j] = IF j < i THEN s[j] ELSE s[j + 1]
  <2> TAKE j \in 1..(Len(s) - 1)
  <2>1. CASE j < i
    BY <1>1, <1>2, <2>1
  <2>2. CASE ~(j < i)
    <3>1. (l \o r)[j] = r[j - Len(l)]
      BY <1>1, <1>2, <2>2
    <3>2. j - Len(l) \in 1..(Len(s) - i) /\ i + (j - Len(l)) = j + 1
      BY <1>1, <2>2
    <3> QED BY <3>1, <3>2, <1>2, <2>2
  <2> QED BY <2>1, <2>2
<1> QED BY <1>3, <1>5, <1>6, <1>7

(***************************************************************************)
(* The table as one inductive formula.  A list is good when it is what a   *)
(* foreach and a SingleOrDefault can work with: not empty, one entry per   *)
(* handler type.                                                           *)
(***************************************************************************)
GoodList(list) ==
  /\ list \in Seq(SubscriptionInfo)
  /\ list # <<>>
  /\ \A i, j \in 1..Len(list) : list[i].handlerType = list[j].handlerType => i = j

GoodTable ==
  /\ DOMAIN handlers \subseteq Names
  /\ handlers \in [DOMAIN handlers -> Seq(SubscriptionInfo)]
  /\ \A e \in DOMAIN handlers : GoodList(handlers[e])

GoodTypes ==
  /\ eventTypes \subseteq EventTypes
  /\ TypedHandlersDispatchable

ResultOK ==
  result \in [op : {"new", "Add", "Remove", "Clear"},
              outcome : {"ok", "ArgumentException", "InvalidOperationException"},
              raised : SUBSET Names]

IInv == GoodTable /\ GoodTypes /\ ResultOK

\* List.Remove leaves a good list when something is left.
LEMMA RemoveAtKeepsGood ==
  ASSUME NEW list, GoodList(list), Len(list) > 1, NEW i \in 1..Len(list)
  PROVE  GoodList(RemoveAt(list, i))
<1> DEFINE rest == RemoveAt(list, i)
<1>1. list \in Seq(SubscriptionInfo) /\ Len(list) \in Nat
  BY LenProperties DEF GoodList
<1>2. /\ rest \in Seq(SubscriptionInfo) /\ Len(rest) = Len(list) - 1
      /\ \A j \in 1..(Len(list) - 1) : rest[j] = IF j < i THEN list[j] ELSE list[j + 1]
  BY <1>1, RemoveAtFacts
<1> HIDE DEF rest
<1>3. rest # <<>>
  BY <1>1, <1>2
<1>4. ASSUME NEW j \in 1..Len(rest), NEW k \in 1..Len(rest),
             rest[j].handlerType = rest[k].handlerType
      PROVE  j = k
  <2> DEFINE at(n) == IF n < i THEN n ELSE n + 1
  <2>1. at(j) \in 1..Len(list) /\ at(k) \in 1..Len(list)
    BY <1>1, <1>2
  <2>2. rest[j] = list[at(j)] /\ rest[k] = list[at(k)]
    BY <1>1, <1>2
  <2>3. at(j) = at(k)
    BY <1>4, <2>1, <2>2 DEF GoodList
  <2> QED BY <1>1, <1>2, <2>3
<1> QED BY <1>2, <1>3, <1>4 DEF GoodList, rest

\* Add keeps a good list, and starts one for a new event.
LEMMA AppendKeepsGood ==
  ASSUME NEW list, GoodList(list) \/ list = <<>>,
         NEW h \in Handlers, NEW dynamic \in BOOLEAN,
         \A i \in DOMAIN list : list[i].handlerType # h
  PROVE  GoodList(Append(list, [isDynamic |-> dynamic, handlerType |-> h]))
<1> DEFINE info == [isDynamic |-> dynamic, handlerType |-> h]
           longer == Append(list, info)
<1>1. info \in SubscriptionInfo
  BY DEF SubscriptionInfo
<1>2. list \in Seq(SubscriptionInfo)
  <2>1. <<>> \in Seq(SubscriptionInfo)
    BY EmptySeq
  <2> QED BY <2>1 DEF GoodList
<1>3. /\ longer \in Seq(SubscriptionInfo) /\ Len(longer) = Len(list) + 1
      /\ \A i \in 1..Len(list) : longer[i] = list[i]
      /\ longer[Len(list) + 1] = info
  BY <1>1, <1>2
<1>4. Len(list) \in Nat /\ DOMAIN list = 1..Len(list)
  BY <1>2, LenProperties
<1>5. info.handlerType = h
  OBVIOUS
<1>6. \A i, j \in 1..Len(list) : list[i].handlerType = list[j].handlerType => i = j
  BY DEF GoodList
<1> HIDE DEF longer, info
<1>7. ASSUME NEW i \in 1..Len(longer), NEW j \in 1..Len(longer),
             longer[i].handlerType = longer[j].handlerType
      PROVE  i = j
  BY <1>3, <1>4, <1>5, <1>6, <1>7
<1>8. longer # <<>>
  BY <1>3, <1>4
<1> QED BY <1>3, <1>7, <1>8 DEF GoodList, longer, info

(***************************************************************************)
(* The table's two kinds of change: one list is stored, or a key dropped.  *)
(***************************************************************************)
LEMMA StoringAGoodList ==
  ASSUME GoodTable, NEW e \in Names, NEW list, GoodList(list),
         handlers' = WithList(e, list)
  PROVE  /\ GoodTable'
         /\ DOMAIN handlers' = DOMAIN handlers \union {e}
         /\ handlers'[e] = list
         /\ \A n \in DOMAIN handlers : n # e => handlers'[n] = handlers[n]
<1>1. /\ DOMAIN handlers' = DOMAIN handlers \union {e}
      /\ \A n \in DOMAIN handlers' :
           handlers'[n] = IF n = e THEN list ELSE handlers[n]
      /\ handlers' = [n \in DOMAIN handlers' |-> handlers'[n]]
  BY DEF WithList
<1>2. \A n \in DOMAIN handlers' : GoodList(handlers'[n])
  BY <1>1 DEF GoodTable
<1>3. \A n \in DOMAIN handlers' : handlers'[n] \in Seq(SubscriptionInfo)
  BY <1>2 DEF GoodList
<1>4. handlers' \in [DOMAIN handlers' -> Seq(SubscriptionInfo)]
  BY <1>1, <1>3
<1> QED BY <1>1, <1>2, <1>4 DEF GoodTable

LEMMA DroppingKeys ==
  ASSUME GoodTable, NEW S, S \subseteq DOMAIN handlers,
         handlers' = Restrict(handlers, S)
  PROVE  /\ GoodTable'
         /\ DOMAIN handlers' = S
         /\ \A n \in S : handlers'[n] = handlers[n]
<1>1. /\ DOMAIN handlers' = S
      /\ \A n \in S : handlers'[n] = handlers[n]
      /\ handlers' = [n \in DOMAIN handlers' |-> handlers'[n]]
  BY DEF Restrict
<1>2. \A n \in DOMAIN handlers' : GoodList(handlers'[n])
  BY <1>1 DEF GoodTable
<1>3. \A n \in DOMAIN handlers' : handlers'[n] \in Seq(SubscriptionInfo)
  BY <1>2 DEF GoodList
<1>4. handlers' \in [DOMAIN handlers' -> Seq(SubscriptionInfo)]
  BY <1>1, <1>3
<1> QED BY <1>1, <1>2, <1>4 DEF GoodTable

\* In a good table the handler type decides the position.
LEMMA GoodListsAreUnambiguous ==
  ASSUME GoodTable, NEW e, NEW h
  PROVE  ~Ambiguous(Matches(e, h))
<1>1. CASE e \in DOMAIN handlers
  <2>1. GoodList(handlers[e]) /\ ListOf(e) = handlers[e]
    BY <1>1 DEF GoodTable, ListOf, HasSubscriptionsForEvent
  <2>2. DOMAIN handlers[e] = 1..Len(handlers[e])
    BY <2>1 DEF GoodList
  <2> QED BY <2>1, <2>2 DEF GoodList, Ambiguous, Matches
<1>2. CASE e \notin DOMAIN handlers
  <2>1. ListOf(e) = <<>>
    BY <1>2 DEF ListOf, HasSubscriptionsForEvent
  <2>2. DOMAIN ListOf(e) = {}
    BY <2>1
  <2> QED BY <2>2 DEF Ambiguous, Matches
<1> QED BY <1>1, <1>2

(***************************************************************************)
(* The steps                                                               *)
(***************************************************************************)
\* What a successful add does to the table.
LEMMA AddStep ==
  ASSUME IInv, NEW e \in Names, NEW h \in Handlers, NEW dynamic \in BOOLEAN,
         DoAddSubscription(e, h, dynamic)
  PROVE  /\ GoodTable' /\ ResultOK'
         /\ DOMAIN handlers' = DOMAIN handlers \union {e}
         /\ handlers'[e] = Appended(e, h, dynamic)
         /\ \A n \in DOMAIN handlers : n # e => handlers'[n] = handlers[n]
<1>1. GoodList(ListOf(e)) \/ ListOf(e) = <<>>
  BY DEF IInv, GoodTable, ListOf, HasSubscriptionsForEvent
<1>2. \A i \in DOMAIN ListOf(e) : ListOf(e)[i].handlerType # h
  BY DEF DoAddSubscription, AlreadyRegistered, Matches
<1>3. GoodList(Appended(e, h, dynamic))
  BY <1>1, <1>2, AppendKeepsGood DEF Appended
<1>4. handlers' = WithList(e, Appended(e, h, dynamic))
  BY DEF DoAddSubscription
<1>5. ResultOK'
  BY DEF DoAddSubscription, Returned, ResultOK
<1> QED BY <1>3, <1>4, <1>5, StoringAGoodList DEF IInv

\* A typed entry of the table before Append is one of the list's entries; the
\* added one is typed exactly when it is not dynamic.
LEMMA TypedAfterAppend ==
  ASSUME NEW list \in Seq(SubscriptionInfo), NEW info \in SubscriptionInfo,
         NEW i \in DOMAIN Append(list, info), ~Append(list, info)[i].isDynamic
  PROVE  ~info.isDynamic \/ \E j \in DOMAIN list : ~list[j].isDynamic
<1> DEFINE longer == Append(list, info)
<1>1. /\ DOMAIN longer = 1..(Len(list) + 1) /\ Len(list) \in Nat
      /\ DOMAIN list = 1..Len(list)
      /\ \A j \in 1..Len(list) : longer[j] = list[j]
      /\ longer[Len(list) + 1] = info
  OBVIOUS
<1> HIDE DEF longer
<1>2. i \in DOMAIN longer /\ ~longer[i].isDynamic
  BY DEF longer
<1>3. CASE i = Len(list) + 1
  BY <1>1, <1>2, <1>3
<1>4. CASE i # Len(list) + 1
  <2>1. i \in 1..Len(list)
    BY <1>1, <1>2, <1>4
  <2> QED BY <1>1, <1>2, <2>1
<1> QED BY <1>3, <1>4

LEMMA AddDynamicKeepsIInv ==
  ASSUME IInv, NEW e \in Names, NEW h \in Handlers, AddDynamicSubscription(e, h)
  PROVE  IInv'
<1>1. CASE RefuseDuplicate(e, h)
  BY <1>1 DEF RefuseDuplicate, Returned, IInv, GoodTable, GoodList, GoodTypes,
    ResultOK, TypedHandlersDispatchable, TypesNamed
<1>2. CASE DoAddSubscription(e, h, TRUE) /\ UNCHANGED eventTypes
  <2>1. /\ GoodTable' /\ ResultOK'
        /\ DOMAIN handlers' = DOMAIN handlers \union {e}
        /\ handlers'[e] = Appended(e, h, TRUE)
        /\ \A n \in DOMAIN handlers : n # e => handlers'[n] = handlers[n]
    BY <1>2, AddStep
  <2>2. \A n : TypesNamed(n)' = TypesNamed(n)
    BY <1>2 DEF TypesNamed
  <2>3. ASSUME NEW n \in DOMAIN handlers', NEW i \in DOMAIN handlers'[n],
               ~handlers'[n][i].isDynamic
        PROVE  TypesNamed(n)' # {}
    <3>1. CASE n = e
      <4> DEFINE info == [isDynamic |-> TRUE, handlerType |-> h]
      <4>1. ListOf(e) \in Seq(SubscriptionInfo)
        BY EmptySeq DEF IInv, GoodTable, ListOf, HasSubscriptionsForEvent
      <4>2. info \in SubscriptionInfo /\ info.isDynamic
        BY DEF SubscriptionInfo
      <4>3. handlers'[n] = Append(ListOf(e), info)
        BY <2>1, <3>1 DEF Appended
      <4> HIDE DEF info
      <4>4. \E j \in DOMAIN ListOf(e) : ~ListOf(e)[j].isDynamic
        BY <2>3, <4>1, <4>2, <4>3, TypedAfterAppend
      <4>5. DOMAIN <<>> = {}
        OBVIOUS
      <4>6. e \in DOMAIN handlers /\ ListOf(e) = handlers[e]
        BY <4>4, <4>5 DEF ListOf, HasSubscriptionsForEvent
      <4>7. TypesNamed(e) # {}
        BY <4>4, <4>6 DEF IInv, GoodTypes, TypedHandlersDispatchable
      <4> QED BY <4>7, <3>1, <2>2
    <3>2. CASE n # e
      BY <2>1, <2>2, <2>3, <3>2 DEF IInv, GoodTypes, TypedHandlersDispatchable
    <3> QED BY <3>1, <3>2
  <2>4. TypedHandlersDispatchable'
    BY <2>3 DEF TypedHandlersDispatchable
  <2>5. (eventTypes \subseteq EventTypes)'
    BY <1>2 DEF IInv, GoodTypes
  <2> QED BY <2>1, <2>4, <2>5 DEF IInv, GoodTypes
<1> QED BY <1>1, <1>2 DEF AddDynamicSubscription

LEMMA AddKeepsIInv ==
  ASSUME IInv, NEW t \in EventTypes, NEW h \in Handlers, AddSubscription(t, h)
  PROVE  IInv'
<1> DEFINE e == NameOf[t]
<1>0. e \in Names
  BY NameOfAssumption
<1> HIDE DEF e
<1>1. CASE RefuseDuplicate(e, h)
  BY <1>1 DEF RefuseDuplicate, Returned, IInv, GoodTable, GoodList, GoodTypes,
    ResultOK, TypedHandlersDispatchable, TypesNamed
<1>2. CASE DoAddSubscription(e, h, FALSE) /\ eventTypes' = eventTypes \union {t}
  <2>1. /\ GoodTable' /\ ResultOK'
        /\ DOMAIN handlers' = DOMAIN handlers \union {e}
        /\ \A n \in DOMAIN handlers : n # e => handlers'[n] = handlers[n]
    BY <1>0, <1>2, AddStep
  <2>2. \A n : TypesNamed(n) \subseteq TypesNamed(n)'
    BY <1>2 DEF TypesNamed
  <2>3. t \in TypesNamed(e)'
    BY <1>2 DEF TypesNamed, e
  <2>4. TypedHandlersDispatchable'
    BY <2>1, <2>2, <2>3 DEF IInv, GoodTypes, TypedHandlersDispatchable
  <2>5. (eventTypes \subseteq EventTypes)'
    BY <1>2 DEF IInv, GoodTypes
  <2> QED BY <2>1, <2>4, <2>5 DEF IInv, GoodTypes
<1> QED BY <1>1, <1>2 DEF AddSubscription, e

\* Removing one of several handlers.
LEMMA RemoveInnerKeepsIInv ==
  ASSUME IInv, NEW e \in Names, NEW h \in Handlers, RemoveInner(e, h)
  PROVE  IInv'
<1>1. CASE UNCHANGED <<handlers, eventTypes>>
  <2>1. ResultOK'
    BY DEF RemoveInner, Returned, ResultOK
  <2> QED BY <1>1, <2>1 DEF IInv, GoodTable, GoodList, GoodTypes,
    TypedHandlersDispatchable, TypesNamed
<1>2. CASE /\ \E i \in Matches(e, h) :
                OthersRemain(e) /\ handlers' = WithList(e, RemoveAt(handlers[e], i))
           /\ Returned("Remove", "ok", {})
           /\ UNCHANGED eventTypes
  <2>1. PICK i \in Matches(e, h) :
               OthersRemain(e) /\ handlers' = WithList(e, RemoveAt(handlers[e], i))
    BY <1>2
  <2>2. DOMAIN <<>> = {}
    OBVIOUS
  <2>3. e \in DOMAIN handlers /\ i \in DOMAIN handlers[e]
    BY <2>1, <2>2 DEF Matches, ListOf, HasSubscriptionsForEvent
  <2>4. GoodList(handlers[e]) /\ Len(handlers[e]) > 1
    BY <2>1, <2>3 DEF IInv, GoodTable, OthersRemain
  <2>5. handlers[e] \in Seq(SubscriptionInfo)
    BY <2>4 DEF GoodList
  <2>6. i \in 1..Len(handlers[e]) /\ Len(handlers[e]) \in Nat
    BY <2>3, <2>5, LenProperties
  <2>7. GoodList(RemoveAt(handlers[e], i))
    BY <2>4, <2>6, RemoveAtKeepsGood
  <2>8. /\ GoodTable'
        /\ DOMAIN handlers' = DOMAIN handlers \union {e}
        /\ handlers'[e] = RemoveAt(handlers[e], i)
        /\ \A n \in DOMAIN handlers : n # e => handlers'[n] = handlers[n]
    BY <2>1, <2>7, StoringAGoodList DEF IInv
  <2>9. \A j \in DOMAIN RemoveAt(handlers[e], i) :
          \E k \in DOMAIN handlers[e] : RemoveAt(handlers[e], i)[j] = handlers[e][k]
    <3> DEFINE rest == RemoveAt(handlers[e], i)
    <3>1. /\ rest \in Seq(SubscriptionInfo) /\ Len(rest) = Len(handlers[e]) - 1
          /\ \A j \in 1..(Len(handlers[e]) - 1) :
               rest[j] = IF j < i THEN handlers[e][j] ELSE handlers[e][j + 1]
      BY <2>5, <2>6, RemoveAtFacts
    <3> HIDE DEF rest
    <3>2. /\ DOMAIN rest = 1..(Len(handlers[e]) - 1)
          /\ DOMAIN handlers[e] = 1..Len(handlers[e])
      BY <3>1, <2>5, LenProperties
    <3>3. \A j \in DOMAIN rest : \E k \in DOMAIN handlers[e] : rest[j] = handlers[e][k]
      <4> TAKE j \in DOMAIN rest
      <4>1. j \in DOMAIN handlers[e] /\ j + 1 \in DOMAIN handlers[e]
        BY <2>6, <3>2
      <4> QED BY <3>1, <3>2, <4>1
    <3> QED BY <3>3 DEF rest
  <2>10. \A n : TypesNamed(n)' = TypesNamed(n)
    BY <1>2 DEF TypesNamed
  <2>11. TypedHandlersDispatchable'
    BY <2>3, <2>8, <2>9, <2>10 DEF IInv, GoodTypes, TypedHandlersDispatchable
  <2>12. ResultOK' /\ (eventTypes \subseteq EventTypes)'
    BY <1>2 DEF Returned, ResultOK, IInv, GoodTypes
  <2> QED BY <2>8, <2>11, <2>12 DEF IInv, GoodTypes
<1> QED BY <1>1, <1>2 DEF RemoveInner

\* Removing the last handler: the event's types may go, no other event's do.
LEMMA RemoveLastKeepsIInv ==
  ASSUME IInv, NEW e \in Names, NEW h \in Handlers, RemoveLast(e, h)
  PROVE  IInv'
<1>1. handlers' = Restrict(handlers, DOMAIN handlers \ {e})
  BY DEF RemoveLast
<1>2. /\ GoodTable'
      /\ DOMAIN handlers' = DOMAIN handlers \ {e}
      /\ \A n \in DOMAIN handlers \ {e} : handlers'[n] = handlers[n]
  BY <1>1, DroppingKeys DEF IInv
<1>3. eventTypes' = eventTypes \/ eventTypes' = eventTypes \ TypesNamed(e)
  BY DEF RemoveLast
<1>4. \A n : n # e => TypesNamed(n)' = TypesNamed(n)
  BY <1>3 DEF TypesNamed
<1>5. TypedHandlersDispatchable'
  BY <1>2, <1>4 DEF IInv, GoodTypes, TypedHandlersDispatchable
<1>6. (eventTypes \subseteq EventTypes)'
  BY <1>3 DEF IInv, GoodTypes
<1>7. ResultOK'
  BY DEF RemoveLast, Returned, Announced, ResultOK
<1> QED BY <1>2, <1>5, <1>6, <1>7 DEF IInv, GoodTypes

LEMMA RemoveKeepsIInv ==
  ASSUME IInv, NEW e \in Names, NEW h \in Handlers, DoRemoveHandler(e, h)
  PROVE  IInv'
BY RemoveInnerKeepsIInv, RemoveLastKeepsIInv DEF DoRemoveHandler

LEMMA InitEstablishesIInv == Init => IInv
<1> SUFFICES ASSUME Init PROVE IInv
  OBVIOUS
<1>1. DOMAIN handlers = {} /\ handlers \in [{} -> Seq(SubscriptionInfo)]
  BY DEF Init
<1> QED BY <1>1 DEF Init, IInv, GoodTable, GoodTypes, ResultOK,
  TypedHandlersDispatchable

LEMMA NextKeepsIInv == IInv /\ [Next]_vars => IInv'
<1> SUFFICES ASSUME IInv, [Next]_vars PROVE IInv'
  OBVIOUS
<1>1. CASE \E e \in Names, h \in Handlers : AddDynamicSubscription(e, h)
  BY <1>1, AddDynamicKeepsIInv
<1>2. CASE \E e \in Names, h \in Handlers : RemoveDynamicSubscription(e, h)
  BY <1>2, RemoveKeepsIInv DEF RemoveDynamicSubscription
<1>3. CASE \E t \in EventTypes, h \in Handlers : AddSubscription(t, h)
  BY <1>3, AddKeepsIInv
<1>4. CASE \E t \in EventTypes, h \in Handlers : RemoveSubscription(t, h)
  <2>1. \A t \in EventTypes : NameOf[t] \in Names
    BY NameOfAssumption
  <2> QED BY <1>4, <2>1, RemoveKeepsIInv DEF RemoveSubscription
<1>5. CASE Clear
  <2>1. DOMAIN handlers' = {} /\ handlers' \in [{} -> Seq(SubscriptionInfo)]
    BY <1>5 DEF Clear
  <2> QED BY <1>5, <2>1 DEF Clear, Returned, IInv, GoodTable, GoodTypes, ResultOK,
    TypedHandlersDispatchable
<1>6. CASE UNCHANGED vars
  BY <1>6 DEF vars, IInv, GoodTable, GoodList, GoodTypes, ResultOK,
    TypedHandlersDispatchable, TypesNamed
<1> QED BY <1>1, <1>2, <1>3, <1>4, <1>5, <1>6 DEF Next

\* After any sequence of calls every key has a list without duplicates, and a
\* typed handler has a type of the name.
THEOREM TableInvariant == Spec => []IInv
<1> QED BY InitEstablishesIInv, NextKeepsIInv, PTL DEF Spec

(***************************************************************************)
(* The results                                                             *)
(***************************************************************************)
\* The table, the type list and the results keep their shapes.
THEOREM TypeCorrect == Spec => []TypeOK
<1>1. IInv => TypeOK
  BY DEF IInv, GoodTable, GoodTypes, ResultOK, TypeOK
<1> QED BY <1>1, TableInvariant, PTL

\* DoRemoveHandler never leaves a key with an empty list, so IsEmpty, on which
\* the bus closes its consumer channel, is true only of an empty table.
THEOREM NoEmptyEntries == Spec => []NoEmptyEntry
<1>1. IInv => NoEmptyEntry
  BY DEF IInv, GoodTable, GoodList, NoEmptyEntry
<1> QED BY <1>1, TableInvariant, PTL

\* SingleOrDefault on a handler type never throws.
THEOREM RemovalUnambiguous == Spec => []RemovalIsUnambiguous
<1>1. IInv => RemovalIsUnambiguous
  BY GoodListsAreUnambiguous DEF IInv, RemovalIsUnambiguous
<1> QED BY <1>1, TableInvariant, PTL

\* GetEventTypeByName finds a type for every event with a typed handler.
THEOREM TypedDispatch == Spec => []TypedHandlersDispatchable
<1>1. IInv => TypedHandlersDispatchable
  BY DEF IInv, GoodTypes
<1> QED BY <1>1, TableInvariant, PTL

\* The table and the list of types agree after every call, for all names, types
\* and handlers.
THEOREM TableAlwaysAgrees == Spec => []TableAgrees
<1>1. TypeOK /\ NoEmptyEntry /\ RemovalIsUnambiguous /\ TypedHandlersDispatchable => TableAgrees
  BY DEF TableAgrees
<1> QED BY <1>1, TypeCorrect, NoEmptyEntries, RemovalUnambiguous, TypedDispatch, PTL

(***************************************************************************)
(* The table as a set of pairs.                                            *)
(***************************************************************************)
TypesOf(list) == {list[i].handlerType : i \in DOMAIN list}

\* Distinct handler types, as the duplicate check keeps them.
Distinct(list) ==
  \A i, j \in DOMAIN list : list[i].handlerType = list[j].handlerType => i = j

LEMMA RegisteredIsListed ==
  /\ \A e, h : AlreadyRegistered(e, h) <=> h \in TypesOf(ListOf(e))
  /\ Pairs = {p \in Names \X Handlers : p[2] \in TypesOf(ListOf(p[1]))}
  BY DEF AlreadyRegistered, Matches, TypesOf, Pairs

\* Add puts one handler type on the list, List.Remove takes one off.
LEMMA AppendAddsType ==
  ASSUME NEW list \in Seq(SubscriptionInfo), NEW info \in SubscriptionInfo
  PROVE  TypesOf(Append(list, info)) = TypesOf(list) \union {info.handlerType}
<1> DEFINE longer == Append(list, info)
<1>1. /\ DOMAIN longer = 1..(Len(list) + 1) /\ DOMAIN list = 1..Len(list)
      /\ Len(list) \in Nat
      /\ \A i \in 1..Len(list) : longer[i] = list[i]
      /\ longer[Len(list) + 1] = info
  OBVIOUS
<1> HIDE DEF longer
<1>2. \A i \in DOMAIN longer : longer[i].handlerType \in TypesOf(list) \union {info.handlerType}
  BY <1>1 DEF TypesOf
<1>3. \A i \in DOMAIN list : list[i].handlerType \in TypesOf(longer)
  <2> TAKE i \in DOMAIN list
  <2>1. i \in DOMAIN longer /\ longer[i] = list[i]
    BY <1>1
  <2> QED BY <2>1 DEF TypesOf
<1>4. info.handlerType \in TypesOf(longer)
  <2>1. Len(list) + 1 \in DOMAIN longer
    BY <1>1
  <2> QED BY <1>1, <2>1 DEF TypesOf
<1> QED BY <1>2, <1>3, <1>4 DEF TypesOf, longer

LEMMA RemoveAtDropsType ==
  ASSUME NEW list \in Seq(SubscriptionInfo), Distinct(list), NEW i \in 1..Len(list)
  PROVE  TypesOf(RemoveAt(list, i)) = TypesOf(list) \ {list[i].handlerType}
<1> DEFINE rest == RemoveAt(list, i)
<1>1. /\ rest \in Seq(SubscriptionInfo) /\ Len(rest) = Len(list) - 1
      /\ \A j \in 1..(Len(list) - 1) : rest[j] = IF j < i THEN list[j] ELSE list[j + 1]
  BY RemoveAtFacts
<1>2. DOMAIN list = 1..Len(list) /\ Len(list) \in Nat /\ i \in Nat /\ i <= Len(list)
  OBVIOUS
<1> HIDE DEF rest
<1>3. DOMAIN rest = 1..(Len(list) - 1)
  BY <1>1
<1>4. ASSUME NEW j \in DOMAIN rest
      PROVE  rest[j].handlerType \in TypesOf(list) \ {list[i].handlerType}
  <2> DEFINE at == IF j < i THEN j ELSE j + 1
  <2>1. at \in DOMAIN list /\ at # i
    BY <1>2, <1>3
  <2>2. rest[j] = list[at]
    BY <1>1, <1>3
  <2> HIDE DEF at
  <2>3. list[at].handlerType # list[i].handlerType
    BY <1>2, <2>1 DEF Distinct
  <2> QED BY <2>1, <2>2, <2>3 DEF TypesOf
<1>5. ASSUME NEW k \in DOMAIN list, list[k].handlerType # list[i].handlerType
      PROVE  list[k].handlerType \in TypesOf(rest)
  <2>1. k \in Nat /\ k # i /\ k >= 1 /\ k <= Len(list)
    BY <1>2, <1>5
  <2>2. CASE k < i
    <3>1. k \in DOMAIN rest /\ rest[k] = list[k]
      BY <1>1, <1>2, <1>3, <2>1, <2>2
    <3> QED BY <3>1 DEF TypesOf
  <2>3. CASE k > i
    <3>1. k - 1 \in DOMAIN rest /\ rest[k - 1] = list[k]
      BY <1>1, <1>2, <1>3, <2>1, <2>3
    <3> QED BY <3>1 DEF TypesOf
  <2> QED BY <1>2, <2>1, <2>2, <2>3
<1> QED BY <1>4, <1>5 DEF TypesOf, rest

\* One list changes: one pair comes, or one goes.
LEMMA PairsOfAdded ==
  ASSUME NEW e \in Names, NEW h \in Handlers,
         \A n \in Names : n # e => ListOf(n)' = ListOf(n),
         TypesOf(ListOf(e)') = TypesOf(ListOf(e)) \union {h}
  PROVE  Pairs' = Pairs \union {<<e, h>>}
<1>1. Pairs' = {p \in Names \X Handlers : p[2] \in TypesOf(ListOf(p[1])')}
  BY DEF AlreadyRegistered, Matches, TypesOf, Pairs
<1> QED BY <1>1, RegisteredIsListed

LEMMA PairsOfRemoved ==
  ASSUME NEW e \in Names, NEW h \in Handlers,
         \A n \in Names : n # e => ListOf(n)' = ListOf(n),
         TypesOf(ListOf(e)') = TypesOf(ListOf(e)) \ {h}
  PROVE  Pairs' = Pairs \ {<<e, h>>}
<1>1. Pairs' = {p \in Names \X Handlers : p[2] \in TypesOf(ListOf(p[1])')}
  BY DEF AlreadyRegistered, Matches, TypesOf, Pairs
<1> QED BY <1>1, RegisteredIsListed

LEMMA AddRegisters ==
  ASSUME IInv, NEW e \in Names, NEW h \in Handlers, NEW dynamic \in BOOLEAN,
         DoAddSubscription(e, h, dynamic)
  PROVE  Registry!Register(e, h)
<1> DEFINE info == [isDynamic |-> dynamic, handlerType |-> h]
<1>1. /\ DOMAIN handlers' = DOMAIN handlers \union {e}
      /\ handlers'[e] = Append(ListOf(e), info)
      /\ \A n \in DOMAIN handlers : n # e => handlers'[n] = handlers[n]
  BY AddStep DEF Appended
<1>2. \A n \in Names : n # e => ListOf(n)' = ListOf(n)
  BY <1>1 DEF ListOf, HasSubscriptionsForEvent
<1>3. ListOf(e)' = Append(ListOf(e), info)
  BY <1>1 DEF ListOf, HasSubscriptionsForEvent
<1>4. ListOf(e) \in Seq(SubscriptionInfo)
  <2>1. <<>> \in Seq(SubscriptionInfo)
    BY EmptySeq
  <2> QED BY <2>1 DEF IInv, GoodTable, ListOf, HasSubscriptionsForEvent
<1>5. info \in SubscriptionInfo /\ info.handlerType = h
  BY DEF SubscriptionInfo
<1>6. TypesOf(ListOf(e)') = TypesOf(ListOf(e)) \union {h}
  BY <1>3, <1>4, <1>5, AppendAddsType
<1>7. <<e, h>> \notin Pairs
  BY DEF DoAddSubscription, Pairs
<1> QED BY <1>2, <1>6, <1>7, PairsOfAdded DEF Registry!Register

\* The position of a handler that is removed, in a list of distinct handlers.
LEMMA MatchedIsListed ==
  ASSUME IInv, NEW e \in Names, NEW h \in Handlers, NEW i \in Matches(e, h)
  PROVE  /\ e \in DOMAIN handlers /\ ListOf(e) = handlers[e]
         /\ GoodList(handlers[e]) /\ Distinct(handlers[e])
         /\ i \in 1..Len(handlers[e]) /\ handlers[e][i].handlerType = h
         /\ <<e, h>> \in Pairs
<1>1. e \in DOMAIN handlers
  <2>1. i \in DOMAIN ListOf(e)
    BY DEF Matches
  <2>2. DOMAIN <<>> = {}
    OBVIOUS
  <2> QED BY <2>1, <2>2 DEF ListOf, HasSubscriptionsForEvent
<1>2. ListOf(e) = handlers[e] /\ GoodList(handlers[e])
  BY <1>1 DEF ListOf, HasSubscriptionsForEvent, IInv, GoodTable
<1>3. DOMAIN handlers[e] = 1..Len(handlers[e])
  BY <1>2 DEF GoodList
<1>4. Distinct(handlers[e])
  BY <1>2, <1>3 DEF GoodList, Distinct
<1>5. <<e, h>> \in Pairs
  BY DEF Pairs, AlreadyRegistered
<1> QED BY <1>1, <1>2, <1>3, <1>4, <1>5 DEF Matches

LEMMA RemoveWithdraws ==
  ASSUME IInv, NEW e \in Names, NEW h \in Handlers, DoRemoveHandler(e, h)
  PROVE  Registry!Withdraw(e, h) \/ UNCHANGED Pairs
<1>1. CASE UNCHANGED handlers
  BY <1>1 DEF Pairs, AlreadyRegistered, Matches, ListOf, HasSubscriptionsForEvent
<1>2. ASSUME NEW i \in Matches(e, h), OthersRemain(e),
             handlers' = WithList(e, RemoveAt(handlers[e], i))
      PROVE  Registry!Withdraw(e, h)
  <2>1. /\ e \in DOMAIN handlers /\ ListOf(e) = handlers[e]
        /\ handlers[e] \in Seq(SubscriptionInfo) /\ Distinct(handlers[e])
        /\ i \in 1..Len(handlers[e]) /\ handlers[e][i].handlerType = h
        /\ <<e, h>> \in Pairs
    BY MatchedIsListed DEF GoodList
  <2>2. /\ DOMAIN handlers' = DOMAIN handlers
        /\ handlers'[e] = RemoveAt(handlers[e], i)
        /\ \A n \in DOMAIN handlers : n # e => handlers'[n] = handlers[n]
    BY <1>2, <2>1 DEF WithList
  <2>3. /\ \A n \in Names : n # e => ListOf(n)' = ListOf(n)
        /\ ListOf(e)' = RemoveAt(handlers[e], i)
    BY <2>1, <2>2 DEF ListOf, HasSubscriptionsForEvent
  <2>4. TypesOf(ListOf(e)') = TypesOf(ListOf(e)) \ {h}
    BY <2>1, <2>3, RemoveAtDropsType
  <2> QED BY <2>1, <2>3, <2>4, PairsOfRemoved DEF Registry!Withdraw
<1>3. CASE RemoveLast(e, h)
  <2>1. PICK i \in Matches(e, h) : TRUE
    BY <1>3 DEF RemoveLast
  <2>2. /\ e \in DOMAIN handlers /\ ListOf(e) = handlers[e]
        /\ handlers[e] \in Seq(SubscriptionInfo)
        /\ i \in 1..Len(handlers[e]) /\ handlers[e][i].handlerType = h
        /\ <<e, h>> \in Pairs
    BY <2>1, MatchedIsListed DEF GoodList
  <2>3. ~(Len(handlers[e]) > 1)
    BY <1>3 DEF RemoveLast, OthersRemain
  <2>4. DOMAIN handlers[e] = {i}
    <3>1. DOMAIN handlers[e] = 1..Len(handlers[e]) /\ Len(handlers[e]) \in Nat
      BY <2>2
    <3> QED BY <2>2, <2>3, <3>1
  <2>5. TypesOf(ListOf(e)) = {h}
    BY <2>2, <2>4 DEF TypesOf
  <2>6. /\ DOMAIN handlers' = DOMAIN handlers \ {e}
        /\ \A n \in DOMAIN handlers \ {e} : handlers'[n] = handlers[n]
    <3>1. handlers' = Restrict(handlers, DOMAIN handlers \ {e})
      BY <1>3 DEF RemoveLast
    <3> QED BY <3>1, DroppingKeys DEF IInv
  <2>7. /\ \A n \in Names : n # e => ListOf(n)' = ListOf(n)
        /\ ListOf(e)' = <<>>
    BY <2>6 DEF ListOf, HasSubscriptionsForEvent
  <2>8. TypesOf(<<>>) = {}
    BY DEF TypesOf
  <2>9. TypesOf(ListOf(e)') = TypesOf(ListOf(e)) \ {h}
    BY <2>5, <2>7, <2>8
  <2> QED BY <2>2, <2>7, <2>9, PairsOfRemoved DEF Registry!Withdraw
<1> QED BY <1>1, <1>2, <1>3 DEF DoRemoveHandler, RemoveInner

\* The dictionary of lists implements the registry: every call adds one pair,
\* withdraws one, withdraws all, or changes nothing a caller can see.
THEOREM TableImplementsRegistry == Spec => ImplementsRegistry
<1>1. Init => Registry!RegistryInit
  BY DEF Init, Registry!RegistryInit, Pairs, AlreadyRegistered, Matches, ListOf,
    HasSubscriptionsForEvent
<1>2. IInv /\ [Next]_vars => [Registry!RegistryNext]_Pairs
  <2> SUFFICES ASSUME IInv, [Next]_vars
               PROVE  Registry!RegistryNext \/ UNCHANGED Pairs
    OBVIOUS
  <2>1. ASSUME NEW e \in Names, NEW h \in Handlers, AddDynamicSubscription(e, h)
        PROVE  Registry!RegistryNext \/ UNCHANGED Pairs
    <3>1. CASE RefuseDuplicate(e, h)
      BY <3>1 DEF RefuseDuplicate, Pairs, AlreadyRegistered, Matches, ListOf,
        HasSubscriptionsForEvent
    <3>2. CASE DoAddSubscription(e, h, TRUE)
      BY <3>2, AddRegisters DEF Registry!RegistryNext
    <3> QED BY <2>1, <3>1, <3>2 DEF AddDynamicSubscription
  <2>2. ASSUME NEW t \in EventTypes, NEW h \in Handlers, AddSubscription(t, h)
        PROVE  Registry!RegistryNext \/ UNCHANGED Pairs
    <3>0. NameOf[t] \in Names
      BY NameOfAssumption
    <3>1. CASE RefuseDuplicate(NameOf[t], h)
      BY <3>1 DEF RefuseDuplicate, Pairs, AlreadyRegistered, Matches, ListOf,
        HasSubscriptionsForEvent
    <3>2. CASE DoAddSubscription(NameOf[t], h, FALSE)
      BY <3>0, <3>2, AddRegisters DEF Registry!RegistryNext
    <3> QED BY <2>2, <3>1, <3>2 DEF AddSubscription
  <2>3. ASSUME NEW e \in Names, NEW h \in Handlers, DoRemoveHandler(e, h)
        PROVE  Registry!RegistryNext \/ UNCHANGED Pairs
    BY <2>3, RemoveWithdraws DEF Registry!RegistryNext
  <2>4. CASE Clear
    BY <2>4 DEF Clear, Registry!RegistryNext, Registry!WithdrawAll, Pairs,
      AlreadyRegistered, Matches, ListOf, HasSubscriptionsForEvent
  <2>5. CASE UNCHANGED vars
    BY <2>5 DEF vars, Pairs, AlreadyRegistered, Matches, ListOf, HasSubscriptionsForEvent
  <2> QED BY <2>1, <2>2, <2>3, <2>4, <2>5, NameOfAssumption
      DEF Next, RemoveDynamicSubscription, RemoveSubscription
<1> QED BY <1>1, <1>2, TableInvariant, PTL DEF Spec, ImplementsRegistry, Registry!RegistrySpec

\* OnEventRemoved is raised for an event exactly when a removal takes its last
\* handler, whatever typed and dynamic calls came before: the bus unbinds no
\* event that is still handled, and every one that is not.
THEOREM LastHandlersAreAnnounced == Spec => LastHandlerAnnounced
<1> DEFINE ToldRight ==
      \A e \in Names :
        e \in result'.raised <=>
          /\ e \in DOMAIN handlers /\ e \notin DOMAIN handlers'
          /\ result'.op # "Clear"
          /\ ~Ambiguous(TypesNamed(e))
<1>1. IInv /\ [Next]_vars => [ToldRight]_vars
  <2> SUFFICES ASSUME IInv, Next PROVE ToldRight
    OBVIOUS
  <2>1. ASSUME NEW e \in Names, NEW h \in Handlers,
               RefuseDuplicate(e, h) \/ (\E d \in BOOLEAN : DoAddSubscription(e, h, d))
        PROVE  ToldRight
    <3>1. DOMAIN handlers \subseteq DOMAIN handlers'
      BY <2>1 DEF RefuseDuplicate, DoAddSubscription, WithList
    <3>2. result'.raised = {}
      BY <2>1 DEF RefuseDuplicate, DoAddSubscription, Returned
    <3> QED BY <3>1, <3>2
  <2>2. ASSUME NEW e \in Names, NEW h \in Handlers, RemoveInner(e, h)
        PROVE  ToldRight
    <3>1. DOMAIN handlers \subseteq DOMAIN handlers'
      BY <2>2 DEF RemoveInner, WithList
    <3>2. result'.raised = {}
      BY <2>2 DEF RemoveInner, Returned
    <3> QED BY <3>1, <3>2
  <2>3. ASSUME NEW e \in Names, NEW h \in Handlers, RemoveLast(e, h)
        PROVE  ToldRight
    <3>1. DOMAIN handlers' = DOMAIN handlers \ {e}
      <4>1. handlers' = Restrict(handlers, DOMAIN handlers \ {e})
        BY <2>3 DEF RemoveLast
      <4> QED BY <4>1, DroppingKeys DEF IInv
    <3>2. e \in DOMAIN handlers
      BY <2>3, MatchedIsListed DEF RemoveLast
    <3>3. /\ result'.op = "Remove"
          /\ result'.raised = IF Ambiguous(TypesNamed(e)) THEN {} ELSE {e}
      BY <2>3 DEF RemoveLast, Returned, Announced
    <3> QED BY <3>1, <3>2, <3>3
  <2>4. CASE Clear
    BY <2>4 DEF Clear, Returned
  <2> QED BY <2>1, <2>2, <2>3, <2>4, NameOfAssumption
      DEF Next, RemoveDynamicSubscription, RemoveSubscription, DoRemoveHandler,
        AddDynamicSubscription, AddSubscription
<1>2. Spec => [][ToldRight]_vars
  BY <1>1, TableInvariant, PTL DEF Spec
<1> QED BY <1>2, PTL DEF LastHandlerAnnounced
=============================================================================
