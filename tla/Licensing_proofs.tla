-------------------------- MODULE Licensing_proofs --------------------------
(* Proofs about Licensing: what a machine was told is true, the excess over *)
(* the device limit is bounded, and the key a customer holds is stored.    *)
EXTENDS Licensing, FiniteSetTheorems, TLAPS

LEMMA NoRequestTyped == NoRequest \in Request
<1>1. AnyOrder \in Orders /\ AnyMachine \in Machines
  BY LicensingAssumption DEF AnyOrder, AnyMachine
<1>. QED BY <1>1 DEF NoRequest, Request, Phases

LEMMA LimitPositive ==
  ASSUME NEW o \in Orders
  PROVE  MaxDevices(o) \in Nat /\ MaxDevices(o) >= 1
BY DEF MaxDevices

LEMMA RequestsCounted == Cardinality(Requests) \in Nat
BY LicensingAssumption, FS_CardinalityType

LEMMA InsertingCounted ==
  ASSUME NEW o \in Orders
  PROVE  /\ IsFiniteSet(Inserting(o)) /\ Cardinality(Inserting(o)) \in Nat
         /\ Cardinality(Inserting(o)) <= Cardinality(Requests)
<1>1. Inserting(o) \subseteq Requests
  BY DEF Inserting
<1>. QED BY <1>1, LicensingAssumption, FS_Subset, FS_CardinalityType

(* The same, one step later.                                               *)
LEMMA InsertingCountedNext ==
  ASSUME NEW o \in Orders
  PROVE  /\ IsFiniteSet(Inserting(o)') /\ Cardinality(Inserting(o)') \in Nat
         /\ Cardinality(Inserting(o)') <= Cardinality(Requests)
<1>1. Inserting(o)' \subseteq Requests
  BY DEF Inserting
<1>. QED BY <1>1, LicensingAssumption, FS_Subset, FS_CardinalityType

LEMMA LicensingInit == Init => LicensingInductive
<1> SUFFICES ASSUME Init PROVE LicensingInductive
  OBVIOUS
<1>1. TypeOK
  <2>1. AnyOrder \in Orders
    BY LicensingAssumption DEF AnyOrder
  <2>2. faults \in 0 .. MaxFaults
    BY LicensingAssumption DEF Init
  <2>. QED BY <2>1, <2>2, NoRequestTyped DEF Init, TypeOK
<1>2. \A o \in Orders : Inserting(o) = {} /\ Busy(o) = {}
  BY DEF Init, Inserting, Busy, NoRequest
<1>3. \A o \in Orders : activations[o] = {}
  BY DEF Init
<1>4. IsFiniteSet({}) /\ Cardinality({}) = 0
  BY FS_EmptySet
<1>5. InsertsAllowed /\ OverdraftBounded /\ LimitWhenAlone
  <2>1. faults = 0
    BY DEF Init
  <2>2. \A o \in Orders : Allowance(o) \in Nat
    BY <2>1, LimitPositive, RequestsCounted DEF Allowance
  <2>3. \A o \in Orders : /\ IsFiniteSet(activations[o]) /\ Cardinality(activations[o]) = 0
                           /\ Cardinality(Inserting(o)) = 0
    BY <1>2, <1>3, <1>4
  <2>4. \A o \in Orders : MaxDevices(o) \in Nat
    BY LimitPositive
  <2>. QED
    BY <2>2, <2>3, <2>4 DEF InsertsAllowed, OverdraftBounded, LimitWhenAlone
<1>6. AloneBelow
  BY <1>2 DEF AloneBelow
<1>7. ToldValidIsActivated /\ EmailedKeyIsStored /\ RequestsRight /\ BoundIsActivated
      /\ DeliveriesRight
  BY DEF Init, ToldValidIsActivated, EmailedKeyIsStored, RequestsRight,
         BoundIsActivated, DeliveriesRight, NoRequest
<1>. QED BY <1>1, <1>5, <1>6, <1>7 DEF LicensingInductive
-----------------------------------------------------------------------------
(* A step that changes one request, in general.                            *)
LEMMA OneRequest ==
  ASSUME TypeOK, NEW r \in Requests, NEW q \in Request,
         request' = [request EXCEPT ![r] = q]
  PROVE  /\ request' \in [Requests -> Request] /\ request'[r] = q
         /\ \A p \in Requests \ {r} : request'[p] = request[p]
BY DEF TypeOK

(* Steps after which no request is at its insert that was not before, and  *)
(* which activate nothing.                                                 *)
LEMMA NoNewInsert ==
  ASSUME LicensingInductive, TypeOK', activations' = activations, tier' = tier,
         faults' >= faults,
         \A o \in Orders : Inserting(o)' \subseteq Inserting(o)
  PROVE  InsertsAllowed' /\ OverdraftBounded'
<1> SUFFICES ASSUME NEW o \in Orders
             PROVE  /\ IsFiniteSet(activations'[o])
                    /\ Cardinality(activations'[o]) + Cardinality(Inserting(o)') <= Allowance(o)'
                    /\ Cardinality(activations'[o]) <= Allowance(o)'
  BY DEF InsertsAllowed, OverdraftBounded
<1>1. Cardinality(Inserting(o)') <= Cardinality(Inserting(o))
  BY InsertingCounted, FS_Subset
<1>2. /\ IsFiniteSet(activations[o])
      /\ Cardinality(activations[o]) + Cardinality(Inserting(o)) <= Allowance(o)
  BY DEF LicensingInductive, InsertsAllowed
<1>3. Cardinality(activations[o]) \in Nat
  BY <1>2, FS_CardinalityType
<1>4. Allowance(o)' = MaxDevices(o) - 1 + Cardinality(Requests) + faults'
  BY DEF Allowance, MaxDevices
<1>5. /\ faults \in Nat /\ faults' \in Nat
      /\ MaxDevices(o) \in Nat /\ Cardinality(Requests) \in Nat
  BY LimitPositive, RequestsCounted, LicensingAssumption DEF LicensingInductive, TypeOK
<1>. QED
  BY <1>1, <1>2, <1>3, <1>4, <1>5, InsertingCounted, InsertingCountedNext DEF Allowance

(* Nothing at all happens to requests and activations, faults may.         *)
LEMMA RequestsUntouched ==
  ASSUME LicensingInductive, TypeOK', faults' >= faults,
         UNCHANGED <<tier, bound, activations, request, history>>
  PROVE  /\ ToldValidIsActivated' /\ LimitWhenAlone' /\ OverdraftBounded'
         /\ InsertsAllowed' /\ AloneBelow' /\ RequestsRight' /\ BoundIsActivated'
<1>1. \A o \in Orders : Inserting(o)' = Inserting(o) /\ Busy(o)' = Busy(o)
  BY DEF Inserting, Busy, OrderOf
<1>2. InsertsAllowed' /\ OverdraftBounded'
  BY <1>1, NoNewInsert
<1>3. \A o \in Orders : MaxDevices(o)' = MaxDevices(o)
  BY DEF MaxDevices
<1>. QED
  BY <1>1, <1>2, <1>3
     DEF LicensingInductive, ToldValidIsActivated, LimitWhenAlone, AloneBelow, BelowLimit,
         RequestsRight, BoundIsActivated, OrderOf, MachineOf, history

(* The webhook's steps.                                                    *)
LEMMA DeliveriesKeep ==
  ASSUME LicensingInductive, NEW d \in Deliveries,
         Webhook(d)
  PROVE  LicensingInductive'
<1>0. TypeOK
  BY DEF LicensingInductive
<1>1. UNCHANGED <<tier, closed, bound, activations, request, history>>
  BY DEF Webhook, Deliver, Store, StoreRefused, StoreFails, Log, Email, DeliveryKilled,
         Move, table
<1>2. faults' \in 0 .. MaxFaults /\ faults' >= faults
  BY <1>0, LicensingAssumption
     DEF TypeOK, Webhook, Deliver, Store, StoreRefused, StoreFails, Log, Email, DeliveryKilled, Fault
<1>3. \A x \in Deliveries \ {d} : delivery'[x] = delivery[x]
  BY <1>0 DEF TypeOK, Webhook, Deliver, Store, StoreRefused, StoreFails, Log, Email,
              DeliveryKilled, Move
<1>4. delivery' \in [Deliveries -> [pc : {"new", "insert", "log", "email", "done"},
                                    order : Orders]]
  BY <1>0 DEF TypeOK, Webhook, Deliver, Store, StoreRefused, StoreFails, Log, Email,
              DeliveryKilled, Move
<1>5. /\ keyOf' \in [Orders -> Deliveries \cup {NoKey}]
      /\ emailed' \subseteq Orders \X Deliveries
  <2>1. delivery[d].order \in Orders
    BY <1>0 DEF TypeOK
  <2>. QED
    BY <1>0, <2>1 DEF TypeOK, Webhook, Deliver, Store, StoreRefused, StoreFails, Log, Email,
                      DeliveryKilled, Row, table
<1>6. TypeOK'
  BY <1>0, <1>1, <1>2, <1>4, <1>5 DEF TypeOK, history
<1>7. EmailedKeyIsStored' /\ DeliveriesRight'
  <2> USE DEF EmailedKeyIsStored, DeliveriesRight, Move
  <2>0. EmailedKeyIsStored /\ DeliveriesRight
    BY DEF LicensingInductive
  <2>1. CASE \E o \in Orders : Deliver(d, o)
    BY <1>0, <1>3, <2>0, <2>1 DEF Deliver, TypeOK, table
  <2>2. CASE Store(d) \/ (StoreFails(d) /\ Row(d))
    <3>1. /\ keyOf[delivery[d].order] = NoKey
          /\ keyOf' = [keyOf EXCEPT ![delivery[d].order] = d]
          /\ emailed' = emailed /\ delivery[d].order \in Orders
      BY <1>0, <2>2 DEF Store, StoreFails, Row, TypeOK
    <3>2. keyOf'[delivery[d].order] = d
          /\ \A o \in Orders : keyOf[o] # NoKey => keyOf'[o] = keyOf[o]
      BY <1>0, <3>1 DEF TypeOK
    <3>3. \A sent \in emailed : sent[1] \in Orders /\ keyOf[sent[1]] # NoKey
      BY <1>0, <2>0, LicensingAssumption DEF TypeOK
    <3>4. \A x \in Deliveries : delivery[x].pc \in {"log", "email"} =>
            keyOf[delivery[x].order] # NoKey /\ delivery[x].order \in Orders
      BY <1>0, <2>0, LicensingAssumption DEF TypeOK
    <3>5. delivery'[d].order = delivery[d].order
      <4>1. \E pc : delivery' = [delivery EXCEPT ![d].pc = pc]
        BY <2>2 DEF Store, StoreFails
      <4>. QED BY <1>0, <4>1 DEF TypeOK
    <3>6. emailed' = emailed
      BY <3>1
    <3>7. EmailedKeyIsStored'
      BY <2>0, <3>2, <3>3, <3>6
    <3>8. ASSUME NEW x \in Deliveries, delivery'[x].pc \in {"log", "email"}
          PROVE  keyOf'[delivery'[x].order] = x
      <4>1. CASE x = d
        BY <3>2, <3>5, <4>1
      <4>2. CASE x # d
        <5>1. delivery'[x] = delivery[x]
          BY <1>3, <4>2
        <5>. QED BY <2>0, <3>2, <3>4, <3>8, <5>1
      <4>. QED BY <4>1, <4>2
    <3>. QED BY <3>7, <3>8
  <2>3. CASE StoreRefused(d) \/ (StoreFails(d) /\ keyOf' = keyOf) \/ DeliveryKilled(d)
    <3>1. /\ keyOf' = keyOf /\ emailed' = emailed
          /\ \E pc : pc = "done" /\ delivery' = [delivery EXCEPT ![d].pc = pc]
      BY <2>3 DEF StoreRefused, StoreFails, DeliveryKilled, table
    <3>2. delivery'[d].pc = "done"
      BY <1>0, <3>1 DEF TypeOK
    <3>. QED BY <1>3, <2>0, <3>1, <3>2
  <2>4. CASE Log(d)
    BY <1>0, <1>3, <2>0, <2>4 DEF Log, TypeOK, table
  <2>5. CASE Email(d)
    BY <1>0, <1>3, <2>0, <2>5 DEF Email, TypeOK, table
  <2>6. StoreFails(d) => Row(d) \/ keyOf' = keyOf
    BY DEF StoreFails
  <2>7. \/ \E o \in Orders : Deliver(d, o)
        \/ Store(d) \/ (StoreFails(d) /\ Row(d))
        \/ StoreRefused(d) \/ (StoreFails(d) /\ keyOf' = keyOf) \/ DeliveryKilled(d)
        \/ Log(d) \/ Email(d)
    BY <2>6, Zenon DEF Webhook
  <2>. QED BY <2>1, <2>2, <2>3, <2>4, <2>5, <2>7, Zenon
<1>. QED
  BY <1>1, <1>2, <1>6, <1>7, RequestsUntouched DEF LicensingInductive
-----------------------------------------------------------------------------
(* The steps of a request, first as facts about the records.               *)

LEMMA GotoFacts ==
  ASSUME TypeOK, NEW r \in Requests, NEW pc \in Phases, Goto(r, pc)
  PROVE  /\ request' \in [Requests -> Request]
         /\ request'[r].pc = pc /\ request'[r].order = request[r].order
         /\ request'[r].machine = request[r].machine /\ request'[r].own = request[r].own
         /\ \A p \in Requests \ {r} : request'[p] = request[p]
<1> DEFINE q == [request[r] EXCEPT !.pc = pc]
<1>1. request[r] \in Request
  BY DEF TypeOK
<1>2. /\ q \in Request /\ q.pc = pc /\ q.order = request[r].order
      /\ q.machine = request[r].machine /\ q.own = request[r].own
  BY <1>1 DEF Request
<1>3. request' = [request EXCEPT ![r] = q]
  BY DEF Goto
<1> HIDE DEF q
<1>. QED BY <1>2, <1>3, OneRequest

LEMMA EndFacts ==
  ASSUME TypeOK, NEW r \in Requests, End(r)
  PROVE  /\ request' \in [Requests -> Request]
         /\ request'[r].pc = "idle" /\ request'[r].own = FALSE
         /\ \A p \in Requests \ {r} : request'[p] = request[p]
<1>1. NoRequest.pc = "idle" /\ NoRequest.own = FALSE
  BY DEF NoRequest
<1>2. request' = [request EXCEPT ![r] = NoRequest]
  BY DEF End
<1>. QED BY <1>1, <1>2, OneRequest, NoRequestTyped

LEMMA AskFacts ==
  ASSUME TypeOK, NEW r \in Requests, NEW o \in Orders, NEW m \in Machines, Ask(r, o, m)
  PROVE  /\ request' \in [Requests -> Request]
         /\ request'[r].pc = "license" /\ request'[r].order = o
         /\ request'[r].own = FALSE
         /\ \A p \in Requests \ {r} : request'[p] = request[p]
<1> DEFINE q == [NoRequest EXCEPT !.pc = "license", !.order = o, !.machine = m]
<1>1. q \in Request /\ q.pc = "license" /\ q.order = o /\ q.own = FALSE
  BY NoRequestTyped DEF NoRequest, Request, Phases
<1>2. request' = [request EXCEPT ![r] = q]
  BY DEF Ask
<1> HIDE DEF q
<1>. QED BY <1>1, <1>2, OneRequest

LEMMA ReadLicenseFacts ==
  ASSUME TypeOK, NEW r \in Requests, ReadLicense(r)
  PROVE  /\ request' \in [Requests -> Request]
         /\ request'[r].pc = "own" /\ request'[r].order = request[r].order
         /\ request'[r].machine = request[r].machine /\ request'[r].own = request[r].own
         /\ \A p \in Requests \ {r} : request'[p] = request[p]
<1> DEFINE b == bound[OrderOf(r)] = NoMachine
           q == [request[r] EXCEPT !.pc = "own", !.first = b]
<1>1. request[r] \in Request
  BY DEF TypeOK
<1>2. b \in BOOLEAN
  OBVIOUS
<1>3. request' = [request EXCEPT ![r] = q]
  BY DEF ReadLicense
<1> HIDE DEF b
<1>4. /\ q \in Request /\ q.pc = "own" /\ q.order = request[r].order
      /\ q.machine = request[r].machine /\ q.own = request[r].own
  BY <1>1, <1>2 DEF Request, Phases
<1> HIDE DEF q
<1>. QED BY <1>3, <1>4, OneRequest

LEMMA FoundFacts ==
  ASSUME TypeOK, NEW r \in Requests, NEW own \in BOOLEAN, Found(r, own)
  PROVE  /\ request' \in [Requests -> Request]
         /\ request'[r].pc = "count" /\ request'[r].order = request[r].order
         /\ request'[r].machine = request[r].machine /\ request'[r].own = own
         /\ \A p \in Requests \ {r} : request'[p] = request[p]
<1> DEFINE q == [request[r] EXCEPT !.pc = "count", !.own = own]
<1>1. request[r] \in Request
  BY DEF TypeOK
<1>2. request' = [request EXCEPT ![r] = q]
  BY DEF Found
<1>3. /\ q \in Request /\ q.pc = "count" /\ q.order = request[r].order
      /\ q.machine = request[r].machine /\ q.own = own
  BY <1>1 DEF Request, Phases
<1> HIDE DEF q
<1>. QED BY <1>2, <1>3, OneRequest
-----------------------------------------------------------------------------
(* A step of a request changes that request only, and keeps its type.      *)
LEMMA RequestFrame ==
  ASSUME TypeOK, NEW r \in Requests, ValidateLicense(r)
  PROVE  /\ request' \in [Requests -> Request]
         /\ \A p \in Requests \ {r} : request'[p] = request[p]
<1>1. CASE \E o \in Orders, m \in Machines : Ask(r, o, m)
  BY <1>1, AskFacts
<1>2. CASE ReadLicense(r)
  BY <1>2, ReadLicenseFacts
<1>3. CASE ReadOwn(r)
  <2>1. PICK own : own \in BOOLEAN /\ Found(r, own)
    <3>1. (MachineOf(r) \in activations[OrderOf(r)]) \in BOOLEAN /\ FALSE \in BOOLEAN
      OBVIOUS
    <3>2. Found(r, MachineOf(r) \in activations[OrderOf(r)]) \/ Found(r, FALSE)
      BY <1>3 DEF ReadOwn
    <3>. QED BY <3>1, <3>2, Zenon
  <2>. QED BY <2>1, FoundFacts
<1>4. CASE CountOwn(r) \/ CountNew(r) \/ CountFails(r) \/ Activate(r)
  <2>1. End(r) \/ \E pc \in Phases : Goto(r, pc)
    BY <1>4 DEF CountOwn, CountNew, CountFails, Activate, AnswerValid, Phases
  <2>. QED BY <2>1, EndFacts, GotoFacts
<1>5. CASE RefuseLicense(r) \/ Seen(r) \/ Bind(r) \/ RequestKilled(r)
  <2>1. End(r)
    BY <1>5 DEF RefuseLicense, Seen, Bind, RequestKilled, AnswerValid
  <2>. QED BY <2>1, EndFacts
<1>. QED
  BY <1>1, <1>2, <1>3, <1>4, <1>5 DEF ValidateLicense

(* What it leaves alone, and what only grows.                              *)
LEMMA RequestLeaves ==
  ASSUME TypeOK, NEW r \in Requests, ValidateLicense(r)
  PROVE  /\ UNCHANGED <<tier, keyOf, closed, delivery, emailed>>
         /\ faults' \in 0 .. MaxFaults /\ faults' >= faults
         /\ unguarded \subseteq unguarded' /\ unguarded' \subseteq Orders
<1>0. OrderOf(r) \in Orders /\ faults \in 0 .. MaxFaults /\ MaxFaults \in Nat
  BY LicensingAssumption DEF TypeOK, OrderOf, Request
<1>1. UNCHANGED <<tier, keyOf, closed, delivery, emailed>>
  BY DEF ValidateLicense, Ask, RefuseLicense, ReadLicense, ReadOwn, CountOwn, CountNew,
         CountFails, Seen, Activate, Bind, RequestKilled, table
<1>2. faults' = faults \/ Fault
  BY DEF ValidateLicense, Ask, RefuseLicense, ReadLicense, ReadOwn, CountOwn, CountNew,
         CountFails, Seen, Activate, Insert, Bind, RequestKilled
<1>3. faults' \in 0 .. MaxFaults /\ faults' >= faults
  BY <1>0, <1>2 DEF Fault
<1>4. \/ unguarded' = unguarded
      \/ \E o \in Orders : unguarded' = unguarded \cup {o}
  BY <1>0 DEF ValidateLicense, Ask, RefuseLicense, ReadLicense, ReadOwn, CountOwn,
              CountNew, CountFails, Seen, Activate, Bind, RequestKilled, history
<1>5. unguarded \subseteq unguarded' /\ unguarded' \subseteq Orders
  BY <1>4 DEF TypeOK
<1>. QED BY <1>1, <1>3, <1>5

LEMMA RequestGrows ==
  ASSUME TypeOK, NEW r \in Requests, ValidateLicense(r)
  PROVE  /\ activations' \in [Orders -> SUBSET Machines]
         /\ unstored' \in [Orders -> SUBSET Machines]
         /\ told' \in [Orders -> SUBSET Machines]
         /\ bound' \in [Orders -> Machines \cup {NoMachine}]
         /\ \A o \in Orders : activations[o] \subseteq activations'[o]
                                /\ unstored[o] \subseteq unstored'[o]
<1>0. OrderOf(r) \in Orders /\ MachineOf(r) \in Machines
  BY DEF TypeOK, OrderOf, MachineOf, Request
<1>1. \/ activations' = activations
      \/ activations' = [activations EXCEPT ![OrderOf(r)] = @ \cup {MachineOf(r)}]
  BY DEF ValidateLicense, Ask, RefuseLicense, ReadLicense, ReadOwn, CountOwn, CountNew,
         CountFails, Seen, Activate, Insert, Bind, RequestKilled, table
<1>2. \/ unstored' = unstored
      \/ unstored' = [unstored EXCEPT ![OrderOf(r)] = @ \cup {MachineOf(r)}]
  BY DEF ValidateLicense, Ask, RefuseLicense, ReadLicense, ReadOwn, CountOwn, CountNew,
         CountFails, Seen, Activate, Insert, Bind, RequestKilled, history
<1>3. \/ told' = told
      \/ told' = [told EXCEPT ![OrderOf(r)] = @ \cup {MachineOf(r)}]
  BY DEF ValidateLicense, Ask, RefuseLicense, ReadLicense, ReadOwn, CountOwn, CountNew,
         CountFails, Seen, Activate, Bind, RequestKilled, AnswerValid, history
<1>4. \/ bound' = bound
      \/ bound' = [bound EXCEPT ![OrderOf(r)] = MachineOf(r)]
  BY DEF ValidateLicense, Ask, RefuseLicense, ReadLicense, ReadOwn, CountOwn, CountNew,
         CountFails, Seen, Activate, Bind, RequestKilled, table
<1>5. /\ activations' \in [Orders -> SUBSET Machines]
      /\ \A o \in Orders : activations[o] \subseteq activations'[o]
  BY <1>0, <1>1 DEF TypeOK
<1>6. /\ unstored' \in [Orders -> SUBSET Machines]
      /\ \A o \in Orders : unstored[o] \subseteq unstored'[o]
  BY <1>0, <1>2 DEF TypeOK
<1>7. /\ told' \in [Orders -> SUBSET Machines]
      /\ bound' \in [Orders -> Machines \cup {NoMachine}]
  BY <1>0, <1>3, <1>4 DEF TypeOK
<1>. QED BY <1>5, <1>6, <1>7

LEMMA RequestTyped ==
  ASSUME TypeOK, NEW r \in Requests, ValidateLicense(r)
  PROVE  TypeOK'
<1>1. /\ tier' \in [Orders -> Tiers]
      /\ keyOf' \in [Orders -> Deliveries \cup {NoKey}] /\ closed' \subseteq Orders
      /\ delivery' \in [Deliveries -> [pc : {"new", "insert", "log", "email", "done"},
                                       order : Orders]]
      /\ emailed' \subseteq Orders \X Deliveries
  BY RequestLeaves DEF TypeOK
<1>. QED BY <1>1, RequestFrame, RequestLeaves, RequestGrows DEF TypeOK
-----------------------------------------------------------------------------
(* What requests remember, what machines are told, what the row says.      *)
Held(o) == activations[o] \cup unstored[o]

LEMMA HeldGrows ==
  ASSUME TypeOK, NEW r \in Requests, ValidateLicense(r)
  PROVE  \A o \in Orders : Held(o) \subseteq Held(o)'
BY RequestGrows DEF Held

(* What the request of the step remembers afterwards.                      *)
RightlyRemembers(r) ==
  /\ request[r].own => MachineOf(r) \in activations[OrderOf(r)]
  /\ request[r].pc = "seen" => request[r].own
  /\ request[r].pc = "bind" => MachineOf(r) \in Held(OrderOf(r))

LEMMA ActivatedIsHeld ==
  ASSUME TypeOK, NEW r \in Requests, Insert(r)
  PROVE  MachineOf(r) \in activations'[OrderOf(r)] \cup unstored'[OrderOf(r)]
BY DEF Insert, TypeOK, OrderOf, MachineOf, Request

LEMMA RememberedIsRight ==
  ASSUME LicensingInductive, NEW r \in Requests, ValidateLicense(r)
  PROVE  RightlyRemembers(r)'
<1> USE DEF RightlyRemembers
<1>0. /\ TypeOK /\ RightlyRemembers(r)
      /\ OrderOf(r) \in Orders
  BY DEF LicensingInductive, RequestsRight, Held, TypeOK, OrderOf, Request
<1>1. \A o \in Orders : activations[o] \subseteq activations'[o]
  BY <1>0, RequestGrows
<1>2. CASE \E o \in Orders, m \in Machines : Ask(r, o, m)
  <2>1. request'[r].pc = "license" /\ request'[r].own = FALSE
    BY <1>0, <1>2, AskFacts
  <2>. QED BY <2>1
<1>3. CASE ReadLicense(r)
  BY <1>0, <1>1, <1>3, ReadLicenseFacts DEF OrderOf, MachineOf
<1>4. CASE ReadOwn(r)
  <2>1. CASE Found(r, FALSE)
    BY <1>0, <2>1, FoundFacts
  <2>2. CASE Found(r, MachineOf(r) \in activations[OrderOf(r)])
    <3>1. (MachineOf(r) \in activations[OrderOf(r)]) \in BOOLEAN
      OBVIOUS
    <3>2. /\ request'[r].pc = "count" /\ request'[r].order = request[r].order
          /\ request'[r].machine = request[r].machine
          /\ request'[r].own = (MachineOf(r) \in activations[OrderOf(r)])
      BY <1>0, <2>2, <3>1, FoundFacts
    <3>. QED BY <1>0, <1>1, <3>2 DEF OrderOf, MachineOf
  <2>. QED BY <1>4, <2>1, <2>2 DEF ReadOwn
<1>5. CASE CountOwn(r)
  <2>1. Goto(r, "seen") /\ request[r].own
    BY <1>5 DEF CountOwn
  <2>. QED BY <1>0, <1>1, <2>1, GotoFacts DEF OrderOf, MachineOf, Phases
<1>6. CASE CountFails(r)
  <2>1. Goto(r, "insert") /\ ~request[r].own
    BY <1>6 DEF CountFails
  <2>. QED BY <1>0, <1>1, <2>1, GotoFacts DEF OrderOf, MachineOf, Phases
<1>7. CASE CountNew(r)
  <2>1. Goto(r, "insert") \/ End(r)
    BY <1>7 DEF CountNew
  <2>. QED BY <1>0, <1>1, <2>1, GotoFacts, EndFacts DEF OrderOf, MachineOf, Phases
<1>8. CASE Activate(r)
  <2>1. CASE Goto(r, "bind")
    <3>1. MachineOf(r) \in activations'[OrderOf(r)] \cup unstored'[OrderOf(r)]
      BY <1>0, <1>8, ActivatedIsHeld DEF Activate
    <3>2. /\ request'[r].pc = "bind" /\ request'[r].own = request[r].own
          /\ OrderOf(r)' = OrderOf(r) /\ MachineOf(r)' = MachineOf(r)
      BY <1>0, <2>1, GotoFacts DEF OrderOf, MachineOf, Phases
    <3>. QED BY <1>0, <1>1, <3>1, <3>2 DEF Held
  <2>2. CASE End(r)
    BY <1>0, <2>2, EndFacts
  <2>. QED BY <1>8, <2>1, <2>2 DEF Activate, AnswerValid
<1>9. CASE RefuseLicense(r) \/ Seen(r) \/ Bind(r) \/ RequestKilled(r)
  <2>1. End(r)
    BY <1>9 DEF RefuseLicense, Seen, Bind, RequestKilled, AnswerValid
  <2>. QED BY <1>0, <2>1, EndFacts
<1>. QED
  BY <1>2, <1>3, <1>4, <1>5, <1>6, <1>7, <1>8, <1>9 DEF ValidateLicense

LEMMA TruthKept ==
  ASSUME LicensingInductive, NEW r \in Requests, ValidateLicense(r)
  PROVE  ToldValidIsActivated' /\ RequestsRight' /\ BoundIsActivated'
<1>0. /\ TypeOK /\ OrderOf(r) \in Orders
      /\ ToldValidIsActivated /\ RequestsRight /\ BoundIsActivated
  BY DEF LicensingInductive, TypeOK, OrderOf, Request
<1>1. \A o \in Orders : /\ activations[o] \subseteq activations'[o]
                        /\ Held(o) \subseteq Held(o)'
  BY <1>0, RequestGrows, HeldGrows
<1>2. RequestsRight'
  <2>1. ASSUME NEW p \in Requests PROVE RightlyRemembers(p)'
    <3>1. CASE p = r
      BY <3>1, RememberedIsRight
    <3>2. CASE p # r
      <4>1. request'[p] = request[p] /\ OrderOf(p) \in Orders /\ RightlyRemembers(p)
        BY <1>0, <3>2, RequestFrame
           DEF RequestsRight, RightlyRemembers, Held, TypeOK, OrderOf, Request
      <4>. QED BY <1>1, <4>1 DEF RightlyRemembers, OrderOf, MachineOf, Held
    <3>. QED BY <3>1, <3>2
  <2>. QED BY <2>1 DEF RequestsRight, RightlyRemembers, Held
<1> DEFINE HeldNext == activations'[OrderOf(r)] \cup unstored'[OrderOf(r)]
<1>3. Held(OrderOf(r)) \subseteq HeldNext
  BY <1>0, RequestGrows DEF Held
<1>4. Seen(r) \/ Activate(r) \/ Bind(r) => MachineOf(r) \in HeldNext
  <2>1. CASE Seen(r)
    <3>1. MachineOf(r) \in activations[OrderOf(r)]
      BY <1>0, <2>1 DEF Seen, RequestsRight
    <3>. QED BY <1>3, <3>1 DEF Held
  <2>2. CASE Activate(r)
    BY <1>0, <2>2, ActivatedIsHeld DEF Activate
  <2>3. CASE Bind(r)
    <3>1. MachineOf(r) \in Held(OrderOf(r))
      BY <1>0, <2>3 DEF Bind, RequestsRight, Held
    <3>. QED BY <1>3, <3>1
  <2>. QED BY <2>1, <2>2, <2>3
<1>5. ToldValidIsActivated'
  <2>1. \/ told' = told
        \/ /\ told' = [told EXCEPT ![OrderOf(r)] = @ \cup {MachineOf(r)}]
           /\ Seen(r) \/ Activate(r) \/ Bind(r)
    BY DEF ValidateLicense, Ask, RefuseLicense, ReadLicense, ReadOwn, CountOwn, CountNew,
           CountFails, Seen, Activate, Bind, RequestKilled, AnswerValid, history
  <2>2. CASE told' = told
    BY <1>0, <1>1, <2>2 DEF ToldValidIsActivated, Held
  <2>3. CASE /\ told' = [told EXCEPT ![OrderOf(r)] = @ \cup {MachineOf(r)}]
             /\ Seen(r) \/ Activate(r) \/ Bind(r)
    <3>1. MachineOf(r) \in HeldNext
      BY <1>4, <2>3
    <3>2. \A o \in Orders : told'[o] = IF o = OrderOf(r) THEN told[o] \cup {MachineOf(r)}
                                                         ELSE told[o]
      BY <1>0, <2>3 DEF TypeOK
    <3>. QED BY <1>0, <1>1, <3>1, <3>2 DEF ToldValidIsActivated, Held
  <2>. QED BY <2>1, <2>2, <2>3
<1>6. BoundIsActivated'
  <2>1. \/ bound' = bound
        \/ bound' = [bound EXCEPT ![OrderOf(r)] = MachineOf(r)] /\ Bind(r)
    BY DEF ValidateLicense, Ask, RefuseLicense, ReadLicense, ReadOwn, CountOwn, CountNew,
           CountFails, Seen, Activate, Bind, RequestKilled, table
  <2>2. CASE bound' = bound
    BY <1>0, <1>1, <2>2 DEF BoundIsActivated, Held
  <2>3. CASE bound' = [bound EXCEPT ![OrderOf(r)] = MachineOf(r)] /\ Bind(r)
    <3>1. MachineOf(r) \in HeldNext
      BY <1>4, <2>3
    <3>2. \A o \in Orders : bound'[o] = IF o = OrderOf(r) THEN MachineOf(r) ELSE bound[o]
      BY <1>0, <2>3 DEF TypeOK
    <3>. QED BY <1>0, <1>1, <3>1, <3>2 DEF BoundIsActivated, Held
  <2>. QED BY <2>1, <2>2, <2>3
<1>. QED BY <1>2, <1>5, <1>6
-----------------------------------------------------------------------------
(* Counting activations and inserts.                                       *)

(* All the arithmetic needs of the sets and bounds of a license.           *)
LEMMA CountsTyped ==
  ASSUME LicensingInductive, NEW o \in Orders
  PROVE  /\ IsFiniteSet(activations[o]) /\ Cardinality(activations[o]) \in Nat
         /\ Cardinality(Inserting(o)) \in Nat /\ faults \in Nat
         /\ MaxDevices(o) \in Nat /\ MaxDevices(o) >= 1
         /\ Cardinality(Requests) \in Nat
<1>1. IsFiniteSet(activations[o])
  BY DEF LicensingInductive, InsertsAllowed
<1>2. faults \in Nat
  BY LicensingAssumption DEF LicensingInductive, TypeOK
<1>. QED
  BY <1>1, <1>2, FS_CardinalityType, InsertingCounted, LimitPositive, RequestsCounted

LEMMA InsertingSame ==
  ASSUME TypeOK, NEW r \in Requests, ValidateLicense(r), request'[r].pc # "insert"
  PROVE  \A o \in Orders : Inserting(o)' \subseteq Inserting(o) \ {r}
BY RequestFrame DEF Inserting, OrderOf

LEMMA BusyShrinks ==
  ASSUME TypeOK, NEW r \in Requests, ValidateLicense(r),
         \/ request'[r].pc = "idle"
         \/ request[r].pc # "idle" /\ request'[r].order = request[r].order
  PROVE  \A o \in Orders : Busy(o)' \subseteq Busy(o)
BY RequestFrame DEF Busy, OrderOf

(* A step that activates nothing, and after which r is not at its insert.  *)
LEMMA QuietCounts ==
  ASSUME LicensingInductive, NEW r \in Requests, ValidateLicense(r),
         activations' = activations, request'[r].pc # "insert"
  PROVE  InsertsAllowed' /\ OverdraftBounded' /\ LimitWhenAlone'
<1>0. TypeOK /\ LimitWhenAlone
  BY DEF LicensingInductive
<1>1. /\ TypeOK' /\ tier' = tier /\ faults' >= faults /\ unguarded \subseteq unguarded'
      /\ \A o \in Orders : Inserting(o)' \subseteq Inserting(o)
  BY <1>0, RequestTyped, RequestLeaves, InsertingSame
<1>2. InsertsAllowed' /\ OverdraftBounded'
  BY <1>1, NoNewInsert
<1>3. LimitWhenAlone'
  BY <1>0, <1>1 DEF LimitWhenAlone, MaxDevices
<1>. QED BY <1>2, <1>3

LEMMA QuietAlone ==
  ASSUME LicensingInductive, NEW r \in Requests, ValidateLicense(r),
         activations' = activations, request'[r].pc # "insert",
         \/ request'[r].pc = "idle"
         \/ request[r].pc # "idle" /\ request'[r].order = request[r].order
  PROVE  AloneBelow'
<1>0. TypeOK /\ AloneBelow
  BY DEF LicensingInductive
<1>1. /\ tier' = tier /\ unguarded \subseteq unguarded'
      /\ \A o \in Orders : Inserting(o)' \subseteq Inserting(o) /\ Busy(o)' \subseteq Busy(o)
  BY <1>0, RequestLeaves, InsertingSame, BusyShrinks
<1>. QED BY <1>0, <1>1 DEF AloneBelow, BelowLimit, MaxDevices

LEMMA AskCounts ==
  ASSUME LicensingInductive, NEW r \in Requests, NEW o \in Orders, NEW m \in Machines,
         Ask(r, o, m)
  PROVE  InsertsAllowed' /\ OverdraftBounded' /\ LimitWhenAlone' /\ AloneBelow'
<1>0. TypeOK /\ AloneBelow
  BY DEF LicensingInductive
<1>1. ValidateLicense(r)
  BY DEF ValidateLicense
<1>2. /\ request'[r].pc = "license" /\ request'[r].order = o
      /\ \A p \in Requests \ {r} : request'[p] = request[p]
  BY <1>0, AskFacts
<1>3. activations' = activations /\ tier' = tier
      /\ unguarded' = IF Busy(o) = {} THEN unguarded ELSE unguarded \cup {o}
  BY DEF Ask, table
<1>4. InsertsAllowed' /\ OverdraftBounded' /\ LimitWhenAlone'
  BY <1>1, <1>2, <1>3, QuietCounts
<1>5. AloneBelow'
  <2> SUFFICES ASSUME NEW x \in Orders, x \notin unguarded'
               PROVE  /\ \A p, q \in Busy(x)' : p = q
                      /\ Inserting(x)' # {} => BelowLimit(x)'
    BY DEF AloneBelow
  <2>1. Inserting(x)' \subseteq Inserting(x) /\ (BelowLimit(x)' <=> BelowLimit(x))
    BY <1>0, <1>1, <1>2, <1>3, InsertingSame DEF BelowLimit, MaxDevices
  <2>2. x \notin unguarded
    BY <1>3
  <2>3. CASE x = o
    <3>1. Busy(x) = {}
      BY <1>3, <2>3
    <3>2. Busy(x)' \subseteq {r}
      BY <1>2, <3>1 DEF Busy, OrderOf
    <3>. QED BY <1>0, <2>1, <2>2, <3>2 DEF AloneBelow
  <2>4. CASE x # o
    <3>1. Busy(x)' \subseteq Busy(x)
      BY <1>2, <2>4 DEF Busy, OrderOf
    <3>. QED BY <1>0, <2>1, <2>2, <3>1 DEF AloneBelow
  <2>. QED BY <2>3, <2>4
<1>. QED BY <1>4, <1>5

(* A request goes to its insert: after a count below the limit, or after a *)
(* count that failed.                                                      *)
LEMMA EnterCounts ==
  ASSUME LicensingInductive, NEW r \in Requests, ValidateLicense(r),
         activations' = activations, Goto(r, "insert"), request[r].pc = "count",
         \/ BelowLimit(OrderOf(r)) /\ faults' = faults /\ unguarded' = unguarded
         \/ faults' = faults + 1 /\ OrderOf(r) \in unguarded'
  PROVE  InsertsAllowed' /\ OverdraftBounded' /\ LimitWhenAlone' /\ AloneBelow'
<1>0. TypeOK /\ AloneBelow /\ LimitWhenAlone /\ InsertsAllowed
  BY DEF LicensingInductive
<1>1. /\ tier' = tier /\ faults' >= faults /\ unguarded \subseteq unguarded'
      /\ faults' \in Nat /\ faults \in Nat
  BY <1>0, RequestLeaves, LicensingAssumption DEF TypeOK
<1>2. /\ request'[r].pc = "insert" /\ request'[r].order = request[r].order
      /\ \A p \in Requests \ {r} : request'[p] = request[p]
  BY <1>0, GotoFacts DEF Phases
<1>3. \A o \in Orders : Busy(o)' \subseteq Busy(o)
  BY <1>0, <1>2, BusyShrinks
<1>4. \A o \in Orders : /\ Inserting(o)' \subseteq Inserting(o) \cup {r}
                        /\ o # OrderOf(r) => Inserting(o)' \subseteq Inserting(o)
  BY <1>2 DEF Inserting, OrderOf
<1>5. \A o \in Orders : /\ MaxDevices(o)' = MaxDevices(o)
                        /\ Allowance(o)' = MaxDevices(o) - 1 + Cardinality(Requests) + faults'
  BY <1>1 DEF MaxDevices, Allowance
<1>6. ASSUME NEW o \in Orders
      PROVE  Cardinality(activations[o]) + Cardinality(Inserting(o)') <= Allowance(o)'
  <2>1. Cardinality(activations[o]) + Cardinality(Inserting(o)) <= Allowance(o)
    BY <1>0 DEF InsertsAllowed
  <2>2. CASE o # OrderOf(r)
    <3>1. Cardinality(Inserting(o)') <= Cardinality(Inserting(o))
      BY <1>4, <2>2, InsertingCounted, FS_Subset
    <3>. QED
      BY <1>1, <1>5, <2>1, <3>1, CountsTyped, InsertingCountedNext DEF Allowance
  <2>3. CASE o = OrderOf(r) /\ BelowLimit(OrderOf(r)) /\ faults' = faults
    <3>1. Cardinality(activations[o]) < MaxDevices(o)
      BY <2>3 DEF BelowLimit
    <3>2. Cardinality(Inserting(o)') <= Cardinality(Requests)
      BY InsertingCountedNext
    <3>. QED
      BY <1>1, <1>5, <3>1, <3>2, CountsTyped, InsertingCountedNext
  <2>4. CASE faults' = faults + 1
    <3>1. Cardinality(Inserting(o)') <= Cardinality(Inserting(o)) + 1
      <4>1. /\ IsFiniteSet(Inserting(o) \cup {r})
            /\ Cardinality(Inserting(o) \cup {r}) <= Cardinality(Inserting(o)) + 1
        <5>1. IsFiniteSet(Inserting(o)) /\ Cardinality(Inserting(o)) \in Nat
          BY InsertingCounted
        <5> DEFINE S == Inserting(o)
        <5> HIDE DEF S
        <5>2. IsFiniteSet(S) /\ Cardinality(S) \in Nat
          BY <5>1 DEF S
        <5>3. /\ IsFiniteSet(S \cup {r})
              /\ \/ Cardinality(S \cup {r}) = Cardinality(S)
                 \/ Cardinality(S \cup {r}) = Cardinality(S) + 1
          BY <5>2, FS_AddElement, Zenon
        <5>. QED BY <5>2, <5>3 DEF S
      <4>2. Cardinality(Inserting(o)') <= Cardinality(Inserting(o) \cup {r})
        BY <1>4, <4>1, FS_Subset
      <4>3. Cardinality(Inserting(o) \cup {r}) \in Nat
        BY <4>1, FS_CardinalityType
      <4>. QED BY <4>1, <4>2, <4>3, InsertingCounted, InsertingCountedNext
    <3>. QED
      BY <1>1, <1>5, <2>1, <2>4, <3>1, CountsTyped, InsertingCountedNext DEF Allowance
  <2>. QED BY <2>2, <2>3, <2>4
<1>7. InsertsAllowed' /\ OverdraftBounded'
  <2>1. ASSUME NEW o \in Orders
        PROVE  IsFiniteSet(activations'[o]) /\ Cardinality(activations'[o]) <= Allowance(o)'
    BY <1>1, <1>5, <1>6, CountsTyped, InsertingCountedNext
  <2>. QED BY <1>6, <2>1 DEF InsertsAllowed, OverdraftBounded
<1>8. LimitWhenAlone'
  BY <1>0, <1>1, <1>5 DEF LimitWhenAlone
<1>9. AloneBelow'
  <2> SUFFICES ASSUME NEW o \in Orders, o \notin unguarded'
               PROVE  /\ \A p, q \in Busy(o)' : p = q
                      /\ Inserting(o)' # {} => BelowLimit(o)'
    BY DEF AloneBelow
  <2>1. o \notin unguarded /\ (BelowLimit(o)' <=> BelowLimit(o))
    BY <1>1, <1>5 DEF BelowLimit
  <2>2. \A p, q \in Busy(o)' : p = q
    BY <1>0, <1>3, <2>1 DEF AloneBelow
  <2>3. Inserting(o)' # {} => BelowLimit(o)'
    BY <1>0, <1>4, <2>1 DEF AloneBelow
  <2>. QED BY <2>2, <2>3
<1>. QED BY <1>7, <1>8, <1>9

(* The insert itself.                                                      *)
LEMMA ActivateCounts ==
  ASSUME LicensingInductive, NEW r \in Requests, Activate(r)
  PROVE  InsertsAllowed' /\ OverdraftBounded' /\ LimitWhenAlone' /\ AloneBelow'
<1> DEFINE own == OrderOf(r)
<1>0. /\ TypeOK /\ AloneBelow /\ LimitWhenAlone /\ InsertsAllowed /\ ValidateLicense(r)
      /\ own \in Orders
  BY DEF LicensingInductive, ValidateLicense, TypeOK, OrderOf, Request
<1>1. /\ tier' = tier /\ faults' >= faults /\ unguarded' = unguarded
      /\ faults' \in Nat /\ faults \in Nat
  BY <1>0, RequestLeaves, LicensingAssumption DEF TypeOK, Activate
<1>2. /\ request[r].pc = "insert" /\ request'[r].pc # "insert"
      /\ request'[r].pc = "idle" \/ request'[r].order = request[r].order
  <2>1. request[r].pc = "insert" /\ (Goto(r, "bind") \/ End(r))
    BY DEF Activate, AnswerValid
  <2>. QED BY <1>0, <2>1, GotoFacts, EndFacts DEF Phases
<1>3. \A o \in Orders : /\ Inserting(o)' \subseteq Inserting(o) \ {r}
                        /\ Busy(o)' \subseteq Busy(o)
  BY <1>0, <1>2, InsertingSame, BusyShrinks
<1>4. r \in Inserting(own) /\ r \in Busy(own)
  BY <1>2 DEF Inserting, Busy
<1>5. \A o \in Orders : /\ MaxDevices(o)' = MaxDevices(o)
                        /\ Allowance(o)' = MaxDevices(o) - 1 + Cardinality(Requests) + faults'
  BY <1>1 DEF MaxDevices, Allowance
<1>6. \/ activations' = activations
      \/ activations' = [activations EXCEPT ![own] = @ \cup {MachineOf(r)}]
  BY DEF Activate, Insert
<1>7. ASSUME NEW o \in Orders
      PROVE  /\ IsFiniteSet(activations'[o])
             /\ Cardinality(activations'[o]) \in Nat
             /\ Cardinality(activations'[o]) <= Cardinality(activations[o]) + 1
             /\ o # own => activations'[o] = activations[o]
  <2>1. \/ activations'[o] = activations[o]
        \/ o = own /\ activations'[o] = activations[o] \cup {MachineOf(r)}
    BY <1>0, <1>6 DEF TypeOK
  <2>2. IsFiniteSet(activations[o]) /\ Cardinality(activations[o]) \in Nat
    BY CountsTyped
  <2>3. /\ IsFiniteSet(activations'[o])
        /\ Cardinality(activations'[o]) <= Cardinality(activations[o]) + 1
    BY <2>1, <2>2, FS_AddElement
  <2>4. o # own => activations'[o] = activations[o]
    BY <2>1
  <2>. QED BY <2>3, <2>4, FS_CardinalityType
<1>8. ASSUME NEW o \in Orders
      PROVE  Cardinality(activations'[o]) + Cardinality(Inserting(o)') <= Allowance(o)'
  <2>1. Cardinality(activations[o]) + Cardinality(Inserting(o)) <= Allowance(o)
    BY <1>0 DEF InsertsAllowed
  <2>2. CASE o # own
    <3>1. Cardinality(Inserting(o)') <= Cardinality(Inserting(o))
      BY <1>3, InsertingCounted, FS_Subset
    <3>. QED
      BY <1>1, <1>5, <1>7, <2>1, <2>2, <3>1, CountsTyped, InsertingCountedNext DEF Allowance
  <2>3. CASE o = own
    <3>1. Cardinality(Inserting(o)') <= Cardinality(Inserting(o)) - 1
      <4>1. /\ IsFiniteSet(Inserting(o) \ {r})
            /\ Cardinality(Inserting(o) \ {r}) = Cardinality(Inserting(o)) - 1
        BY <1>4, <2>3, InsertingCounted, FS_RemoveElement
      <4>2. Cardinality(Inserting(o)') <= Cardinality(Inserting(o) \ {r})
        BY <1>3, <4>1, FS_Subset
      <4>. QED BY <4>1, <4>2
    <3>. QED
      BY <1>1, <1>5, <1>7, <2>1, <3>1, CountsTyped, InsertingCountedNext DEF Allowance
  <2>. QED BY <2>2, <2>3
<1>9. InsertsAllowed' /\ OverdraftBounded'
  <2>1. ASSUME NEW o \in Orders
        PROVE  IsFiniteSet(activations'[o]) /\ Cardinality(activations'[o]) <= Allowance(o)'
    BY <1>1, <1>5, <1>7, <1>8, CountsTyped, InsertingCountedNext
  <2>. QED BY <1>8, <2>1 DEF InsertsAllowed, OverdraftBounded
<1>10. LimitWhenAlone'
  <2> SUFFICES ASSUME NEW o \in Orders, o \notin unguarded
               PROVE  Cardinality(activations'[o]) <= MaxDevices(o)
    BY <1>1, <1>5 DEF LimitWhenAlone
  <2>1. CASE o # own
    BY <1>0, <1>7, <2>1 DEF LimitWhenAlone
  <2>2. CASE o = own
    <3>1. Cardinality(activations[o]) < MaxDevices(o)
      BY <1>0, <1>4, <2>2 DEF AloneBelow, BelowLimit
    <3>. QED BY <1>7, <3>1, CountsTyped
  <2>. QED BY <2>1, <2>2
<1>11. AloneBelow'
  <2> SUFFICES ASSUME NEW o \in Orders, o \notin unguarded
               PROVE  /\ \A p, q \in Busy(o)' : p = q
                      /\ Inserting(o)' # {} => BelowLimit(o)'
    BY <1>1 DEF AloneBelow
  <2>1. \A p, q \in Busy(o) : p = q
    BY <1>0 DEF AloneBelow
  <2>2. CASE o # own
    <3>1. BelowLimit(o)' <=> BelowLimit(o)
      BY <1>5, <1>7, <2>2 DEF BelowLimit
    <3>. QED BY <1>0, <1>3, <2>1, <3>1 DEF AloneBelow
  <2>3. CASE o = own
    <3>1. Inserting(o) \subseteq Busy(o)
      BY DEF Inserting, Busy
    <3>2. Inserting(o)' = {}
      BY <1>3, <1>4, <2>1, <2>3, <3>1
    <3>. QED BY <1>3, <2>1, <3>2
  <2>. QED BY <2>2, <2>3
<1>. QED BY <1>9, <1>10, <1>11

(* The steps of validate-license.                                          *)
LEMMA RequestsKeep ==
  ASSUME LicensingInductive, NEW r \in Requests, ValidateLicense(r)
  PROVE  LicensingInductive'
<1>0. TypeOK
  BY DEF LicensingInductive
<1>1. TypeOK' /\ ToldValidIsActivated' /\ RequestsRight' /\ BoundIsActivated'
  BY <1>0, RequestTyped, TruthKept
<1>2. EmailedKeyIsStored' /\ DeliveriesRight'
  BY <1>0, RequestLeaves DEF LicensingInductive, EmailedKeyIsStored, DeliveriesRight
<1> DEFINE Counts == InsertsAllowed /\ OverdraftBounded /\ LimitWhenAlone /\ AloneBelow
<1>3. ASSUME activations' = activations, request'[r].pc # "insert",
             \/ request'[r].pc = "idle"
             \/ request[r].pc # "idle" /\ request'[r].order = request[r].order
      PROVE  Counts'
  BY <1>3, QuietCounts, QuietAlone
<1>4. Counts'
  <2> HIDE DEF Counts
  <2>1. CASE \E o \in Orders, m \in Machines : Ask(r, o, m)
    BY <2>1, AskCounts DEF Counts
  <2>2. CASE ReadLicense(r)
    <3>1. activations' = activations /\ request[r].pc = "license"
      BY <2>2 DEF ReadLicense, table
    <3>. QED BY <1>0, <1>3, <2>2, <3>1, ReadLicenseFacts
  <2>3. CASE ReadOwn(r)
    <3>1. activations' = activations /\ request[r].pc = "own"
      BY <2>3 DEF ReadOwn, table
    <3>2. \E own \in BOOLEAN : Found(r, own)
      <4>1. (MachineOf(r) \in activations[OrderOf(r)]) \in BOOLEAN /\ FALSE \in BOOLEAN
        OBVIOUS
      <4>2. Found(r, MachineOf(r) \in activations[OrderOf(r)]) \/ Found(r, FALSE)
        BY <2>3 DEF ReadOwn
      <4>. QED BY <4>1, <4>2, Zenon
    <3>. QED BY <1>0, <1>3, <3>1, <3>2, FoundFacts
  <2>4. CASE CountOwn(r)
    <3>1. activations' = activations /\ request[r].pc = "count" /\ Goto(r, "seen")
      BY <2>4 DEF CountOwn, table
    <3>. QED BY <1>0, <1>3, <3>1, GotoFacts DEF Phases
  <2>5. CASE CountFails(r)
    <3>1. /\ activations' = activations /\ request[r].pc = "count" /\ Goto(r, "insert")
          /\ faults' = faults + 1 /\ OrderOf(r) \in unguarded'
      BY <2>5 DEF CountFails, Fault, table
    <3>. QED BY <3>1, EnterCounts DEF Counts
  <2>6. CASE CountNew(r)
    <3>1. /\ activations' = activations /\ request[r].pc = "count"
          /\ faults' = faults /\ unguarded' = unguarded
      BY <2>6 DEF CountNew, table, history
    <3>2. CASE BelowLimit(OrderOf(r))
      BY <2>6, <3>1, <3>2, EnterCounts DEF CountNew, Counts
    <3>3. CASE ~BelowLimit(OrderOf(r))
      BY <1>0, <1>3, <2>6, <3>1, <3>3, EndFacts DEF CountNew
    <3>. QED BY <3>2, <3>3
  <2>7. CASE Activate(r)
    BY <2>7, ActivateCounts DEF Counts
  <2>8. CASE RefuseLicense(r) \/ Seen(r) \/ Bind(r) \/ RequestKilled(r)
    <3>1. activations' = activations /\ End(r)
      BY <2>8 DEF RefuseLicense, Seen, Bind, RequestKilled, AnswerValid, table
    <3>. QED BY <1>0, <1>3, <3>1, EndFacts
  <2>. QED
    BY <2>1, <2>2, <2>3, <2>4, <2>5, <2>6, <2>7, <2>8 DEF ValidateLicense
<1>. QED BY <1>1, <1>2, <1>4 DEF LicensingInductive

LEMMA CloseKeeps ==
  ASSUME LicensingInductive, NEW o \in Orders, Close(o)
  PROVE  LicensingInductive'
<1>0. TypeOK
  BY DEF LicensingInductive
<1>1. UNCHANGED <<tier, keyOf, bound, activations, request, delivery, emailed, history,
                  faults>>
  BY DEF Close
<1>2. TypeOK' /\ faults' >= faults
  BY <1>0, <1>1, LicensingAssumption DEF TypeOK, Close, history
<1>3. EmailedKeyIsStored' /\ DeliveriesRight'
  BY <1>1 DEF LicensingInductive, EmailedKeyIsStored, DeliveriesRight
<1>. QED BY <1>1, <1>2, <1>3, RequestsUntouched DEF LicensingInductive

LEMMA StutterKeeps ==
  ASSUME LicensingInductive, UNCHANGED vars
  PROVE  LicensingInductive'
<1>1. UNCHANGED <<tier, keyOf, closed, bound, activations, request, delivery, emailed,
                  history, faults>>
  BY DEF vars, table
<1>2. TypeOK' /\ faults' >= faults
  BY <1>1, LicensingAssumption DEF LicensingInductive, TypeOK, history
<1>3. EmailedKeyIsStored' /\ DeliveriesRight'
  BY <1>1 DEF LicensingInductive, EmailedKeyIsStored, DeliveriesRight
<1>. QED BY <1>1, <1>2, <1>3, RequestsUntouched DEF LicensingInductive
-----------------------------------------------------------------------------
(* In every reachable state, for any number of orders, machines, requests  *)
(* and deliveries: what requests remember of the table is still true when  *)
(* they write, and every insert that passed the check is accounted for.    *)
THEOREM LicensingInvariant == Spec => []LicensingInductive
<1>1. LicensingInductive /\ [Next]_vars => LicensingInductive'
  BY RequestsKeep, DeliveriesKeep, CloseKeeps, StutterKeeps DEF Next
<1>. QED BY LicensingInit, <1>1, PTL DEF Spec

(* validate-license answers valid only to a machine that has an activations *)
(* row, or whose insert failed unnoticed.                                  *)
THEOREM ToldIsTrue == Spec => []ToldValidIsActivated
<1>1. LicensingInductive => ToldValidIsActivated
  BY DEF LicensingInductive
<1>. QED BY LicensingInvariant, <1>1, PTL

(* The device limit holds for a license whose requests never overlap and   *)
(* whose activations could always be counted.                              *)
THEOREM LimitKeptAlone == Spec => []LimitWhenAlone
<1>1. LicensingInductive => LimitWhenAlone
  BY DEF LicensingInductive
<1>. QED BY LicensingInvariant, <1>1, PTL

(* In any case the excess over the limit is at most the number of requests *)
(* in flight together, less one, and of the statements that failed.        *)
THEOREM ExcessBounded == Spec => []OverdraftBounded
<1>1. LicensingInductive => OverdraftBounded
  BY DEF LicensingInductive
<1>. QED BY LicensingInvariant, <1>1, PTL

(* The key razorpay-webhook emails to a customer is the key of the license, *)
(* whatever the number and the interleaving of the deliveries.             *)
THEOREM KeyIsStored == Spec => []EmailedKeyIsStored
<1>1. LicensingInductive => EmailedKeyIsStored
  BY DEF LicensingInductive
<1>. QED BY LicensingInvariant, <1>1, PTL
=============================================================================
