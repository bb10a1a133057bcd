------------------------------ MODULE Licensing ------------------------------
(***************************************************************************)
(* The two license functions over one database (supabase/functions):       *)
(* validate-license activates a machine, razorpay-webhook turns a captured *)
(* payment into a license.  Every statement to the database is a step of   *)
(* its own; nothing runs in a transaction.  supabase-js reports an error   *)
(* of a statement as a value, which most of the code does not look at.     *)
(*                                                                         *)
(* Abstractions.  An order stands for the license it buys; the key made by *)
(* a delivery of the webhook is fresh and stands for that delivery.  Only  *)
(* well-formed requests and payment.captured events are considered.        *)
(***************************************************************************)
EXTENDS Integers, FiniteSets

CONSTANTS
  Orders,       \* razorpay orders
  Machines,
  Requests,     \* calls of validate-license that may be in flight at once
  Deliveries,   \* calls of razorpay-webhook
  NoKey, NoMachine,
  MaxFaults     \* bound: statements that fail, functions that are killed

ASSUME LicensingAssumption ==
  /\ Orders # {} /\ Machines # {}
  /\ IsFiniteSet(Requests)
  /\ NoKey \notin Deliveries /\ NoMachine \notin Machines
  /\ MaxFaults \in Nat

VARIABLES
  tier,         \* licenses.tier by order: what its amount buys
  keyOf,        \* licenses.license_key by order, NoKey without a row
  closed,       \* licenses that are revoked or have expired
  bound,        \* licenses.machine_id, set together with activated_at
  activations,  \* order -> machines with an activations row
  request,      \* validate-license calls
  delivery,     \* razorpay-webhook calls
  emailed,      \* pairs of an order and a key sent to the customer
  told,         \* history: order -> machines answered valid
  unstored,     \* history: order -> machines whose insert failed
  unguarded,    \* history: licenses with overlapping requests or no count
  faults

table   == <<tier, keyOf, closed, bound, activations>>
history == <<told, unstored, unguarded>>
vars    == <<table, request, delivery, emailed, history, faults>>

Tiers == {"rescue_pass", "pro", "studio"}

MaxDevices(o) == IF tier[o] = "studio" THEN 3 ELSE 1

AnyOrder   == CHOOSE o \in Orders : TRUE
AnyMachine == CHOOSE m \in Machines : TRUE

NoRequest == [pc |-> "idle", order |-> AnyOrder, machine |-> AnyMachine,
              first |-> FALSE, own |-> FALSE]

Init ==
  /\ tier \in [Orders -> Tiers]
  /\ keyOf = [o \in Orders |-> NoKey] /\ closed = {}
  /\ bound = [o \in Orders |-> NoMachine]
  /\ activations = [o \in Orders |-> {}]
  /\ request = [r \in Requests |-> NoRequest]
  /\ delivery = [d \in Deliveries |-> [pc |-> "new", order |-> AnyOrder]]
  /\ emailed = {}
  /\ told = [o \in Orders |-> {}] /\ unstored = [o \in Orders |-> {}]
  /\ unguarded = {} /\ faults = 0

Fault == faults < MaxFaults /\ faults' = faults + 1

OrderOf(r)   == request[r].order
MachineOf(r) == request[r].machine

Goto(r, pc) == request' = [request EXCEPT ![r].pc = pc]

End(r) == request' = [request EXCEPT ![r] = NoRequest]

AnswerValid(r) ==
  /\ End(r)
  /\ told' = [told EXCEPT ![OrderOf(r)] = @ \cup {MachineOf(r)}]
-----------------------------------------------------------------------------
(* validate-license.                                                       *)

Busy(o) == {r \in Requests : request[r].pc # "idle" /\ OrderOf(r) = o}

Ask(r, o, m) ==
  /\ request[r].pc = "idle"
  /\ request' = [request EXCEPT ![r] = [NoRequest EXCEPT !.pc = "license",
                                          !.order = o, !.machine = m]]
  /\ unguarded' = IF Busy(o) = {} THEN unguarded ELSE unguarded \cup {o}
  /\ UNCHANGED <<table, delivery, emailed, told, unstored, faults>>

(* No such license, revoked or expired.                                    *)
RefuseLicense(r) ==
  /\ request[r].pc = "license"
  /\ keyOf[OrderOf(r)] = NoKey \/ OrderOf(r) \in closed
  /\ End(r)
  /\ UNCHANGED <<table, delivery, emailed, history, faults>>

ReadLicense(r) ==
  /\ request[r].pc = "license"
  /\ keyOf[OrderOf(r)] # NoKey /\ OrderOf(r) \notin closed
  /\ request' = [request EXCEPT ![r].pc = "own",
                               ![r].first = bound[OrderOf(r)] = NoMachine]
  /\ UNCHANGED <<table, delivery, emailed, history, faults>>

Found(r, own) == request' = [request EXCEPT ![r].pc = "count", ![r].own = own]

(* A failed query looks like a machine without an activation.              *)
ReadOwn(r) ==
  /\ request[r].pc = "own"
  /\ \/ Found(r, MachineOf(r) \in activations[OrderOf(r)]) /\ UNCHANGED faults
     \/ Found(r, FALSE) /\ Fault
  /\ UNCHANGED <<table, delivery, emailed, history>>

\* Mutant: one device more
BelowLimitOrAt(o) == Cardinality(activations[o]) <= MaxDevices(o)

BelowLimit(o) == Cardinality(activations[o]) < MaxDevices(o)

(* The count is not looked at.                                             *)
CountOwn(r) ==
  /\ request[r].pc = "count" /\ request[r].own
  /\ Goto(r, "seen")
  /\ UNCHANGED <<table, delivery, emailed, history, faults>>

CountNew(r) ==
  /\ request[r].pc = "count" /\ ~request[r].own
  /\ IF BelowLimit(OrderOf(r)) THEN Goto(r, "insert") ELSE End(r)
  /\ UNCHANGED <<table, delivery, emailed, history, faults>>

(* A failed count is taken for none.                                       *)
CountFails(r) ==
  /\ request[r].pc = "count" /\ ~request[r].own /\ Fault
  /\ Goto(r, "insert")
  /\ unguarded' = unguarded \cup {OrderOf(r)}
  /\ UNCHANGED <<table, delivery, emailed, told, unstored>>

(* Only last_seen_at is written.                                           *)
Seen(r) ==
  /\ request[r].pc = "seen"
  /\ AnswerValid(r)
  /\ UNCHANGED <<table, delivery, emailed, unstored, unguarded, faults>>

\* Mutant: an earlier machine gives way
InsertReplacing(r) ==
  /\ activations' = [activations EXCEPT ![OrderOf(r)] = {MachineOf(r)}]
  /\ UNCHANGED <<unstored, faults>>

(* UNIQUE(license_id, machine_id): a second row of a machine is refused,   *)
(* and the refusal, like any other error, is not looked at.                *)
Insert(r) ==
  \/ /\ activations' = [activations EXCEPT ![OrderOf(r)] = @ \cup {MachineOf(r)}]
     /\ UNCHANGED <<unstored, faults>>
  \/ /\ Fault
     /\ unstored' = [unstored EXCEPT ![OrderOf(r)] = @ \cup {MachineOf(r)}]
     /\ UNCHANGED activations

Activate(r) ==
  /\ request[r].pc = "insert"
  /\ Insert(r)
  /\ IF request[r].first THEN Goto(r, "bind") /\ UNCHANGED told ELSE AnswerValid(r)
  /\ UNCHANGED <<tier, keyOf, closed, bound, delivery, emailed, unguarded>>

(* The license row remembers its machine: the last of those that found     *)
(* activated_at empty.                                                     *)
Bind(r) ==
  /\ request[r].pc = "bind"
  /\ AnswerValid(r)
  /\ \/ bound' = [bound EXCEPT ![OrderOf(r)] = MachineOf(r)] /\ UNCHANGED faults
     \/ UNCHANGED bound /\ Fault
  /\ UNCHANGED <<tier, keyOf, closed, activations, delivery, emailed, unstored, unguarded>>
-----------------------------------------------------------------------------
(* razorpay-webhook.  The provider may deliver an event again and again,   *)
(* while an earlier delivery of it is still being worked on.               *)

Move(d, from, to) ==
  /\ delivery[d].pc = from
  /\ delivery' = [delivery EXCEPT ![d].pc = to]

Deliver(d, o) ==
  /\ delivery[d].pc = "new"
  /\ delivery' = [delivery EXCEPT ![d] = [pc |-> "insert", order |-> o]]
  /\ UNCHANGED <<table, request, emailed, history, faults>>

\* Mutant: the row is replaced (upsert)
StoreReplacing(d) ==
  /\ Move(d, "insert", "log")
  /\ keyOf' = [keyOf EXCEPT ![delivery[d].order] = d]
  /\ UNCHANGED <<tier, closed, bound, activations, request, emailed, history, faults>>

Row(d) ==
  /\ keyOf[delivery[d].order] = NoKey
  /\ keyOf' = [keyOf EXCEPT ![delivery[d].order] = d]

Store(d) ==
  /\ Row(d)
  /\ Move(d, "insert", "log")
  /\ UNCHANGED <<tier, closed, bound, activations, request, emailed, history, faults>>

(* razorpay_order_id is UNIQUE: status 500, and nothing else happens.      *)
StoreRefused(d) ==
  /\ keyOf[delivery[d].order] # NoKey
  /\ Move(d, "insert", "done")
  /\ UNCHANGED <<table, request, emailed, history, faults>>

(* The row may be there all the same, when only the answer is lost.        *)
StoreFails(d) ==
  /\ Move(d, "insert", "done") /\ Fault
  /\ Row(d) \/ UNCHANGED keyOf
  /\ UNCHANGED <<tier, closed, bound, activations, request, emailed, history>>

(* payment_logs is written, or not, which nobody looks at.                 *)
Log(d) ==
  /\ Move(d, "log", "email")
  /\ UNCHANGED <<table, request, emailed, history, faults>>

Email(d) ==
  /\ Move(d, "email", "done")
  /\ \/ emailed' = emailed \cup {<<delivery[d].order, d>>} /\ UNCHANGED faults
     \/ UNCHANGED emailed /\ Fault
  /\ UNCHANGED <<table, request, history>>
-----------------------------------------------------------------------------
(* A function is killed between two statements.                            *)
RequestKilled(r) ==
  /\ request[r].pc # "idle" /\ End(r) /\ Fault
  /\ UNCHANGED <<table, delivery, emailed, history>>

DeliveryKilled(d) ==
  /\ \E pc \in {"insert", "log", "email"} : Move(d, pc, "done")
  /\ Fault
  /\ UNCHANGED <<table, request, emailed, history>>

(* A license expires or is revoked by hand.                                *)
Close(o) ==
  /\ keyOf[o] # NoKey /\ closed' = closed \cup {o}
  /\ UNCHANGED <<tier, keyOf, bound, activations, request, delivery, emailed,
                 history, faults>>

ValidateLicense(r) ==
  \/ \E o \in Orders, m \in Machines : Ask(r, o, m)
  \/ RefuseLicense(r) \/ ReadLicense(r) \/ ReadOwn(r)
  \/ CountOwn(r) \/ CountNew(r) \/ CountFails(r)
  \/ Seen(r) \/ Activate(r) \/ Bind(r) \/ RequestKilled(r)

Webhook(d) ==
  \/ \E o \in Orders : Deliver(d, o)
  \/ Store(d) \/ StoreRefused(d) \/ StoreFails(d) \/ Log(d) \/ Email(d)
  \/ DeliveryKilled(d)

Next ==
  \/ \E r \in Requests : ValidateLicense(r)
  \/ \E d \in Deliveries : Webhook(d)
  \/ \E o \in Orders : Close(o)

Spec == Init /\ [][Next]_vars
-----------------------------------------------------------------------------
(* Properties.                                                             *)

Phases == {"idle", "license", "own", "count", "seen", "insert", "bind"}

Request == [pc : Phases, order : Orders, machine : Machines,
            first : BOOLEAN, own : BOOLEAN]

(* Every variable keeps its type.                                          *)
TypeOK ==
  /\ tier \in [Orders -> Tiers]
  /\ keyOf \in [Orders -> Deliveries \cup {NoKey}] /\ closed \subseteq Orders
  /\ bound \in [Orders -> Machines \cup {NoMachine}]
  /\ activations \in [Orders -> SUBSET Machines]
  /\ request \in [Requests -> Request]
  /\ delivery \in [Deliveries -> [pc : {"new", "insert", "log", "email", "done"},
                                  order : Orders]]
  /\ emailed \subseteq Orders \X Deliveries
  /\ told \in [Orders -> SUBSET Machines] /\ unstored \in [Orders -> SUBSET Machines]
  /\ unguarded \subseteq Orders /\ faults \in 0 .. MaxFaults

(* A machine that was told its license is valid has an activation, unless  *)
(* its own insert failed: concurrent requests of one machine, of which one *)
(* insert is refused, do not lose it.                                      *)
ToldValidIsActivated ==
  \A o \in Orders : told[o] \subseteq activations[o] \cup unstored[o]

(* "enforcing device binding limits" (supabase/README.md:11): the limit    *)
(* holds as long as the requests for a license never overlap and their     *)
(* counts succeed ...                                                      *)
LimitWhenAlone ==
  \A o \in Orders \ unguarded : Cardinality(activations[o]) <= MaxDevices(o)

(* ... and otherwise the excess is bounded by the number of requests that  *)
(* can be in flight together and of the statements that failed; it does    *)
(* not grow with the number of attempts.                                   *)
Allowance(o) == MaxDevices(o) - 1 + Cardinality(Requests) + faults

OverdraftBounded ==
  \A o \in Orders : Cardinality(activations[o]) <= Allowance(o)

(* The key a customer was sent is the one in the table, however often the  *)
(* provider delivers the payment, also twice at once.                      *)
EmailedKeyIsStored == \A sent \in emailed : keyOf[sent[1]] = sent[2]

(* The inductive invariant behind them.                                    *)

Inserting(o) == {r \in Requests : request[r].pc = "insert" /\ OrderOf(r) = o}

(* Requests past the check count against the allowance already.            *)
InsertsAllowed ==
  \A o \in Orders :
    /\ IsFiniteSet(activations[o])
    /\ Cardinality(activations[o]) + Cardinality(Inserting(o)) <= Allowance(o)

(* A request that is alone with its license inserts below the limit.       *)
AloneBelow ==
  \A o \in Orders \ unguarded :
    /\ \A r, q \in Busy(o) : r = q
    /\ Inserting(o) # {} => BelowLimit(o)

(* What a request remembers is still true when it acts on it.              *)
RequestsRight ==
  \A r \in Requests :
    /\ request[r].own => MachineOf(r) \in activations[OrderOf(r)]
    /\ request[r].pc = "seen" => request[r].own
    /\ request[r].pc = "bind"
         => MachineOf(r) \in activations[OrderOf(r)] \cup unstored[OrderOf(r)]

(* The machine on the license row is one that was activated.               *)
BoundIsActivated ==
  \A o \in Orders : bound[o] # NoMachine => bound[o] \in activations[o] \cup unstored[o]

DeliveriesRight ==
  \A d \in Deliveries :
    delivery[d].pc \in {"log", "email"} => keyOf[delivery[d].order] = d

LicensingInductive ==
  /\ TypeOK /\ ToldValidIsActivated /\ LimitWhenAlone /\ OverdraftBounded
  /\ EmailedKeyIsStored /\ InsertsAllowed /\ AloneBelow /\ RequestsRight
  /\ BoundIsActivated /\ DeliveriesRight
=============================================================================
