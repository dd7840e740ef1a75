----------------------------- MODULE Clearance -----------------------------
(***************************************************************************)
(* Vendor and product clearances and the use cases behind them.  A         *)
(* decision on a clearance commits in the middle of its request; the rest  *)
(* of the request enumerates the linked use cases and re-evaluates each    *)
(* in a transaction of its own, stopping at the first that fails.          *)
(* Meanwhile other requests register use cases, satisfy their other gates, *)
(* authorise them, relink systems and pull the manual lever, and           *)
(* clearances lapse without any request at all.                            *)
(*                                                                         *)
(* A transaction is two steps, the evaluation (its reads and the engine's  *)
(* move) and the commit, where the UPDATE of the state must find the state *)
(* it read.  The other gates of a use case are the set met[u] of those     *)
(* that pass; UseCaseLifecycle says how they come to pass and fail.  Here  *)
(* they only come to pass, so what goes out of step does so through        *)
(* clearances.                                                             *)
(***************************************************************************)
EXTENDS LifecycleEngine, FiniteSets

CONSTANTS
    Workers,            \* concurrent requests
    UseCases,
    Systems,
    Vendors, Products,  \* of the catalogue
    NoParty,
    SystemOf,           \* the system of a use case
    ProductOf,          \* the product of a system, or NoParty
    CatalogueVendorOf,  \* the vendor of a product
    VendorAtFirst,      \* the vendor create_system gives a system, or NoParty
    MetAtRegistration,  \* the gates of its own a new use case passes
    ClearedAtFirst,     \* the parties the tenant has cleared already
    MaxChanges          \* bound: decisions, lapses, relinked systems and crashes

Parties == Vendors \cup Products

ClearanceGates == {"VENDOR_CHECK", "PRODUCT_CHECK"}
OwnGates == VectorStates \ ClearanceGates

ASSUME ClearanceAssumption ==
    /\ SystemOf \in [UseCases -> Systems]
    /\ ProductOf \in [Systems -> Products \cup {NoParty}]
    /\ CatalogueVendorOf \in [Products -> Vendors]
    /\ NoParty \notin Parties
    /\ VendorAtFirst \in [Systems -> Vendors \cup {NoParty}]
    /\ \A s \in Systems : ProductOf[s] # NoParty =>
          VendorAtFirst[s] = CatalogueVendorOf[ProductOf[s]]
    /\ MetAtRegistration \in [UseCases -> SUBSET (OwnGates \ {"PENDING_AUTHORISATION"})]
    /\ ClearedAtFirst \subseteq Parties
    /\ MaxChanges \in Nat

VARIABLES
    position,   \* use_case.state, or UNREGISTERED
    met,        \* the gates of its own a use case passes
    vendor,     \* system.catalogue_vendor_id
    clearance,  \* the tenant's clearance of a party
    missed,     \* use cases nobody will re-evaluate unasked (history)
    changes,    \* decisions, lapses, relinks and crashes so far
    request     \* what each worker's request is at

clearanceVars == <<position, met, vendor, clearance, missed, changes, request>>

Places == (LifecycleStates \ {"REQUESTED"}) \cup {"UNREGISTERED"}

\* LAPSED: APPROVED with valid_until in the past.
Clearances == {"NOT_APPROVED", "APPROVED", "LAPSED"}

Registered == {u \in UseCases : position[u] # "UNREGISTERED"}

\* The use cases fan_out_vendor_approval or fan_out_product_approval selects.
LinkedTo(p) ==
    {u \in Registered : vendor[SystemOf[u]] = p \/ ProductOf[SystemOf[u]] = p}

-----------------------------------------------------------------------------
(***************************************************************************)
(* The gate vector of a use case whose own gates S pass.                   *)
(***************************************************************************)
clearance_verdict(p) ==
    IF p = NoParty THEN "advance"
    ELSE IF clearance[p] = "APPROVED" THEN "advance" ELSE "park"

VectorWith(u, S) ==
    [s \in VectorStates |->
        CASE s = "VENDOR_CHECK"  -> clearance_verdict(vendor[SystemOf[u]])
          [] s = "PRODUCT_CHECK" -> clearance_verdict(ProductOf[SystemOf[u]])
          [] OTHER               -> IF s \in S THEN "advance" ELSE "park"]

Vector(u) == VectorWith(u, met[u])

\* A use case in step is one that a re-evaluation leaves where it is.
InStep(u) == re_evaluate(position[u], Vector(u)) = Stay(position[u])

\* A held one waits for the next event; any other is ahead or behind.
OutOfStep(u) == u \in Registered /\ position[u] # "HELD" /\ ~InStep(u)

-----------------------------------------------------------------------------
(***************************************************************************)
(* A request: the decision and the use cases its fan-out still owes a      *)
(* re-evaluation, and the transaction that is open.  scoped is the         *)
(* transaction-local tenant setting, without which a query sees no row.    *)
(***************************************************************************)
NoTransaction == [op |-> "none", uc |-> "none", from |-> "UNREGISTERED",
                  gain |-> {}, vec |-> [s \in VectorStates |-> "park"],
                  move |-> Stay("REQUESTED")]

Free == [phase |-> "idle", party |-> NoParty, todo |-> {}, scoped |-> TRUE,
         tx |-> NoTransaction]

Ops == {"register", "re_evaluate", "fan_out", "pass_gate", "authorise"}

Transactions ==
    {NoTransaction} \cup
    [op : Ops, uc : UseCases, from : Places, gain : SUBSET OwnGates,
     vec : Vectors, move : Moves]

Requests == [phase : {"idle", "decided", "fan_out", "evaluated"},
             party : Parties \cup {NoParty}, todo : SUBSET UseCases,
             scoped : BOOLEAN, tx : Transactions]

ClearanceInit ==
    /\ position = [u \in UseCases |-> "UNREGISTERED"]
    /\ met = [u \in UseCases |-> {}]
    /\ vendor = VendorAtFirst
    /\ clearance = [p \in Parties |->
                       IF p \in ClearedAtFirst THEN "APPROVED" ELSE "NOT_APPROVED"]
    /\ missed = {}
    /\ changes = 0
    /\ request = [w \in Workers |-> Free]

Change == changes < MaxChanges /\ changes' = changes + 1

Idle(w) == request[w].phase = "idle"

\* The use cases a request is going to re-evaluate.
Due(w) ==
    IF request[w].phase = "decided" THEN LinkedTo(request[w].party)
    ELSE request[w].todo

-----------------------------------------------------------------------------
(***************************************************************************)
(* set_vendor_approval and set_product_approval: one row is written and    *)
(* committed.  The commit ends the tenant setting; it is made again.       *)
(***************************************************************************)
Committed(r) == [r EXCEPT !.scoped = FALSE]

\* Bug: the setting is not made again after the commit in mid-request.
LeavesSettingLost(r) == r

set_tenant_context(r) == [r EXCEPT !.scoped = TRUE]

set_approval(w) ==
    /\ Idle(w)
    /\ \E p \in Parties, status \in {"APPROVED", "NOT_APPROVED"} :
          /\ clearance' = [clearance EXCEPT ![p] = status]
          /\ request' = [request EXCEPT ![w] =
                set_tenant_context(Committed([@ EXCEPT !.phase = "decided", !.party = p]))]
    /\ Change
    /\ UNCHANGED <<position, met, vendor, missed>>

\* fan_out_vendor_approval, fan_out_product_approval: the ids are selected.
FanOutOver(w, S) ==
    request' = [request EXCEPT ![w] =
                  IF S = {} THEN Free ELSE [Free EXCEPT !.phase = "fan_out", !.todo = S]]

enumerate(w) ==
    /\ request[w].phase = "decided"
    /\ FanOutOver(w, IF request[w].scoped THEN LinkedTo(request[w].party) ELSE {})
    /\ UNCHANGED <<position, met, vendor, clearance, missed, changes>>

-----------------------------------------------------------------------------
(***************************************************************************)
(* Evaluations.  Each transaction holds the state and the vector it read   *)
(* and the engine's move.                                                  *)
(***************************************************************************)
Evaluated(w, op, u, gain, move) ==
    /\ request' = [request EXCEPT ![w] = [@ EXCEPT !.phase = "evaluated", !.tx =
          [op |-> op, uc |-> u, from |-> position[u], gain |-> gain,
           vec |-> VectorWith(u, met[u] \cup gain), move |-> move]]]
    /\ UNCHANGED <<position, met, vendor, clearance, missed, changes>>

\* Bug: the fan-out only advances; what a withdrawal leaves ahead stays there.
FanOutMoveAdvancing(u) == advance_use_case(position[u], Vector(u))

\* The move of one turn of _fan_out's loop.
fan_out_move(u) == re_evaluate(position[u], Vector(u))

fan_out(w) ==
    /\ request[w].phase = "fan_out"
    /\ \E u \in request[w].todo : Evaluated(w, "fan_out", u, {}, fan_out_move(u))

\* Bug: the lever never restores a held use case.
LeverMoveAdvancing(u) == advance_use_case(position[u], Vector(u))

lever_move(u) == re_evaluate(position[u], Vector(u))

\* The manual lever on one use case.
post_re_evaluate(w, u) ==
    /\ Idle(w) /\ u \in Registered
    /\ Evaluated(w, "re_evaluate", u, {}, lever_move(u))

\* Bug: the new row stays where it is inserted.
RegisterMoveStaying(u) == [event |-> "advance", to |-> "REQUESTED"]

register_move(u) == advance_use_case("REQUESTED", VectorWith(u, MetAtRegistration[u]))

\* A registration: the row appears at its commit, where the walk left it.
register(w) ==
    /\ Idle(w)
    /\ \E u \in UseCases \ Registered :
          Evaluated(w, "register", u, MetAtRegistration[u], register_move(u))

\* A request of another service satisfies a gate and drives the lifecycle.
pass_gate(w) ==
    /\ Idle(w)
    /\ \E u \in Registered :
       \E g \in OwnGates \ (met[u] \cup {"PENDING_AUTHORISATION"}) :
          Evaluated(w, "pass_gate", u, {g},
                    advance_use_case(position[u], VectorWith(u, met[u] \cup {g})))

\* authorise_use_case requires every gate before the ceiling.
authorise(w) ==
    /\ Idle(w)
    /\ \E u \in Registered :
          /\ position[u] = "PENDING_AUTHORISATION"
          /\ Blocked(Vector(u)) \subseteq {"PENDING_AUTHORISATION"}
          /\ Evaluated(w, "authorise", u, {"PENDING_AUTHORISATION"},
                       [event |-> "authorise", to |-> "AUTHORISED"])

-----------------------------------------------------------------------------
(***************************************************************************)
(* Ends of a transaction.                                                  *)
(***************************************************************************)
HasMove(t) == t.move.event # "none"

\* What the transaction read is no longer what is there.
Stale(t) ==
    \/ position[t.uc] # t.from
    \/ t.vec # VectorWith(t.uc, met[t.uc] \cup t.gain)

\* A stale write is followed by no event; a re-evaluation on what is there
\* makes up for everything missed before.
MissedAfter(t) ==
    IF Stale(t) THEN IF HasMove(t) \/ t.gain # {} THEN missed \cup {t.uc} ELSE missed
    ELSE IF t.op \in {"re_evaluate", "fan_out"} THEN missed \ {t.uc}
    ELSE missed

\* A request goes on with the rest of its fan-out.
Continue(w) == FanOutOver(w, request[w].todo \ {request[w].tx.uc})

Commit(w) ==
    LET t == request[w].tx IN
    /\ request[w].phase = "evaluated"
    /\ HasMove(t) => position[t.uc] = t.from
    /\ position' = IF HasMove(t) THEN [position EXCEPT ![t.uc] = t.move.to] ELSE position
    /\ met' = [met EXCEPT ![t.uc] = @ \cup t.gain]
    /\ missed' = MissedAfter(t)
    /\ Continue(w)
    /\ UNCHANGED <<vendor, clearance, changes>>

\* The UPDATE finds another state: 409, and a fan-out stops where it is.
Conflict(w) ==
    LET t == request[w].tx IN
    /\ request[w].phase = "evaluated"
    /\ HasMove(t) /\ position[t.uc] # t.from
    /\ missed' = missed \cup request[w].todo
    /\ request' = [request EXCEPT ![w] = Free]
    /\ UNCHANGED <<position, met, vendor, clearance, changes>>

\* The process ends: the transaction rolls back, the fan-out is forgotten.
Crash(w) ==
    /\ ~Idle(w)
    /\ Change
    /\ missed' = missed \cup Due(w)
    /\ request' = [request EXCEPT ![w] = Free]
    /\ UNCHANGED <<position, met, vendor, clearance>>

-----------------------------------------------------------------------------
(***************************************************************************)
(* What no event follows.                                                  *)
(***************************************************************************)
\* valid_until passes.
Lapse(p) ==
    /\ clearance[p] = "APPROVED"
    /\ Change
    /\ clearance' = [clearance EXCEPT ![p] = "LAPSED"]
    /\ missed' = missed \cup LinkedTo(p)
    /\ UNCHANGED <<position, met, vendor, request>>

\* update_system with a vendor and no new product.  A product never changes:
\* a system has a use case from its registration on.
update_system(s, v) ==
    /\ Change
    /\ \E u \in Registered : SystemOf[u] = s
    /\ vendor' = [vendor EXCEPT ![s] = v]
    /\ missed' = missed \cup {u \in Registered : SystemOf[u] = s}
    /\ UNCHANGED <<position, met, clearance, request>>

-----------------------------------------------------------------------------
\* What the server does of itself once a request has come in.
Progress(w) == enumerate(w) \/ fan_out(w) \/ Commit(w) \/ Conflict(w)

ClearanceNext ==
    \/ \E w \in Workers :
          \/ Progress(w) \/ set_approval(w) \/ register(w)
          \/ \E u \in UseCases : post_re_evaluate(w, u)
          \/ pass_gate(w) \/ authorise(w) \/ Crash(w)
    \/ \E p \in Parties : Lapse(p)
    \/ \E s \in Systems, v \in Vendors : update_system(s, v)

ClearanceSpec ==
    ClearanceInit /\ [][ClearanceNext]_clearanceVars
    /\ \A w \in Workers : WF_clearanceVars(Progress(w))

-----------------------------------------------------------------------------
(***************************************************************************)
(* The read model of the clearance queue: the vendors it shows and, under  *)
(* a vendor, the products.                                                 *)
(***************************************************************************)
ParkedAt(s) == {u \in Registered : position[u] = s}

in_queue_vendors == {vendor[SystemOf[u]] : u \in ParkedAt("VENDOR_CHECK")} \ {NoParty}
in_queue_products == {ProductOf[SystemOf[u]] : u \in ParkedAt("PRODUCT_CHECK")} \ {NoParty}

\* Bug: a vendor is shown for its own use cases only.
VendorsWithOwnParked == in_queue_vendors

vendor_ids_to_show ==
    in_queue_vendors \cup {CatalogueVendorOf[p] : p \in in_queue_products}

products_shown(v) ==
    {p \in Products : /\ \E u \in Registered : ProductOf[SystemOf[u]] = p
                      /\ CatalogueVendorOf[p] = v
                      /\ v \in in_queue_vendors \/ p \in in_queue_products}

-----------------------------------------------------------------------------
(***************************************************************************)
(* Properties.                                                             *)
(***************************************************************************)
\* Types of the rows and of the requests.
ClearanceTypeOK ==
    /\ position \in [UseCases -> Places]
    /\ met \in [UseCases -> SUBSET OwnGates]
    /\ vendor \in [Systems -> Vendors \cup {NoParty}]
    /\ clearance \in [Parties -> Clearances]
    /\ missed \subseteq Registered
    /\ changes \in 0 .. MaxChanges
    /\ request \in [Workers -> Requests]

(***************************************************************************)
(* A use case ahead of or behind its gates is owed a re-evaluation by a    *)
(* running fan-out, or it is one of those the code knowingly leaves to the *)
(* manual lever: a fan-out that stopped before it, a write that had read   *)
(* the gates before they changed, a lapse, or a relinked system.           *)
(***************************************************************************)
StaleIsKnown ==
    \A u \in UseCases : OutOfStep(u) =>
        u \in missed \/ \E w \in Workers : u \in Due(w)

(***************************************************************************)
(* What a decision puts out of step the server puts right by itself, or it *)
(* becomes one of the known exceptions: nothing stays out of step only     *)
(* because a running fan-out never comes to it.                            *)
(***************************************************************************)
FanOutCatchesUp ==
    \A u \in UseCases :
        (OutOfStep(u) /\ u \notin missed) ~> (~OutOfStep(u) \/ u \in missed)

(***************************************************************************)
(* The lever mends everything: if somebody pulls it again and again on     *)
(* every use case it can move, then once changes cease every use case      *)
(* comes to rest at the gate that blocks it, and none stays held.          *)
(***************************************************************************)
LeverIsPulled ==
    \A u \in UseCases :
        SF_clearanceVars(/\ u \in Registered /\ ~InStep(u)
                         /\ \E w \in Workers : post_re_evaluate(w, u))

LeverMends == LeverIsPulled => <>[](\A u \in Registered : InStep(u))

(***************************************************************************)
(* Whoever clears vendors and products from the queue misses nobody: a     *)
(* use case that waits for its vendor or its product has that party on     *)
(* show, the product under the vendor it belongs to in the catalogue.      *)
(***************************************************************************)
QueueShowsTheParked ==
    \A u \in Registered :
        LET s == SystemOf[u] IN
        /\ position[u] = "VENDOR_CHECK" => vendor[s] \in vendor_ids_to_show
        /\ position[u] = "PRODUCT_CHECK" =>
              \E v \in vendor_ids_to_show : ProductOf[s] \in products_shown(v)
=============================================================================
