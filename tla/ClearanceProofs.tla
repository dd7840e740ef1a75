-------------------------- MODULE ClearanceProofs --------------------------
(***************************************************************************)
(* Proofs about Clearance, for any number of requests, use cases, systems, *)
(* vendors and products, any links between them and any number of changes. *)
(*                                                                         *)
(* StaleIsKnown is not inductive: a fan-out that has evaluated a use case  *)
(* and found nothing to do still lists it, although it will not move it    *)
(* any more.  Owed is what a request will still do; the invariant says     *)
(* that a use case out of step is missed or owed by somebody.              *)
(***************************************************************************)
EXTENDS Clearance, ReEvaluation, LifecycleEngineProofs

USE ClearanceAssumption

Live == LifecycleStates \ {"REQUESTED"}

OpenTransactions ==
    [op : Ops, uc : UseCases, from : Places, gain : SUBSET OwnGates,
     vec : Vectors, move : Moves]

\* The moves are the engine's, on the vector that was read.
EngineMoved(t) ==
    /\ t \in OpenTransactions /\ Quiet(t.vec)
    /\ t.op = "register" =>
          /\ t.from = "UNREGISTERED"
          /\ t.move = [event |-> "advance", to |-> target_from_vector(t.vec)]
    /\ t.op # "register" => t.from \in Live
    /\ t.op \in {"re_evaluate", "fan_out"} =>
          t.gain = {} /\ t.move = re_evaluate(t.from, t.vec)
    /\ t.op = "pass_gate" => t.move = advance_use_case(t.from, t.vec)
    /\ t.op = "authorise" =>
          Blocked(t.vec) = {} /\ t.move = [event |-> "authorise", to |-> "AUTHORISED"]

RequestInv(w) ==
    LET r == request[w] IN
    /\ r.scoped /\ r.todo \subseteq Registered
    /\ r.phase = "idle" => r.todo = {}
    /\ r.phase = "evaluated" =>
          /\ EngineMoved(r.tx)
          /\ r.tx.op # "register" => r.tx.uc \in Registered
          /\ r.tx.op # "fan_out" => r.todo = {}

Owed(w) ==
    IF request[w].phase = "evaluated" /\ ~HasMove(request[w].tx)
    THEN request[w].todo \ {request[w].tx.uc}
    ELSE Due(w)

StaleIsOwed ==
    \A u \in UseCases : OutOfStep(u) =>
        u \in missed \/ \E w \in Workers : u \in Owed(w)

UnregisteredHasNothing == \A u \in UseCases \ Registered : met[u] = {}

ClearanceInv ==
    /\ ClearanceTypeOK /\ UnregisteredHasNothing
    /\ \A w \in Workers : RequestInv(w)
    /\ StaleIsOwed

-----------------------------------------------------------------------------
(***************************************************************************)
(* Vectors.  No clearance halts anything, and the more gates pass the      *)
(* fewer block.                                                            *)
(***************************************************************************)
LEMMA VectorsAreQuiet ==
    ASSUME NEW u \in UseCases, NEW S
    PROVE  VectorWith(u, S) \in Vectors /\ Quiet(VectorWith(u, S))
<1>1. \A p : clearance_verdict(p) \in {"advance", "park"} BY DEF clearance_verdict
<1>2. VectorWith(u, S) \in Vectors
  BY <1>1 DEF VectorWith, Vectors, Verdicts
<1>3. VectorWith(u, S)["INTAKE"] \in {"advance", "park"}
  BY <1>1 DEF VectorWith, VectorStates, GuardedStates
<1> QED BY <1>2, <1>3 DEF Quiet

LEMMA MorePassFewerBlock ==
    ASSUME NEW u \in UseCases, NEW S, NEW T
    PROVE  Blocked(VectorWith(u, S \cup T)) \subseteq Blocked(VectorWith(u, S))
BY DEF Blocked, VectorWith

\* Where a position's type comes from.
LEMMA MovesLeadToPlaces ==
    ASSUME NEW t, EngineMoved(t), HasMove(t)
    PROVE  t.move.to \in Places \ {"UNREGISTERED"}
<1>1. t \in OpenTransactions BY DEF EngineMoved
<1>2. CASE t.op = "register"
  BY <1>1, <1>2, TargetIsFirst
  DEF EngineMoved, OpenTransactions, Places, LifecycleStates, VectorStates, GuardedStates
<1>3. CASE t.op \in {"re_evaluate", "fan_out"}
  <2>1. LegalMove(t.from, t.move)
    BY <1>1, <1>3, ReEvaluateIsLegal DEF EngineMoved, OpenTransactions, Live
  <2> QED BY <1>1, <2>1
      DEF LegalMove, HasMove, Places, LifecycleStates, VectorStates, GuardedStates
<1>4. CASE t.op = "pass_gate"
  <2>1. LegalMove(t.from, t.move)
    BY <1>1, <1>4, AdvanceIsLegal DEF EngineMoved, OpenTransactions, Live
  <2> QED BY <1>1, <2>1
      DEF LegalMove, HasMove, Places, LifecycleStates, VectorStates, GuardedStates
<1>5. CASE t.op = "authorise"
  BY <1>5 DEF EngineMoved, Places, LifecycleStates, VectorStates, GuardedStates
<1> QED BY <1>1, <1>2, <1>3, <1>4, <1>5 DEF OpenTransactions, Ops

\* A step that leaves the rows alone leaves everybody in or out of step.
LEMMA RowsAside ==
    ASSUME UNCHANGED <<position, met, vendor, clearance>>
    PROVE  /\ Registered' = Registered
           /\ \A u : OutOfStep(u)' <=> OutOfStep(u)
           /\ \A p : LinkedTo(p)' = LinkedTo(p)
<1>1. Registered' = Registered BY DEF Registered
<1>2. ASSUME NEW p PROVE clearance_verdict(p)' = clearance_verdict(p)
  BY DEF clearance_verdict
<1>3. ASSUME NEW u PROVE Vector(u)' = Vector(u)
  BY DEF Vector, VectorWith, clearance_verdict
<1>4. ASSUME NEW u PROVE OutOfStep(u)' <=> OutOfStep(u)
  BY <1>1, <1>3 DEF OutOfStep, InStep
<1>5. ASSUME NEW p PROVE LinkedTo(p)' = LinkedTo(p)
  BY <1>1 DEF LinkedTo
<1> QED BY <1>1, <1>4, <1>5

LEMMA FreeIsTyped == Free \in Requests /\ Free.todo = {} /\ Free.scoped /\ Free.phase = "idle"
BY DEF Free, Requests, Transactions

-----------------------------------------------------------------------------
(***************************************************************************)
(* Evaluations.  The rows stay; a fan-out that finds a use case in step    *)
(* owes it nothing any more, and need not.                                 *)
(***************************************************************************)
TransactionOf(op, u, gain, move) ==
    [op |-> op, uc |-> u, from |-> position[u], gain |-> gain,
     vec |-> VectorWith(u, met[u] \cup gain), move |-> move]

LEMMA OpenTransactionsAre ==
    ASSUME NEW op \in Ops, NEW u \in UseCases, NEW from \in Places,
           NEW gain \in SUBSET OwnGates, NEW vec \in Vectors, NEW move \in Moves
    PROVE  [op |-> op, uc |-> u, from |-> from, gain |-> gain, vec |-> vec, move |-> move]
               \in OpenTransactions
BY DEF OpenTransactions

LEMMA EvaluatedKeeps ==
    ASSUME ClearanceInv, NEW w \in Workers, NEW op \in Ops, NEW u \in UseCases,
           NEW gain \in SUBSET OwnGates, NEW move,
           Evaluated(w, op, u, gain, move),
           EngineMoved(TransactionOf(op, u, gain, move)),
           op # "register" => u \in Registered,
           IF op = "fan_out" THEN request[w].phase = "fan_out" ELSE Idle(w)
    PROVE  ClearanceInv'
<1> DEFINE r == request[w]
           t == TransactionOf(op, u, gain, move)
           new == [r EXCEPT !.phase = "evaluated", !.tx = t]
<1>1. /\ UNCHANGED <<position, met, vendor, clearance, missed, changes>>
      /\ request' = [request EXCEPT ![w] = new]
  BY DEF Evaluated, TransactionOf
<1>2. /\ request \in [Workers -> Requests] /\ r \in Requests /\ RequestInv(w)
  BY DEF ClearanceInv, ClearanceTypeOK
<1>3. new \in Requests BY <1>2 DEF Requests, Transactions, EngineMoved, OpenTransactions
<1>4. /\ new.phase = "evaluated" /\ new.tx = t /\ new.todo = r.todo
      /\ new.scoped = r.scoped /\ new.party = r.party
  BY <1>2 DEF Requests
<1>5. \A x \in Workers : request'[x] = IF x = w THEN new ELSE request[x]
  BY <1>1, <1>2
<1>6. /\ Registered' = Registered
      /\ \A x : OutOfStep(x)' <=> OutOfStep(x)
      /\ \A p : LinkedTo(p)' = LinkedTo(p)
  BY <1>1, RowsAside
<1>7. ClearanceTypeOK'
  BY <1>1, <1>2, <1>3, <1>6 DEF ClearanceInv, ClearanceTypeOK
<1>8. t.op = op /\ t.uc = u /\ t.move = move BY DEF TransactionOf
<1>9. ASSUME NEW x \in Workers PROVE RequestInv(x)'
  <2>1. CASE x = w
    <3>1. r.todo \subseteq Registered /\ r.scoped BY <1>2 DEF RequestInv
    <3>2. op # "fan_out" => r.todo = {} BY <1>2 DEF RequestInv, Idle
    <3> HIDE DEF t, new
    <3>3. request'[w] = new BY <1>5
    <3>4. EngineMoved(t) BY DEF t
    <3> QED BY <1>4, <1>6, <1>8, <2>1, <3>1, <3>2, <3>3, <3>4 DEF RequestInv
  <2>2. CASE x # w
    <3>1. request'[x] = request[x] /\ RequestInv(x) BY <1>5, <2>2 DEF ClearanceInv
    <3> QED BY <1>6, <3>1 DEF RequestInv
  <2> QED BY <2>1, <2>2
<1>10. ASSUME NEW x \in Workers, x # w PROVE Owed(x)' = Owed(x)
  <2>1. request'[x] = request[x] BY <1>5, <1>10
  <2> QED BY <1>6, <2>1 DEF Owed, Due
<1>11. ASSUME NEW v \in Owed(w), v \notin Owed(w)' PROVE ~OutOfStep(v)
  <2>1. r.phase = "fan_out" /\ op = "fan_out" /\ Owed(w) = r.todo
    <3>1. CASE op = "fan_out" BY <3>1 DEF Owed, Due
    <3>2. CASE op # "fan_out"
      <4>1. Owed(w) = {} BY <1>2, <3>2 DEF Owed, Due, Idle, RequestInv
      <4> QED BY <1>11, <4>1
    <3> QED BY <3>1, <3>2
  <2>2. /\ Owed(w)' = IF HasMove(t) THEN r.todo ELSE r.todo \ {u}
    <3> HIDE DEF t, new
    <3>1. request'[w] = new BY <1>5
    <3> QED BY <1>4, <1>8, <3>1 DEF Owed, Due, HasMove
  <2>3. v = u /\ ~HasMove(t) BY <1>11, <2>1, <2>2
  <2>4. move = re_evaluate(position[u], Vector(u)) /\ position[u] \in Live
    <3>1. gain = {} BY <2>1 DEF EngineMoved, TransactionOf
    <3>2. met[u] \cup gain = met[u] BY <3>1
    <3> QED BY <2>1, <3>2 DEF EngineMoved, TransactionOf, Vector
  <2>5. move.event = "none" BY <1>8, <2>3 DEF HasMove
  <2>6. Vector(u) \in Vectors BY VectorsAreQuiet DEF Vector
  <2>7. position[u] = "HELD" \/ Settled(position[u], Vector(u))
    BY <2>4, <2>5, <2>6, OneReEvaluationSettles DEF After, Live
  <2> QED BY <2>3, <2>7 DEF OutOfStep, InStep, Settled
<1>12. StaleIsOwed'
  <2> SUFFICES ASSUME NEW v \in UseCases, OutOfStep(v)', v \notin missed'
               PROVE  \E x \in Workers : v \in Owed(x)'
      BY DEF StaleIsOwed
  <2>1. PICK x \in Workers : v \in Owed(x)
    BY <1>1, <1>6 DEF ClearanceInv, StaleIsOwed
  <2>2. CASE x = w BY <1>6, <1>11, <2>1, <2>2
  <2>3. CASE x # w BY <1>10, <2>1, <2>3
  <2> QED BY <2>2, <2>3
<1>13. UnregisteredHasNothing' BY <1>1, <1>6 DEF ClearanceInv, UnregisteredHasNothing
<1> QED BY <1>7, <1>9, <1>12, <1>13 DEF ClearanceInv

\* A registered use case has a place of its own.
LEMMA RegisteredIsLive ==
    ASSUME ClearanceInv, NEW u \in UseCases
    PROVE  position[u] \in Places /\ (u \in Registered => position[u] \in Live)
BY DEF ClearanceInv, ClearanceTypeOK, Registered, Places, Live, LifecycleStates,
       VectorStates, GuardedStates

LEMMA FanOutKeeps ==
    ASSUME ClearanceInv, NEW w \in Workers, fan_out(w)
    PROVE  ClearanceInv'
<1>1. /\ request[w].phase = "fan_out"
      /\ \E u \in request[w].todo : Evaluated(w, "fan_out", u, {}, fan_out_move(u))
  BY DEF fan_out
<1>2. PICK u \in request[w].todo : Evaluated(w, "fan_out", u, {}, fan_out_move(u)) BY <1>1
<1>3. u \in UseCases /\ u \in Registered
  BY DEF ClearanceInv, RequestInv, Registered
<1>4. position[u] \in Live /\ position[u] \in Places BY <1>3, RegisteredIsLive
<1>5. VectorWith(u, met[u] \cup {}) \in Vectors /\ Quiet(VectorWith(u, met[u] \cup {}))
  BY <1>3, VectorsAreQuiet
<1>6. fan_out_move(u) = re_evaluate(position[u], VectorWith(u, met[u] \cup {}))
  <2>1. met[u] \cup {} = met[u] OBVIOUS
  <2> QED BY <2>1 DEF fan_out_move, Vector
<1>7. EngineMoved(TransactionOf("fan_out", u, {}, fan_out_move(u)))
  BY <1>3, <1>4, <1>5, <1>6, ReEvaluateIsLegal
  DEF EngineMoved, TransactionOf, OpenTransactions, Ops, Live
<1> QED BY <1>1, <1>2, <1>3, <1>7, EvaluatedKeeps DEF Ops

LEMMA LeverKeeps ==
    ASSUME ClearanceInv, NEW w \in Workers, NEW u \in UseCases, post_re_evaluate(w, u)
    PROVE  ClearanceInv'
<1>1. Idle(w) /\ u \in Registered /\ Evaluated(w, "re_evaluate", u, {}, lever_move(u))
  BY DEF post_re_evaluate
<1>2. position[u] \in Live /\ position[u] \in Places BY <1>1, RegisteredIsLive
<1>3. VectorWith(u, met[u] \cup {}) \in Vectors /\ Quiet(VectorWith(u, met[u] \cup {}))
  BY VectorsAreQuiet
<1>4. lever_move(u) = re_evaluate(position[u], VectorWith(u, met[u] \cup {}))
  <2>1. met[u] \cup {} = met[u] OBVIOUS
  <2> QED BY <2>1 DEF lever_move, Vector
<1>5. EngineMoved(TransactionOf("re_evaluate", u, {}, lever_move(u)))
  BY <1>2, <1>3, <1>4, ReEvaluateIsLegal
  DEF EngineMoved, TransactionOf, OpenTransactions, Ops, Live
<1> QED BY <1>1, <1>5, EvaluatedKeeps DEF Ops

LEMMA RegisterKeeps ==
    ASSUME ClearanceInv, NEW w \in Workers, register(w)
    PROVE  ClearanceInv'
<1>1. PICK u \in UseCases \ Registered :
          Idle(w) /\ Evaluated(w, "register", u, MetAtRegistration[u], register_move(u))
  BY DEF register
<1> DEFINE gain == MetAtRegistration[u]
<1>2. gain \in SUBSET OwnGates OBVIOUS
<1>3. position[u] = "UNREGISTERED" /\ met[u] \cup gain = gain
  BY DEF ClearanceInv, UnregisteredHasNothing, Registered
<1>4. VectorWith(u, gain) \in Vectors /\ Quiet(VectorWith(u, gain)) BY VectorsAreQuiet
<1>5. NothingBlockedBefore("REQUESTED", VectorWith(u, gain))
  BY DEF NothingBlockedBefore, Blocked, Rank, VectorStates, GuardedStates
<1>6. target_from_vector(VectorWith(u, gain)) \in VectorStates BY <1>4, TargetIsFirst
<1>7. register_move(u) =
          [event |-> "advance", to |-> target_from_vector(VectorWith(u, gain))]
  <2>1. "REQUESTED" # target_from_vector(VectorWith(u, gain))
    BY <1>6 DEF VectorStates, GuardedStates
  <2> QED BY <1>4, <1>5, <2>1, WalkReachesTarget DEF register_move
<1>8. EngineMoved(TransactionOf("register", u, gain, register_move(u)))
  <2> DEFINE v == VectorWith(u, gain)
             t == [op |-> "register", uc |-> u, from |-> "UNREGISTERED", gain |-> gain,
                   vec |-> v, move |-> [event |-> "advance", to |-> target_from_vector(v)]]
  <2>1. TransactionOf("register", u, gain, register_move(u)) = t
    BY <1>3, <1>7 DEF TransactionOf
  <2>2. [event |-> "advance", to |-> target_from_vector(v)] \in Moves
    BY <1>6 DEF Moves, Events, LifecycleStates
  <2>3. v \in Vectors /\ Quiet(v) BY <1>4
  <2>4. "register" \in Ops /\ "UNREGISTERED" \in Places BY DEF Ops, Places
  <2>5. t \in OpenTransactions
    <3> HIDE DEF v, gain
    <3> QED BY <1>2, <2>2, <2>3, <2>4, OpenTransactionsAre
  <2> HIDE DEF v, gain
  <2>6. EngineMoved(t) BY <2>3, <2>5 DEF EngineMoved
  <2> QED BY <2>1, <2>6
<1> QED BY <1>1, <1>2, <1>8, EvaluatedKeeps DEF Ops

LEMMA PassGateKeeps ==
    ASSUME ClearanceInv, NEW w \in Workers, pass_gate(w)
    PROVE  ClearanceInv'
<1>1. PICK u \in Registered, g \in OwnGates :
          /\ Idle(w)
          /\ Evaluated(w, "pass_gate", u, {g},
                       advance_use_case(position[u], VectorWith(u, met[u] \cup {g})))
  BY DEF pass_gate
<1> DEFINE v == VectorWith(u, met[u] \cup {g})
<1>2. u \in UseCases BY DEF Registered
<1>3. position[u] \in Live /\ position[u] \in Places BY <1>2, RegisteredIsLive
<1>4. v \in Vectors /\ Quiet(v) BY <1>2, VectorsAreQuiet
<1>5. EngineMoved(TransactionOf("pass_gate", u, {g}, advance_use_case(position[u], v)))
  <2> HIDE DEF v
  <2> DEFINE move == advance_use_case(position[u], v)
             t == [op |-> "pass_gate", uc |-> u, from |-> position[u], gain |-> {g},
                   vec |-> v, move |-> move]
  <2>1. move \in Moves BY <1>3, <1>4, AdvanceIsLegal DEF Live
  <2>2. TransactionOf("pass_gate", u, {g}, move) = t
    BY DEF TransactionOf, v
  <2>3. {g} \in SUBSET OwnGates /\ "pass_gate" \in Ops BY <1>1 DEF Ops
  <2>4. t \in OpenTransactions
    <3> HIDE DEF move
    <3> QED BY <1>2, <1>3, <1>4, <2>1, <2>3, OpenTransactionsAre
  <2> QED BY <1>3, <1>4, <2>2, <2>4 DEF EngineMoved
<1> QED BY <1>1, <1>2, <1>5, EvaluatedKeeps DEF Ops

LEMMA AuthoriseKeeps ==
    ASSUME ClearanceInv, NEW w \in Workers, authorise(w)
    PROVE  ClearanceInv'
<1> DEFINE ceiling == "PENDING_AUTHORISATION"
           move == [event |-> "authorise", to |-> "AUTHORISED"]
<1>1. PICK u \in Registered :
          /\ Idle(w) /\ position[u] = ceiling
          /\ Blocked(Vector(u)) \subseteq {ceiling}
          /\ Evaluated(w, "authorise", u, {ceiling}, move)
  BY DEF authorise
<1>2. u \in UseCases BY DEF Registered
<1>3. {ceiling} \in SUBSET OwnGates
  BY DEF OwnGates, VectorStates, ClearanceGates
<1>4. VectorWith(u, met[u] \cup {ceiling}) \in Vectors
      /\ Quiet(VectorWith(u, met[u] \cup {ceiling}))
  BY <1>2, VectorsAreQuiet
<1>5. Blocked(VectorWith(u, met[u] \cup {ceiling})) = {}
  <2>1. Blocked(VectorWith(u, met[u] \cup {ceiling})) \subseteq {ceiling}
    BY <1>1, <1>2, MorePassFewerBlock DEF Vector
  <2>2. ceiling \notin Blocked(VectorWith(u, met[u] \cup {ceiling}))
    BY DEF Blocked, VectorWith
  <2> QED BY <2>1, <2>2
<1>6. EngineMoved(TransactionOf("authorise", u, {ceiling}, move))
  BY <1>1, <1>2, <1>3, <1>4, <1>5
  DEF EngineMoved, TransactionOf, OpenTransactions, Ops, Places, Live, Moves, Events,
      LifecycleStates, VectorStates
<1> QED BY <1>1, <1>2, <1>3, <1>6, EvaluatedKeeps DEF Ops

-----------------------------------------------------------------------------
(***************************************************************************)
(* Commits.  What the transaction had read is still there, and then the    *)
(* engine's move settles the use case, unless it was out of step before    *)
(* and only a gate came to pass.                                           *)
(***************************************************************************)
LEMMA FreshCommitSettles ==
    ASSUME ClearanceInv, NEW w \in Workers, Commit(w),
           NEW t, t = request[w].tx, ~Stale(t),
           NEW u, u = t.uc
    PROVE  OutOfStep(u)' => t.op = "pass_gate" /\ OutOfStep(u)
<1>1. /\ EngineMoved(t) /\ t \in OpenTransactions
      /\ t.op # "register" => u \in Registered
  BY DEF ClearanceInv, RequestInv, Commit, EngineMoved
<1>2. /\ u \in UseCases /\ t.vec \in Vectors /\ t.gain \in SUBSET OwnGates /\ t.op \in Ops
  BY <1>1 DEF OpenTransactions
<1>3. /\ position' = IF HasMove(t) THEN [position EXCEPT ![u] = t.move.to] ELSE position
      /\ met' = [met EXCEPT ![u] = @ \cup t.gain]
      /\ UNCHANGED <<vendor, clearance>>
  BY DEF Commit
<1>4. /\ position \in [UseCases -> Places] /\ met \in [UseCases -> SUBSET OwnGates]
  BY DEF ClearanceInv, ClearanceTypeOK
<1>5. position[u] = t.from /\ t.vec = VectorWith(u, met[u] \cup t.gain) BY DEF Stale
<1>6. Vector(u)' = t.vec
  <2>1. met'[u] = met[u] \cup t.gain BY <1>2, <1>3, <1>4
  <2>2. ASSUME NEW p PROVE clearance_verdict(p)' = clearance_verdict(p)
    BY <1>3 DEF clearance_verdict
  <2>3. vendor' = vendor BY <1>3
  <2> QED BY <1>5, <2>1, <2>2, <2>3 DEF Vector, VectorWith
<1>7. position'[u] = After(t.from, t.move) BY <1>2, <1>3, <1>4, <1>5 DEF After, HasMove
<1>8. SUFFICES ASSUME OutOfStep(u)', ~(t.op = "pass_gate" /\ OutOfStep(u))
               PROVE  FALSE
  OBVIOUS
<1>9. position'[u] # "HELD" /\ ~Settled(position'[u], t.vec)
  BY <1>6, <1>8 DEF OutOfStep, InStep, Settled
<1>10. CASE t.op = "register"
  <2>1. position'[u] = target_from_vector(t.vec) BY <1>1, <1>7, <1>10 DEF EngineMoved, After
  <2> QED BY <1>1, <1>2, <1>9, <2>1, TargetIsFirst, SettledIsAtTarget DEF EngineMoved
<1>11. CASE t.op \in {"re_evaluate", "fan_out"}
  BY <1>1, <1>2, <1>7, <1>9, <1>11, OneReEvaluationSettles DEF EngineMoved, Live
<1>12. CASE t.op = "authorise"
  <2>1. position'[u] = "AUTHORISED" BY <1>1, <1>7, <1>12 DEF EngineMoved, After
  <2>2. Settled("AUTHORISED", t.vec)
    BY <1>1, <1>12 DEF EngineMoved, Settled, re_evaluate, TerminalStates, Halts, Quiet, KeepOrHold
  <2> QED BY <1>9, <2>1, <2>2
<1>13. CASE t.op = "pass_gate"
  <2>1. /\ u \in Registered /\ t.from \in Live
        /\ t.move = advance_use_case(t.from, t.vec) /\ Quiet(t.vec)
    BY <1>1, <1>13 DEF EngineMoved
  <2>2. t.from = "HELD" \/ Settled(t.from, Vector(u))
    BY <1>5, <1>8, <1>13, <2>1 DEF OutOfStep, InStep, Settled
  <2>3. Vector(u) \in Vectors /\ Quiet(Vector(u)) BY <1>2, VectorsAreQuiet DEF Vector
  <2>4. Blocked(t.vec) \subseteq Blocked(Vector(u))
    BY <1>2, <1>5, MorePassFewerBlock DEF Vector
  <2> QED BY <1>2, <1>7, <1>9, <2>1, <2>2, <2>3, <2>4, AdvanceSettles DEF Live
<1> QED BY <1>2, <1>10, <1>11, <1>12, <1>13 DEF Ops

\* What goes on after a transaction is the rest of its request's fan-out.
LEMMA RestOfFanOut ==
    ASSUME ClearanceInv, NEW w \in Workers, NEW S \in SUBSET UseCases, FanOutOver(w, S)
    PROVE  /\ request' \in [Workers -> Requests]
           /\ \A x \in Workers \ {w} : request'[x] = request[x]
           /\ Owed(w)' = S /\ Due(w)' = S
           /\ request'[w].phase \in {"idle", "fan_out"} /\ request'[w].todo = S
           /\ request'[w].scoped /\ (request'[w].phase = "idle" => S = {})
<1> DEFINE rest == IF S = {} THEN Free ELSE [Free EXCEPT !.phase = "fan_out", !.todo = S]
<1>1. request \in [Workers -> Requests] BY DEF ClearanceInv, ClearanceTypeOK
<1>2. request' = [request EXCEPT ![w] = rest] BY DEF FanOutOver
<1>3. /\ rest \in Requests /\ rest.todo = S /\ rest.scoped
      /\ rest.phase \in {"idle", "fan_out"} /\ (rest.phase = "idle" => S = {})
  BY FreeIsTyped DEF Free, Requests, Transactions
<1> HIDE DEF rest
<1>4. request'[w] = rest /\ \A x \in Workers \ {w} : request'[x] = request[x]
  BY <1>1, <1>2
<1>5. request' \in [Workers -> Requests] BY <1>1, <1>2, <1>3
<1>6. Owed(w)' = S /\ Due(w)' = S BY <1>3, <1>4 DEF Owed, Due
<1> QED BY <1>3, <1>4, <1>5, <1>6

\* A request that a step leaves alone still does what it owed, and more.
LEMMA OthersOweOn ==
    ASSUME ClearanceInv, NEW x \in Workers, request'[x] = request[x],
           Registered \subseteq Registered', UNCHANGED vendor
    PROVE  RequestInv(x)' /\ Owed(x) \subseteq Owed(x)' /\ Due(x) \subseteq Due(x)'
<1>1. RequestInv(x) BY DEF ClearanceInv
<1>2. RequestInv(x)' BY <1>1 DEF RequestInv
<1>3. \A p : LinkedTo(p) \subseteq LinkedTo(p)' BY DEF LinkedTo
<1>4. Due(x) \subseteq Due(x)' BY <1>3 DEF Due
<1>5. Owed(x) \subseteq Owed(x)' BY <1>4 DEF Owed
<1> QED BY <1>2, <1>4, <1>5

LEMMA CommitKeeps ==
    ASSUME ClearanceInv, NEW w \in Workers, Commit(w)
    PROVE  ClearanceInv'
<1>t. PICK t \in {request[w].tx} : TRUE OBVIOUS
<1>u. PICK u \in {t.uc} : TRUE OBVIOUS
<1>s. PICK todo \in {request[w].todo} : TRUE OBVIOUS
<1>1. /\ EngineMoved(t) /\ t \in OpenTransactions /\ request[w].phase = "evaluated"
      /\ t.op # "register" => u \in Registered
      /\ t.op # "fan_out" => todo = {}
      /\ todo \subseteq Registered
  <2>1. RequestInv(w) /\ request[w].phase = "evaluated" BY DEF ClearanceInv, Commit
  <2>2. /\ request[w].todo \subseteq Registered /\ EngineMoved(request[w].tx)
        /\ request[w].tx.op # "register" => request[w].tx.uc \in Registered
        /\ request[w].tx.op # "fan_out" => request[w].todo = {}
    BY <2>1 DEF RequestInv
  <2> QED BY <2>1, <2>2, <1>t, <1>u, <1>s DEF EngineMoved
<1>2. /\ u \in UseCases /\ t.gain \in SUBSET OwnGates /\ t.move \in Moves
  BY <1>1 DEF OpenTransactions
<1>3. /\ HasMove(t) => position[u] = t.from
      /\ position' = IF HasMove(t) THEN [position EXCEPT ![u] = t.move.to] ELSE position
      /\ met' = [met EXCEPT ![u] = @ \cup t.gain]
      /\ missed' = MissedAfter(t) /\ FanOutOver(w, todo \ {u})
      /\ UNCHANGED <<vendor, clearance, changes>>
  BY DEF Commit, Continue
<1>4. /\ position \in [UseCases -> Places] /\ met \in [UseCases -> SUBSET OwnGates]
      /\ missed \subseteq Registered
  BY DEF ClearanceInv, ClearanceTypeOK
<1>5. HasMove(t) => t.move.to \in Places \ {"UNREGISTERED"} BY <1>1, MovesLeadToPlaces
<1>6. /\ position' \in [UseCases -> Places] /\ met' \in [UseCases -> SUBSET OwnGates]
      /\ \A x \in UseCases \ {u} : position'[x] = position[x] /\ met'[x] = met[x]
      /\ position'[u] = IF HasMove(t) THEN t.move.to ELSE position[u]
      /\ met'[u] = met[u] \cup t.gain
  BY <1>2, <1>3, <1>4, <1>5
<1>7. Registered \subseteq Registered' /\ Registered' \subseteq Registered \cup {u}
  BY <1>5, <1>6 DEF Registered
<1>8. t.op = "register" => HasMove(t) BY <1>1 DEF EngineMoved, HasMove
<1>9. u \in Registered' BY <1>1, <1>2, <1>5, <1>6, <1>7, <1>8 DEF Registered
<1>10. PICK rest \in SUBSET UseCases : rest = todo \ {u} BY <1>1 DEF Registered
<1>11. /\ request' \in [Workers -> Requests]
       /\ \A x \in Workers \ {w} : request'[x] = request[x]
       /\ Owed(w)' = rest /\ request'[w].todo = rest
       /\ request'[w].phase \in {"idle", "fan_out"}
       /\ request'[w].scoped /\ (request'[w].phase = "idle" => rest = {})
  <2>1. FanOutOver(w, rest) BY <1>3, <1>10
  <2> QED BY <2>1, RestOfFanOut
<1>12. missed \ {u} \subseteq missed' /\ missed' \subseteq missed \cup {u}
  BY <1>3 DEF MissedAfter
<1>13. ClearanceTypeOK'
  BY <1>3, <1>4, <1>6, <1>7, <1>9, <1>11, <1>12 DEF ClearanceInv, ClearanceTypeOK
<1>14. UnregisteredHasNothing'
  BY <1>6, <1>7, <1>9 DEF ClearanceInv, UnregisteredHasNothing, Registered
<1>15. ASSUME NEW x \in Workers PROVE RequestInv(x)'
  <2>1. CASE x = w BY <1>1, <1>7, <1>10, <1>11, <2>1 DEF RequestInv
  <2>2. CASE x # w BY <1>3, <1>7, <1>11, <2>2, OthersOweOn
  <2> QED BY <2>1, <2>2
<1>16. ASSUME NEW v \in UseCases, v # u, OutOfStep(v)' PROVE OutOfStep(v)
  <2>1. Vector(v)' = Vector(v)
    BY <1>3, <1>6, <1>16 DEF Vector, VectorWith, clearance_verdict
  <2>2. position'[v] = position[v] BY <1>6, <1>16
  <2> QED BY <1>16, <2>1, <2>2 DEF OutOfStep, InStep, Registered
<1>17. ASSUME NEW v \in UseCases, OutOfStep(v), v \notin missed,
              v # u \/ ~HasMove(t) \/ t.op = "pass_gate"
       PROVE  \E x \in Workers : v \in Owed(x)'
  <2>1. PICK x \in Workers : v \in Owed(x) BY <1>17 DEF ClearanceInv, StaleIsOwed
  <2>2. CASE x # w BY <1>3, <1>7, <1>11, <2>1, <2>2, OthersOweOn
  <2>3. CASE x = w
    <3>1. v \in todo /\ (v = u => HasMove(t)) BY <1>1, <2>1, <2>3 DEF Owed, Due
    <3>2. v # u BY <1>1, <1>17, <3>1
    <3> QED BY <1>10, <1>11, <3>1, <3>2
  <2> QED BY <2>2, <2>3
<1>18. StaleIsOwed'
  <2> SUFFICES ASSUME NEW v \in UseCases, OutOfStep(v)', v \notin missed'
               PROVE  \E x \in Workers : v \in Owed(x)'
      BY DEF StaleIsOwed
  <2>1. CASE v # u BY <1>12, <1>16, <1>17, <2>1
  <2>2. CASE v = u /\ ~Stale(t)
    <3>1. t.op = "pass_gate" /\ OutOfStep(u) BY <2>2, FreshCommitSettles
    <3>2. missed' = missed BY <1>3, <2>2, <3>1 DEF MissedAfter
    <3> QED BY <1>17, <2>2, <3>1, <3>2
  <2>3. CASE v = u /\ Stale(t)
    <3>1. ~HasMove(t) /\ t.gain = {} /\ missed' = missed
      BY <1>3, <2>3 DEF MissedAfter
    <3>2. position' = position /\ met'[u] = met[u] BY <1>3, <1>6, <3>1
    <3>3. Vector(u)' = Vector(u)
      BY <1>3, <3>2 DEF Vector, VectorWith, clearance_verdict
    <3>4. OutOfStep(u) BY <2>3, <3>2, <3>3 DEF OutOfStep, InStep, Registered
    <3> QED BY <1>17, <2>3, <3>1, <3>4
  <2> QED BY <2>1, <2>2, <2>3
<1> QED BY <1>13, <1>14, <1>15, <1>18 DEF ClearanceInv

-----------------------------------------------------------------------------
(***************************************************************************)
(* Decisions, lapses and relinked systems reach the use cases behind them  *)
(* and nobody else.                                                        *)
(***************************************************************************)
LEMMA OnlyLinkedAreReached ==
    ASSUME ClearanceInv, NEW p \in Parties, NEW status \in Clearances,
           clearance' = [clearance EXCEPT ![p] = status],
           UNCHANGED <<position, met, vendor>>,
           NEW v \in UseCases, v \notin LinkedTo(p), OutOfStep(v)'
    PROVE  OutOfStep(v)
<1>1. v \in Registered /\ position'[v] = position[v] BY DEF OutOfStep, Registered
<1>2. vendor[SystemOf[v]] # p /\ ProductOf[SystemOf[v]] # p BY <1>1 DEF LinkedTo
<1>3. /\ vendor[SystemOf[v]] \in Parties \cup {NoParty}
      /\ ProductOf[SystemOf[v]] \in Parties \cup {NoParty}
  BY DEF ClearanceInv, ClearanceTypeOK, Parties
<1>4. \A q \in Parties \ {p} : clearance'[q] = clearance[q]
  BY DEF ClearanceInv, ClearanceTypeOK
<1>5. ASSUME NEW q \in Parties \cup {NoParty}, q # p
      PROVE  clearance_verdict(q)' = clearance_verdict(q)
  BY <1>4, <1>5 DEF clearance_verdict
<1>6. /\ clearance_verdict(vendor[SystemOf[v]])' = clearance_verdict(vendor[SystemOf[v]])
      /\ clearance_verdict(ProductOf[SystemOf[v]])' = clearance_verdict(ProductOf[SystemOf[v]])
  BY <1>2, <1>3, <1>4 DEF clearance_verdict
<1>7. Vector(v)' = Vector(v) BY <1>6 DEF Vector, VectorWith
<1> QED BY <1>1, <1>7 DEF OutOfStep, InStep

LEMMA DecisionKeeps ==
    ASSUME ClearanceInv, NEW w \in Workers, set_approval(w)
    PROVE  ClearanceInv'
<1> DEFINE r == request[w]
           new(p) == [r EXCEPT !.phase = "decided", !.party = p, !.scoped = TRUE]
<1>1. r \in Requests /\ RequestInv(w) /\ r.phase = "idle"
  BY DEF ClearanceInv, ClearanceTypeOK, set_approval, Idle
<1>2. PICK p \in Parties, status \in {"APPROVED", "NOT_APPROVED"} :
          /\ clearance' = [clearance EXCEPT ![p] = status]
          /\ request' = [request EXCEPT ![w] = new(p)]
  <2>1. PICK p \in Parties, status \in {"APPROVED", "NOT_APPROVED"} :
            /\ clearance' = [clearance EXCEPT ![p] = status]
            /\ request' = [request EXCEPT ![w] =
                  set_tenant_context(Committed([@ EXCEPT !.phase = "decided", !.party = p]))]
    BY DEF set_approval
  <2>2. set_tenant_context(Committed([r EXCEPT !.phase = "decided", !.party = p])) = new(p)
    BY <1>1 DEF set_tenant_context, Committed, Requests
  <2>3. request' = [request EXCEPT ![w] = new(p)] BY <2>1, <2>2
  <2> QED BY <2>1, <2>3
<1>3. /\ UNCHANGED <<position, met, vendor, missed>> /\ changes' \in 0 .. MaxChanges
  BY DEF set_approval, Change, ClearanceInv, ClearanceTypeOK
<1>4. /\ new(p) \in Requests /\ new(p).phase = "decided" /\ new(p).party = p
      /\ new(p).scoped = TRUE /\ new(p).todo = r.todo
  BY <1>1 DEF Requests
<1>5. Registered' = Registered /\ LinkedTo(p)' = LinkedTo(p)
  BY <1>3 DEF Registered, LinkedTo
<1>6. request \in [Workers -> Requests] BY DEF ClearanceInv, ClearanceTypeOK
<1>7. request' \in [Workers -> Requests] /\ request'[w] = new(p)
      /\ \A x \in Workers \ {w} : request'[x] = request[x]
  BY <1>2, <1>4, <1>6
<1> HIDE DEF new
<1>8. clearance' \in [Parties -> Clearances] /\ status \in Clearances
  BY <1>2 DEF ClearanceInv, ClearanceTypeOK, Clearances
<1>9. ClearanceTypeOK' BY <1>3, <1>5, <1>7, <1>8 DEF ClearanceInv, ClearanceTypeOK
<1>10. UnregisteredHasNothing' BY <1>3, <1>5 DEF ClearanceInv, UnregisteredHasNothing
<1>11. r.todo = {} BY <1>1 DEF RequestInv
<1>12. ASSUME NEW x \in Workers PROVE RequestInv(x)'
  <2>1. CASE x = w BY <1>4, <1>7, <1>11, <2>1 DEF RequestInv
  <2>2. CASE x # w BY <1>3, <1>5, <1>7, <2>2, OthersOweOn
  <2> QED BY <2>1, <2>2
<1>13. Owed(w) = {} BY <1>1, <1>11 DEF Owed, Due
<1>14. Owed(w)' = LinkedTo(p) BY <1>4, <1>5, <1>7 DEF Owed, Due
<1>15. StaleIsOwed'
  <2> SUFFICES ASSUME NEW v \in UseCases, OutOfStep(v)', v \notin missed',
                      v \notin LinkedTo(p)
               PROVE  \E x \in Workers : v \in Owed(x)'
      BY <1>14 DEF StaleIsOwed
  <2>1. OutOfStep(v) BY <1>2, <1>3, <1>8, OnlyLinkedAreReached
  <2>2. PICK x \in Workers : v \in Owed(x)
    BY <1>3, <2>1 DEF ClearanceInv, StaleIsOwed
  <2>3. x # w BY <1>13, <2>2
  <2> QED BY <1>3, <1>5, <1>7, <2>2, <2>3, OthersOweOn
<1> QED BY <1>9, <1>10, <1>12, <1>15 DEF ClearanceInv

LEMMA EnumerateKeeps ==
    ASSUME ClearanceInv, NEW w \in Workers, enumerate(w)
    PROVE  ClearanceInv'
<1>1. /\ request[w].phase = "decided" /\ RequestInv(w) /\ request[w].scoped
      /\ UNCHANGED <<position, met, vendor, clearance, missed, changes>>
  BY DEF ClearanceInv, RequestInv, enumerate
<1>2. PICK S \in SUBSET UseCases : S = LinkedTo(request[w].party)
  BY DEF LinkedTo, Registered
<1>3. S \subseteq Registered BY <1>2 DEF LinkedTo
<1>4. FanOutOver(w, S) BY <1>1, <1>2 DEF enumerate
<1>5. /\ request' \in [Workers -> Requests]
      /\ \A x \in Workers \ {w} : request'[x] = request[x]
      /\ Owed(w)' = S /\ request'[w].todo = S
      /\ request'[w].phase \in {"idle", "fan_out"}
      /\ request'[w].scoped /\ (request'[w].phase = "idle" => S = {})
  BY <1>4, RestOfFanOut
<1>6. /\ Registered' = Registered
      /\ \A x : OutOfStep(x)' <=> OutOfStep(x)
  BY <1>1, RowsAside
<1>7. ClearanceTypeOK' BY <1>1, <1>5, <1>6 DEF ClearanceInv, ClearanceTypeOK
<1>8. UnregisteredHasNothing' BY <1>1, <1>6 DEF ClearanceInv, UnregisteredHasNothing
<1>9. ASSUME NEW x \in Workers PROVE RequestInv(x)' /\ Owed(x) \subseteq Owed(x)'
  <2>1. CASE x = w
    <3>1. RequestInv(w)' BY <1>3, <1>5, <1>6 DEF RequestInv
    <3>2. Owed(w) = S BY <1>1, <1>2 DEF Owed, Due
    <3> QED BY <1>5, <2>1, <3>1, <3>2
  <2>2. CASE x # w BY <1>1, <1>5, <1>6, <2>2, OthersOweOn
  <2> QED BY <2>1, <2>2
<1>10. StaleIsOwed' BY <1>1, <1>6, <1>9 DEF ClearanceInv, StaleIsOwed
<1> QED BY <1>7, <1>8, <1>9, <1>10 DEF ClearanceInv

\* A request that ends before its fan-out leaves what it owed as missed.
LEMMA ForgetKeeps ==
    ASSUME ClearanceInv, NEW w \in Workers, Conflict(w) \/ Crash(w)
    PROVE  ClearanceInv'
<1>1. /\ UNCHANGED <<position, met, vendor, clearance>> /\ changes' \in 0 .. MaxChanges
      /\ missed' = missed \cup Due(w) /\ request' = [request EXCEPT ![w] = Free]
  <2>1. CASE Conflict(w)
    <3>1. Due(w) = request[w].todo BY <2>1 DEF Conflict, Due
    <3> QED BY <2>1, <3>1 DEF Conflict, ClearanceInv, ClearanceTypeOK
  <2>2. CASE Crash(w) BY <2>2 DEF Crash, Change, ClearanceInv, ClearanceTypeOK
  <2> QED BY <2>1, <2>2
<1>2. Due(w) \subseteq Registered
  <2>1. request[w].todo \subseteq Registered BY DEF ClearanceInv, RequestInv
  <2> QED BY <2>1 DEF Due, LinkedTo
<1>3. /\ Registered' = Registered
      /\ \A x : OutOfStep(x)' <=> OutOfStep(x)
  BY <1>1, RowsAside
<1>4. request \in [Workers -> Requests] BY DEF ClearanceInv, ClearanceTypeOK
<1>5. request' \in [Workers -> Requests] /\ request'[w] = Free
      /\ \A x \in Workers \ {w} : request'[x] = request[x]
  BY <1>1, <1>4, FreeIsTyped
<1>6. ClearanceTypeOK' BY <1>1, <1>2, <1>3, <1>5 DEF ClearanceInv, ClearanceTypeOK
<1>7. UnregisteredHasNothing' BY <1>1, <1>3 DEF ClearanceInv, UnregisteredHasNothing
<1>8. ASSUME NEW x \in Workers PROVE RequestInv(x)'
  <2>1. CASE x = w BY <1>5, <2>1, FreeIsTyped DEF RequestInv
  <2>2. CASE x # w BY <1>1, <1>3, <1>5, <2>2, OthersOweOn
  <2> QED BY <2>1, <2>2
<1>9. StaleIsOwed'
  <2> SUFFICES ASSUME NEW v \in UseCases, OutOfStep(v)', v \notin missed'
               PROVE  \E x \in Workers : v \in Owed(x)'
      BY DEF StaleIsOwed
  <2>1. PICK x \in Workers : v \in Owed(x)
    BY <1>1, <1>3 DEF ClearanceInv, StaleIsOwed
  <2>2. Owed(w) \subseteq Due(w) BY DEF Owed, Due
  <2>3. x # w BY <1>1, <2>1, <2>2
  <2> QED BY <1>1, <1>3, <1>5, <2>1, <2>3, OthersOweOn
<1> QED BY <1>6, <1>7, <1>8, <1>9 DEF ClearanceInv

LEMMA LapseKeeps ==
    ASSUME ClearanceInv, NEW p \in Parties, Lapse(p)
    PROVE  ClearanceInv'
<1>1. /\ UNCHANGED <<position, met, vendor, request>> /\ changes' \in 0 .. MaxChanges
      /\ clearance' = [clearance EXCEPT ![p] = "LAPSED"]
      /\ missed' = missed \cup LinkedTo(p)
  BY DEF Lapse, Change, ClearanceInv, ClearanceTypeOK
<1>2. Registered' = Registered BY <1>1 DEF Registered
<1>3. clearance' \in [Parties -> Clearances] /\ "LAPSED" \in Clearances
  BY <1>1 DEF ClearanceInv, ClearanceTypeOK, Clearances
<1>4. ClearanceTypeOK'
  BY <1>1, <1>2, <1>3 DEF ClearanceInv, ClearanceTypeOK, LinkedTo
<1>5. UnregisteredHasNothing' BY <1>1, <1>2 DEF ClearanceInv, UnregisteredHasNothing
<1>6. \A x \in Workers : RequestInv(x)' /\ Owed(x) \subseteq Owed(x)'
  BY <1>1, <1>2, OthersOweOn
<1>7. StaleIsOwed'
  <2> SUFFICES ASSUME NEW v \in UseCases, OutOfStep(v)', v \notin missed'
               PROVE  \E x \in Workers : v \in Owed(x)'
      BY DEF StaleIsOwed
  <2>1. v \notin missed /\ v \notin LinkedTo(p) BY <1>1
  <2>2. OutOfStep(v) BY <1>1, <1>3, <2>1, OnlyLinkedAreReached
  <2> QED BY <1>6, <2>1, <2>2 DEF ClearanceInv, StaleIsOwed
<1> QED BY <1>4, <1>5, <1>6, <1>7 DEF ClearanceInv

LEMMA RelinkKeeps ==
    ASSUME ClearanceInv, NEW s \in Systems, NEW q \in Vendors, update_system(s, q)
    PROVE  ClearanceInv'
<1> DEFINE behind == {u \in Registered : SystemOf[u] = s}
<1>1. /\ UNCHANGED <<position, met, clearance, request>> /\ changes' \in 0 .. MaxChanges
      /\ vendor' = [vendor EXCEPT ![s] = q] /\ missed' = missed \cup behind
  BY DEF update_system, Change, ClearanceInv, ClearanceTypeOK
<1>2. Registered' = Registered BY <1>1 DEF Registered
<1>3. vendor \in [Systems -> Vendors \cup {NoParty}] BY DEF ClearanceInv, ClearanceTypeOK
<1>4. /\ vendor' \in [Systems -> Vendors \cup {NoParty}]
      /\ \A x \in Systems \ {s} : vendor'[x] = vendor[x]
  BY <1>1, <1>3
<1>5. ClearanceTypeOK' BY <1>1, <1>2, <1>4 DEF ClearanceInv, ClearanceTypeOK
<1>6. UnregisteredHasNothing' BY <1>1, <1>2 DEF ClearanceInv, UnregisteredHasNothing
<1>7. \A x \in Workers : RequestInv(x)' BY <1>1, <1>2 DEF ClearanceInv, RequestInv
<1>8. ASSUME NEW v \in UseCases, OutOfStep(v)', v \notin missed' PROVE OutOfStep(v)
  <2>1. v \in Registered /\ SystemOf[v] \in Systems \ {s} BY <1>1, <1>2, <1>8 DEF OutOfStep
  <2>2. Vector(v)' = Vector(v)
    BY <1>1, <1>4, <2>1 DEF Vector, VectorWith, clearance_verdict
  <2> QED BY <1>1, <1>8, <2>1, <2>2 DEF OutOfStep, InStep
<1>9. ASSUME NEW x \in Workers, NEW v \in UseCases, v \in Owed(x), v \notin missed'
      PROVE  v \in Owed(x)'
  <2>1. CASE request[x].phase = "decided"
    <3>1. v \in LinkedTo(request[x].party) BY <1>9, <2>1 DEF Owed, Due
    <3>2. v \in Registered /\ SystemOf[v] \in Systems \ {s} BY <1>1, <1>9, <3>1 DEF LinkedTo
    <3>3. v \in LinkedTo(request[x].party)' BY <1>1, <1>2, <1>4, <3>1, <3>2 DEF LinkedTo
    <3> QED BY <1>1, <2>1, <3>3 DEF Owed, Due
  <2>2. CASE request[x].phase # "decided" BY <1>1, <1>9, <2>2 DEF Owed, Due
  <2> QED BY <2>1, <2>2
<1>10. StaleIsOwed'
  <2> SUFFICES ASSUME NEW v \in UseCases, OutOfStep(v)', v \notin missed'
               PROVE  \E x \in Workers : v \in Owed(x)'
      BY DEF StaleIsOwed
  <2>1. OutOfStep(v) /\ v \notin missed BY <1>1, <1>8
  <2>2. PICK x \in Workers : v \in Owed(x) BY <2>1 DEF ClearanceInv, StaleIsOwed
  <2> QED BY <1>9, <2>2
<1> QED BY <1>5, <1>6, <1>7, <1>10 DEF ClearanceInv

-----------------------------------------------------------------------------
LEMMA ClearanceInitially == ClearanceInit => ClearanceInv
<1> SUFFICES ASSUME ClearanceInit PROVE ClearanceInv OBVIOUS
<1>1. Registered = {} BY DEF ClearanceInit, Registered
<1>2. /\ request = [w \in Workers |-> Free] /\ position = [u \in UseCases |-> "UNREGISTERED"]
      /\ met = [u \in UseCases |-> {}] /\ vendor = VendorAtFirst /\ missed = {} /\ changes = 0
      /\ clearance = [p \in Parties |->
                         IF p \in ClearedAtFirst THEN "APPROVED" ELSE "NOT_APPROVED"]
  BY DEF ClearanceInit
<1>3. ClearanceTypeOK BY <1>1, <1>2, FreeIsTyped DEF ClearanceTypeOK, Places, Clearances
<1>4. \A w \in Workers : RequestInv(w) BY <1>1, <1>2, FreeIsTyped DEF RequestInv
<1>5. StaleIsOwed BY <1>1 DEF StaleIsOwed, OutOfStep
<1> QED BY <1>2, <1>3, <1>4, <1>5 DEF ClearanceInv, UnregisteredHasNothing

LEMMA ClearanceKept == ClearanceInv /\ [ClearanceNext]_clearanceVars => ClearanceInv'
<1> SUFFICES ASSUME ClearanceInv, [ClearanceNext]_clearanceVars PROVE ClearanceInv' OBVIOUS
<1>1. ASSUME NEW w \in Workers, Progress(w) PROVE ClearanceInv'
  BY <1>1, EnumerateKeeps, FanOutKeeps, CommitKeeps, ForgetKeeps DEF Progress
<1>2. ASSUME NEW w \in Workers, set_approval(w) PROVE ClearanceInv' BY <1>2, DecisionKeeps
<1>3. ASSUME NEW w \in Workers, register(w) PROVE ClearanceInv' BY <1>3, RegisterKeeps
<1>4. ASSUME NEW w \in Workers, NEW u \in UseCases, post_re_evaluate(w, u)
      PROVE  ClearanceInv'
  BY <1>4, LeverKeeps
<1>5. ASSUME NEW w \in Workers, pass_gate(w) PROVE ClearanceInv' BY <1>5, PassGateKeeps
<1>6. ASSUME NEW w \in Workers, authorise(w) PROVE ClearanceInv' BY <1>6, AuthoriseKeeps
<1>7. ASSUME NEW w \in Workers, Crash(w) PROVE ClearanceInv' BY <1>7, ForgetKeeps
<1>8. ASSUME NEW p \in Parties, Lapse(p) PROVE ClearanceInv' BY <1>8, LapseKeeps
<1>9. ASSUME NEW s \in Systems, NEW v \in Vendors, update_system(s, v) PROVE ClearanceInv'
  BY <1>9, RelinkKeeps
<1>10. CASE UNCHANGED clearanceVars
  <2>1. /\ UNCHANGED <<position, met, vendor, clearance, missed, changes>>
        /\ UNCHANGED request
    BY <1>10 DEF clearanceVars
  <2>2. /\ Registered' = Registered
        /\ \A x : OutOfStep(x)' <=> OutOfStep(x)
    BY <2>1, RowsAside
  <2>3. \A x \in Workers : RequestInv(x)' /\ Owed(x) \subseteq Owed(x)'
    BY <2>1, <2>2, OthersOweOn
  <2> QED BY <2>1, <2>2, <2>3
      DEF ClearanceInv, ClearanceTypeOK, UnregisteredHasNothing, StaleIsOwed
<1> QED BY <1>1, <1>2, <1>3, <1>4, <1>5, <1>6, <1>7, <1>8, <1>9, <1>10 DEF ClearanceNext

\* The safety part of the specification is all the invariant needs.
THEOREM ClearanceInvAlways == ClearanceSpec => []ClearanceInv
BY ClearanceInitially, ClearanceKept, PTL DEF ClearanceSpec

\* Rows and requests keep their types, and only registered use cases are missed.
THEOREM ClearanceTypes == ClearanceSpec => []ClearanceTypeOK
<1>1. ClearanceInv => ClearanceTypeOK BY DEF ClearanceInv
<1> QED BY <1>1, ClearanceInvAlways, PTL

(***************************************************************************)
(* Every use case out of step with its gates is owed a re-evaluation by a  *)
(* running fan-out or is one of the known exceptions, for any portfolio    *)
(* and any number of overlapping decisions.                                *)
(***************************************************************************)
THEOREM StaleIsAlwaysKnown == ClearanceSpec => []StaleIsKnown
<1>1. ClearanceInv => StaleIsKnown
  <2>1. \A w \in Workers : Owed(w) \subseteq Due(w) BY DEF Owed, Due
  <2> QED BY <2>1 DEF ClearanceInv, StaleIsOwed, StaleIsKnown
<1> QED BY <1>1, ClearanceInvAlways, PTL

-----------------------------------------------------------------------------
(***************************************************************************)
(* The queue.  The engine moves a use case to a clearance gate only if     *)
(* that gate blocks it, and a gate without a party never blocks; a system  *)
(* with a vendor always keeps one.                                         *)
(***************************************************************************)
LEMMA ParkedIsBlocked ==
    ASSUME NEW t, EngineMoved(t), HasMove(t), t.move.to \in ClearanceGates
    PROVE  t.move.to \in Blocked(t.vec)
<1>1. t \in OpenTransactions /\ t.vec \in Vectors BY DEF EngineMoved, OpenTransactions
<1>2. ASSUME NEW v \in Vectors, target_from_vector(v) \in ClearanceGates
      PROVE  target_from_vector(v) \in Blocked(v)
  <2>1. target_from_vector(v) # "PENDING_AUTHORISATION" BY <1>2 DEF ClearanceGates
  <2> QED BY <2>1, TargetIsFirst
<1>3. ASSUME NEW v \in Vectors, NEW s \in LifecycleStates,
             advance_use_case(s, v).event # "none",
             advance_use_case(s, v).to \in ClearanceGates
      PROVE  advance_use_case(s, v).to \in Blocked(v)
  <2>1. ~Halts(s, v) BY <1>3 DEF advance_use_case, Halt, ClearanceGates
  <2>2. advance_use_case(s, v) = Walk(s, v) BY <2>1 DEF advance_use_case
  <2>3. /\ s \in GuardedStates \cup {"REQUESTED"}
        /\ advance_use_case(s, v) = [event |-> "advance", to |-> Earliest(Stops(s, v))]
    BY <1>3, <2>2 DEF Walk, Stay
  <2>4. Stops(s, v) \in SUBSET VectorStates BY DEF Stops
  <2>5. "PENDING_AUTHORISATION" \in Stops(s, v)
    BY <2>3 DEF Stops, VectorStates, GuardedStates, Rank
  <2>6. Earliest(Stops(s, v)) \in Stops(s, v) BY <2>4, <2>5, EarliestIsFirst
  <2> QED BY <1>3, <2>3, <2>6 DEF Stops, Blocked, ClearanceGates
<1>4. CASE t.op = "register" BY <1>1, <1>2, <1>4 DEF EngineMoved
<1>5. CASE t.op = "pass_gate"
  BY <1>1, <1>3, <1>5 DEF EngineMoved, HasMove, Live
<1>6. CASE t.op = "authorise" BY <1>6 DEF EngineMoved, ClearanceGates
<1>7. CASE t.op \in {"re_evaluate", "fan_out"}
  <2>1. t.move = re_evaluate(t.from, t.vec) /\ t.from \in Live
    BY <1>7 DEF EngineMoved
  <2>2. CASE t.move = Restore(t.vec)
    BY <1>1, <1>2, <2>2 DEF Restore
  <2>3. CASE t.move = advance_use_case(t.from, t.vec)
    BY <1>1, <1>3, <2>1, <2>3 DEF HasMove, Live
  <2>4. t.move # Hold /\ t.move # Halt /\ \A s : t.move # Stay(s)
    BY DEF Hold, Halt, Stay, HasMove, ClearanceGates
  <2> QED BY <2>1, <2>2, <2>3, <2>4 DEF re_evaluate, TowardsTarget, KeepOrHold
<1> QED BY <1>1, <1>4, <1>5, <1>6, <1>7 DEF OpenTransactions, Ops

HasParty(u, gate) ==
    /\ gate = "VENDOR_CHECK" => vendor[SystemOf[u]] # NoParty
    /\ gate = "PRODUCT_CHECK" => ProductOf[SystemOf[u]] # NoParty

\* The transaction of w is about to move u to g.
Heads(w, u, g) ==
    LET t == request[w].tx IN
    request[w].phase = "evaluated" /\ HasMove(t) /\ t.uc = u /\ t.move.to = g

ParkedHaveParty ==
    \A u \in UseCases, g \in ClearanceGates :
        position[u] = g \/ (\E w \in Workers : Heads(w, u, g)) => HasParty(u, g)

LEMMA BlockedHasParty ==
    ASSUME NEW u \in UseCases, NEW S, NEW g \in Blocked(VectorWith(u, S))
    PROVE  HasParty(u, g)
<1>1. g \in VectorStates /\ VectorWith(u, S)[g] # "advance" BY DEF Blocked
<1>2. g = "VENDOR_CHECK" => clearance_verdict(vendor[SystemOf[u]]) # "advance"
  BY <1>1 DEF VectorWith
<1>3. g = "PRODUCT_CHECK" => clearance_verdict(ProductOf[SystemOf[u]]) # "advance"
  BY <1>1 DEF VectorWith
<1> QED BY <1>2, <1>3 DEF clearance_verdict, HasParty

LEMMA PartyStays ==
    ASSUME ClearanceInv, [ClearanceNext]_clearanceVars, NEW u \in UseCases, NEW g, HasParty(u, g)
    PROVE  HasParty(u, g)'
<1>1. vendor \in [Systems -> Vendors \cup {NoParty}] BY DEF ClearanceInv, ClearanceTypeOK
<1>2. \/ UNCHANGED vendor
      \/ \E s \in Systems, v \in Vendors : vendor' = [vendor EXCEPT ![s] = v]
  BY DEF ClearanceNext, clearanceVars, Progress, enumerate, fan_out, Evaluated, Commit, Conflict,
         set_approval, register, post_re_evaluate, pass_gate, authorise, Crash, Lapse,
         update_system
<1>3. \A v \in Vendors : v # NoParty BY DEF Parties
<1>4. vendor[SystemOf[u]] # NoParty => vendor'[SystemOf[u]] # NoParty
  BY <1>1, <1>2, <1>3
<1> QED BY <1>4 DEF HasParty

\* A transaction that opens has read the rows that are there.
LEMMA EvaluatedHere ==
    ASSUME ClearanceInv, [ClearanceNext]_clearanceVars, NEW w \in Workers,
           request'[w].phase = "evaluated", request'[w] # request[w],
           NEW t, t = request'[w].tx
    PROVE  t.vec = VectorWith(t.uc, met[t.uc] \cup t.gain)
<1>1. request \in [Workers -> Requests] BY DEF ClearanceInv, ClearanceTypeOK
<1>2. ASSUME NEW x \in Workers, NEW op, NEW u, NEW gain, NEW move,
             Evaluated(x, op, u, gain, move)
      PROVE  t.vec = VectorWith(t.uc, met[t.uc] \cup t.gain)
  <2>1. /\ request' = [request EXCEPT ![x] =
              [request[x] EXCEPT !.phase = "evaluated", !.tx = TransactionOf(op, u, gain, move)]]
    BY <1>2 DEF Evaluated, TransactionOf
  <2>2. x = w BY <1>1, <2>1
  <2>3. t = TransactionOf(op, u, gain, move) BY <1>1, <2>1, <2>2 DEF Requests
  <2> QED BY <2>3 DEF TransactionOf
<1>3. ASSUME NEW x \in Workers, NEW r, request' = [request EXCEPT ![x] = r],
             r.phase # "evaluated"
      PROVE  FALSE
  BY <1>1, <1>3
<1>4. ASSUME NEW x \in Workers, NEW S, FanOutOver(x, S) PROVE FALSE
  <2> DEFINE rest == IF S = {} THEN Free ELSE [Free EXCEPT !.phase = "fan_out", !.todo = S]
  <2>1. request' = [request EXCEPT ![x] = rest] BY <1>4 DEF FanOutOver
  <2>2. rest.phase # "evaluated" BY DEF Free
  <2> HIDE DEF rest
  <2> QED BY <1>3, <2>1, <2>2
<1>5. ASSUME NEW x \in Workers, enumerate(x) \/ Commit(x) PROVE FALSE
  BY <1>4, <1>5 DEF enumerate, Commit, Continue
<1>6. ASSUME NEW x \in Workers, Conflict(x) \/ Crash(x) PROVE FALSE
  BY <1>3, <1>6, FreeIsTyped DEF Conflict, Crash
<1>7. ASSUME NEW x \in Workers, set_approval(x) PROVE FALSE
  <2>1. PICK p \in Parties : request' = [request EXCEPT ![x] =
            set_tenant_context(Committed([@ EXCEPT !.phase = "decided", !.party = p]))]
    BY <1>7 DEF set_approval
  <2>2. set_tenant_context(Committed([request[x] EXCEPT !.phase = "decided", !.party = p])).phase
          = "decided"
    BY <1>1 DEF set_tenant_context, Committed, Requests
  <2> QED BY <1>3, <2>1, <2>2
<1>8. CASE UNCHANGED request BY <1>8
<1>9. ASSUME NEW x \in Workers,
             fan_out(x) \/ register(x) \/ pass_gate(x) \/ authorise(x)
                \/ \E u \in UseCases : post_re_evaluate(x, u)
      PROVE  t.vec = VectorWith(t.uc, met[t.uc] \cup t.gain)
  BY <1>2, <1>9 DEF fan_out, register, pass_gate, authorise, post_re_evaluate
<1> QED BY <1>5, <1>6, <1>7, <1>8, <1>9
    DEF ClearanceNext, Progress, clearanceVars, Lapse, update_system

LEMMA ParkedKeptParty ==
    ASSUME ClearanceInv, ClearanceInv', ParkedHaveParty, [ClearanceNext]_clearanceVars
    PROVE  ParkedHaveParty'
<1> SUFFICES ASSUME NEW u \in UseCases, NEW g \in ClearanceGates,
                    position'[u] = g \/ (\E w \in Workers : Heads(w, u, g)')
             PROVE  HasParty(u, g)
    BY PartyStays DEF ParkedHaveParty
<1>1. CASE position'[u] = g /\ position'[u] # position[u]
  <2>1. PICK w \in Workers : Commit(w)
    BY <1>1 DEF ClearanceNext, clearanceVars, Progress, enumerate, fan_out, Evaluated,
       Conflict, set_approval, register, post_re_evaluate, pass_gate, authorise, Crash,
       Lapse, update_system
  <2>2. Heads(w, u, g)
    BY <1>1, <2>1 DEF Heads, Commit, ClearanceInv, ClearanceTypeOK
  <2> QED BY <2>2 DEF ParkedHaveParty
<1>2. CASE position'[u] = g /\ position'[u] = position[u]
  BY <1>2 DEF ParkedHaveParty
<1>3. ASSUME NEW w \in Workers, Heads(w, u, g)' PROVE HasParty(u, g)
  <2>1. CASE request'[w] = request[w]
    <3>1. Heads(w, u, g) BY <1>3, <2>1 DEF Heads, HasMove
    <3> QED BY <3>1 DEF ParkedHaveParty
  <2>2. CASE request'[w] # request[w]
    <3>1. PICK t : t = request'[w].tx OBVIOUS
    <3>2. /\ request'[w].phase = "evaluated" /\ HasMove(t) /\ t.uc = u /\ t.move.to = g
      BY <1>3, <3>1 DEF Heads, HasMove
    <3>3. EngineMoved(t)
      BY <3>1, <3>2 DEF ClearanceInv, RequestInv
    <3>4. g \in Blocked(t.vec) BY <3>2, <3>3, ParkedIsBlocked
    <3>5. t.vec = VectorWith(u, met[u] \cup t.gain) BY <2>2, <3>1, <3>2, EvaluatedHere
    <3> QED BY <3>4, <3>5, BlockedHasParty
  <2> QED BY <2>1, <2>2
<1> QED BY <1>1, <1>2, <1>3

LEMMA ParkedInitially == ClearanceInit => ParkedHaveParty
BY DEF ClearanceInit, ParkedHaveParty, Heads, Free, ClearanceGates

(***************************************************************************)
(* Whoever clears vendors and products from the queue misses nobody, in    *)
(* any catalogue and whatever is relinked meanwhile.                       *)
(***************************************************************************)
THEOREM QueueAlwaysShowsTheParked == ClearanceSpec => []QueueShowsTheParked
<1>1. ClearanceInv /\ ParkedHaveParty => QueueShowsTheParked
  <2> SUFFICES ASSUME ClearanceInv, ParkedHaveParty, NEW u \in Registered,
                      NEW s, s = SystemOf[u]
               PROVE  /\ position[u] = "VENDOR_CHECK" => vendor[s] \in vendor_ids_to_show
                      /\ position[u] = "PRODUCT_CHECK" =>
                            \E v \in vendor_ids_to_show : ProductOf[s] \in products_shown(v)
      BY DEF QueueShowsTheParked
  <2>1. position[u] \in ClearanceGates => HasParty(u, position[u])
    BY DEF ParkedHaveParty, Registered
  <2>2. CASE position[u] = "VENDOR_CHECK"
    BY <2>1, <2>2 DEF HasParty, ClearanceGates, vendor_ids_to_show, in_queue_vendors, ParkedAt
  <2>3. CASE position[u] = "PRODUCT_CHECK"
    <3>1. s \in Systems /\ ProductOf[s] \in Products
      BY <2>1, <2>3 DEF HasParty, ClearanceGates, Registered
    <3>2. ProductOf[s] \in in_queue_products
      BY <2>1, <2>3 DEF HasParty, ClearanceGates, in_queue_products, ParkedAt
    <3>3. CatalogueVendorOf[ProductOf[s]] \in vendor_ids_to_show
      BY <3>2 DEF vendor_ids_to_show
    <3>4. ProductOf[s] \in products_shown(CatalogueVendorOf[ProductOf[s]])
      BY <3>1, <3>2 DEF products_shown
    <3> QED BY <2>3, <3>3, <3>4
  <2> QED BY <2>2, <2>3
<1>2. ParkedHaveParty /\ ClearanceInv /\ ClearanceInv' /\ [ClearanceNext]_clearanceVars
          => ParkedHaveParty'
  BY ParkedKeptParty
<1> QED BY <1>1, <1>2, ParkedInitially, ClearanceInvAlways, PTL DEF ClearanceSpec

-----------------------------------------------------------------------------
(***************************************************************************)
(* The engine alone (ReEvaluation).  A registered use case never goes back *)
(* to REQUESTED, and its vector is one full_vector can return: with that,  *)
(* what the engine answers is decided position by position.                *)
(***************************************************************************)
EngineInv == cursor \in Live /\ vector \in PossibleVectors

\* The engine's answers: nothing, or a legal move to a position behind
\* registration.
LEMMA EngineStaysOrMoves ==
    ASSUME NEW s \in LifecycleStates, NEW v \in Vectors,
           NEW m \in {advance_use_case(s, v), re_evaluate(s, v)}, s \in Live
    PROVE  /\ m.event = "none" => m = Stay(s)
           /\ m \in Moves /\ LegalMove(s, m) /\ m.event # "authorise"
           /\ m.to = After(s, m)
<1>1. Walk(s, v).event = "none" => Walk(s, v) = Stay(s) BY DEF Walk
<1>2. advance_use_case(s, v).event = "none" => advance_use_case(s, v) = Stay(s)
  BY <1>1 DEF advance_use_case, Halt
<1>3. TowardsTarget(s, v).event = "none" => TowardsTarget(s, v) = Stay(s)
  BY <1>2 DEF TowardsTarget, Hold
<1>4. s = "AUTHORISED" /\ KeepOrHold(v).event = "none" => KeepOrHold(v) = Stay(s)
  BY DEF KeepOrHold, Hold
<1>5. re_evaluate(s, v).event = "none" => re_evaluate(s, v) = Stay(s)
  BY <1>3, <1>4 DEF re_evaluate, Halt, Restore
<1>6. m.event = "none" => m = Stay(s) BY <1>2, <1>5
<1>7. m \in Moves /\ LegalMove(s, m) /\ m.event # "authorise"
  BY AdvanceIsLegal, ReEvaluateIsLegal DEF Live
<1>8. m.to = After(s, m) BY <1>6 DEF After, Stay
<1> QED BY <1>6, <1>7, <1>8

LEMMA EngineLeadsOn ==
    ASSUME NEW s \in Live, NEW v \in Vectors,
           NEW m \in {advance_use_case(s, v), re_evaluate(s, v)}
    PROVE  m.to \in Live /\ (m.to = "AUTHORISED" => s = "AUTHORISED")
<1>1. s \in LifecycleStates BY DEF Live
<1>2. /\ m.event = "none" => m = Stay(s)
      /\ LegalMove(s, m) /\ m.event # "authorise"
  BY <1>1, EngineStaysOrMoves
<1>3. CASE m.event = "none" BY <1>2, <1>3 DEF Stay
<1>4. CASE m.event # "none"
  BY <1>2, <1>4 DEF LegalMove, Live, LifecycleStates, VectorStates, GuardedStates
<1> QED BY <1>3, <1>4

LEMMA RegistrationLeadsOn ==
    ASSUME NEW v \in Vectors
    PROVE  advance_use_case("REQUESTED", v).to \in Live
<1>1. Stops("REQUESTED", v) \in SUBSET VectorStates BY DEF Stops
<1>2. "PENDING_AUTHORISATION" \in Stops("REQUESTED", v)
  BY DEF Stops, VectorStates, GuardedStates, Rank
<1>3. Earliest(Stops("REQUESTED", v)) \in VectorStates BY <1>1, <1>2, EarliestIsFirst
<1>4. Walk("REQUESTED", v).to \in VectorStates
  BY <1>3 DEF Walk, VectorStates, GuardedStates
<1> QED BY <1>4 DEF advance_use_case, Halt, Live, LifecycleStates, VectorStates, GuardedStates

LEMMA EngineInitially == Init => EngineInv
BY RegistrationLeadsOn DEF Init, EngineInv, PossibleVectors

LEMMA EngineKept == EngineInv /\ [Next]_vars => EngineInv'
<1> SUFFICES ASSUME EngineInv, [Next]_vars PROVE EngineInv' OBVIOUS
<1>1. cursor \in Live /\ vector \in PossibleVectors /\ vector \in Vectors
  BY DEF EngineInv, PossibleVectors
<1>2. CASE GateChanges BY <1>1, <1>2 DEF GateChanges, EngineInv
<1>3. CASE TriggeredAdvance BY <1>1, <1>3, EngineLeadsOn DEF TriggeredAdvance, EngineInv
<1>4. CASE ReEvaluate BY <1>1, <1>4, EngineLeadsOn DEF ReEvaluate, EngineInv
<1>5. CASE Authorise
  <2>1. vector' \in Vectors BY <1>1, <1>5 DEF Authorise, Vectors, Verdicts
  <2>2. \A s \in VectorStates \ {"INTAKE"} : vector'[s] # "halt"
    BY <1>1, <1>5 DEF Authorise, PossibleVectors, Vectors
  <2>3. cursor' \in Live
    BY <1>5 DEF Authorise, Live, LifecycleStates, VectorStates, GuardedStates
  <2> QED BY <2>1, <2>2, <2>3 DEF EngineInv, PossibleVectors
<1>6. CASE UNCHANGED vars BY <1>1, <1>6 DEF vars, EngineInv
<1> QED BY <1>2, <1>3, <1>4, <1>5, <1>6 DEF Next

LEMMA EngineInvAlways == Spec => []EngineInv
<1> QED BY EngineInitially, EngineKept, PTL DEF Spec

(***************************************************************************)
(* No run of the engine enters AUTHORISED, and the act that does leaves no *)
(* gate failing (INV-35: authorise_use_case is the only caller of the      *)
(* authorise transition).                                                  *)
(***************************************************************************)
THEOREM OnlyTheActAuthorises == Spec => AuthorisedOnlyByTheAct
<1> DEFINE ByTheAct == cursor' = "AUTHORISED" /\ cursor # "AUTHORISED"
                          => /\ cursor = "PENDING_AUTHORISATION"
                             /\ Blocked(vector') = {}
<1>1. EngineInv /\ [Next]_vars => [ByTheAct]_vars
  <2> SUFFICES ASSUME EngineInv, [Next]_vars, cursor' = "AUTHORISED", cursor # "AUTHORISED"
               PROVE  cursor = "PENDING_AUTHORISATION" /\ Blocked(vector') = {}
      OBVIOUS
  <2>1. cursor \in Live /\ vector \in Vectors BY DEF EngineInv, PossibleVectors
  <2>2. ~GateChanges BY DEF GateChanges
  <2>3. ~TriggeredAdvance BY <2>1, EngineLeadsOn DEF TriggeredAdvance
  <2>4. ~ReEvaluate BY <2>1, EngineLeadsOn DEF ReEvaluate
  <2>5. ~UNCHANGED vars BY DEF vars
  <2>6. Authorise BY <2>2, <2>3, <2>4, <2>5 DEF Next
  <2>7. \A s \in VectorStates : vector'[s] = "advance"
    BY <2>1, <2>6 DEF Authorise, Vectors, VectorStates
  <2> QED BY <2>6, <2>7 DEF Authorise, Blocked
<1> QED BY <1>1, EngineInvAlways, PTL DEF Spec, AuthorisedOnlyByTheAct

\* The positions re_evaluate leaves alone.
LEMMA SettledPositions ==
    ASSUME NEW s \in Live, NEW v \in Vectors, Settled(s, v)
    PROVE  \/ s = target_from_vector(v)
           \/ s = "AUTHORISED" /\ Blocked(v) = {}
           \/ s = "HALTED_PROHIBITED"
<1>1. s = "HALTED_PROHIBITED" \/ ~Halts(s, v)
  BY DEF Settled, re_evaluate, Halt, Stay, TerminalStates
<1>2. CASE s = "HALTED_PROHIBITED" BY <1>2
<1>3. CASE s # "HALTED_PROHIBITED"
  <2>1. ~Halts(s, v) /\ Quiet(v) BY <1>1, <1>3 DEF Halts, Quiet, TerminalStates
  <2>2. CASE s = "HELD"
    <3>1. re_evaluate(s, v) = Restore(v) BY <2>1, <2>2 DEF re_evaluate, TerminalStates
    <3> QED BY <3>1 DEF Settled, Restore, Stay
  <2>3. CASE s = "AUTHORISED"
    <3>1. re_evaluate(s, v) = KeepOrHold(v) BY <2>1, <2>3 DEF re_evaluate, TerminalStates
    <3> QED BY <2>3, <3>1 DEF Settled, KeepOrHold, Hold, Stay
  <2>4. CASE s \in VectorStates BY <2>1, <2>4, SettledIsAtTarget
  <2> QED BY <1>3, <2>2, <2>3, <2>4 DEF Live, LifecycleStates
<1> QED BY <1>2, <1>3

(***************************************************************************)
(* A second run of re_evaluate ends where a third one stays, at the target *)
(* of the vector unless authorised or halted: by OneReEvaluationSettles,   *)
(* the first run does unless it ends in the hold, which is not settled     *)
(* itself and which the second run leaves.                                 *)
(***************************************************************************)
THEOREM ReEvaluateAlwaysSettles == Spec => []ReEvaluateSettles
<1>1. EngineInv => ReEvaluateSettles
  <2> SUFFICES ASSUME EngineInv PROVE ReEvaluateSettles OBVIOUS
  <2> DEFINE once == re_evaluate(cursor, vector).to
             twice == re_evaluate(once, vector).to
  <2>1. cursor \in Live /\ vector \in Vectors BY DEF EngineInv, PossibleVectors
  <2>2. \A s \in Live : /\ re_evaluate(s, vector).to \in Live
                        /\ re_evaluate(s, vector).to = After(s, re_evaluate(s, vector))
    BY <2>1, EngineLeadsOn, EngineStaysOrMoves DEF Live
  <2>3. once \in Live /\ twice \in Live BY <2>1, <2>2
  <2>4. \A s \in Live : \/ re_evaluate(s, vector).to = "HELD"
                        \/ Settled(re_evaluate(s, vector).to, vector)
    BY <2>1, <2>2, OneReEvaluationSettles DEF Live
  <2>5. \A s \in Live : Settled(s, vector) => re_evaluate(s, vector).to = s
    BY DEF Settled, Stay
  <2>6. ~Settled("HELD", vector)
    BY <2>1, SettledPositions, TargetIsFirst DEF Live, LifecycleStates, VectorStates, GuardedStates
  <2>7. re_evaluate("HELD", vector).to # "HELD"
    BY <2>1, TargetIsFirst DEF re_evaluate, Restore, Halt, TerminalStates, VectorStates,
       GuardedStates
  <2>8. Settled(twice, vector)
    <3>1. CASE Settled(once, vector) BY <2>3, <2>5, <3>1
    <3>2. CASE once = "HELD" BY <2>3, <2>4, <2>7, <3>2
    <3> QED BY <2>1, <2>4, <3>1, <3>2
  <2>9. re_evaluate(twice, vector).to = twice BY <2>3, <2>5, <2>8
  <2>10. \/ twice = target_from_vector(vector)
         \/ twice = "AUTHORISED" /\ Blocked(vector) = {}
         \/ twice = "HALTED_PROHIBITED"
    BY <2>1, <2>3, <2>8, SettledPositions
  <2> QED BY <2>9, <2>10 DEF ReEvaluateSettles
<1> QED BY <1>1, EngineInvAlways, PTL

-----------------------------------------------------------------------------
(***************************************************************************)
(* The loop of advance_use_case, hop by hop.  The recursive function       *)
(* AdvanceLoop exists because the ladder is finite: it is written out from *)
(* the ceiling down.                                                       *)
(***************************************************************************)
LadderStates == VectorStates \cup {"REQUESTED"}

\* The hop is unique; named for every state that has one.
LEMMA HopIs ==
    ASSUME NEW s \in GuardedStates \cup {"REQUESTED"}
    PROVE  LET t == CHOOSE t \in VectorStates : NextState(s, t) IN
           /\ t \in VectorStates /\ NextState(s, t)
           /\ t = CASE s = "REQUESTED"         -> "VENDOR_CHECK"
                    [] s = "VENDOR_CHECK"      -> "PRODUCT_CHECK"
                    [] s = "PRODUCT_CHECK"     -> "INTAKE"
                    [] s = "INTAKE"            -> "UNDER_ASSESSMENT"
                    [] s = "UNDER_ASSESSMENT"  -> "TREATMENT_PENDING"
                    [] s = "TREATMENT_PENDING" -> "PENDING_AUTHORISATION"
<1> DEFINE next == CASE s = "REQUESTED"         -> "VENDOR_CHECK"
                     [] s = "VENDOR_CHECK"      -> "PRODUCT_CHECK"
                     [] s = "PRODUCT_CHECK"     -> "INTAKE"
                     [] s = "INTAKE"            -> "UNDER_ASSESSMENT"
                     [] s = "UNDER_ASSESSMENT"  -> "TREATMENT_PENDING"
                     [] s = "TREATMENT_PENDING" -> "PENDING_AUTHORISATION"
           t == CHOOSE t \in VectorStates : NextState(s, t)
<1>1. next \in VectorStates /\ Rank(next) = Rank(s) + 1
  BY DEF VectorStates, GuardedStates, Rank
<1>2. NextState(s, next) BY <1>1 DEF NextState
<1>3. t \in VectorStates /\ NextState(s, t) BY <1>1, <1>2
<1>4. t = next BY <1>1, <1>3, RanksDiffer DEF NextState
<1> QED BY <1>3, <1>4

\* The state the loop goes to from s, and whether it goes.
Hop(s) == CHOOSE t \in VectorStates : NextState(s, t)

HopRow(s) == [from |-> s, event |-> "advance", to |-> Hop(s)]

Goes(s, v) == s = "REQUESTED" \/ (s \in GuardedStates /\ v[s] = "advance")

LEMMA HopNames ==
    /\ Hop("REQUESTED") = "VENDOR_CHECK"
    /\ Hop("VENDOR_CHECK") = "PRODUCT_CHECK"
    /\ Hop("PRODUCT_CHECK") = "INTAKE"
    /\ Hop("INTAKE") = "UNDER_ASSESSMENT"
    /\ Hop("UNDER_ASSESSMENT") = "TREATMENT_PENDING"
    /\ Hop("TREATMENT_PENDING") = "PENDING_AUTHORISATION"
<1>1. Hop("REQUESTED") = "VENDOR_CHECK" BY HopIs DEF Hop, GuardedStates
<1>2. Hop("VENDOR_CHECK") = "PRODUCT_CHECK" BY HopIs DEF Hop, GuardedStates
<1>3. Hop("PRODUCT_CHECK") = "INTAKE" BY HopIs DEF Hop, GuardedStates
<1>4. Hop("INTAKE") = "UNDER_ASSESSMENT" BY HopIs DEF Hop, GuardedStates
<1>5. Hop("UNDER_ASSESSMENT") = "TREATMENT_PENDING" BY HopIs DEF Hop, GuardedStates
<1>6. Hop("TREATMENT_PENDING") = "PENDING_AUTHORISATION" BY HopIs DEF Hop, GuardedStates
<1> QED BY <1>1, <1>2, <1>3, <1>4, <1>5, <1>6

LEMMA AdvanceLoopIsDefined ==
    ASSUME NEW v \in Vectors, NEW s \in LadderStates
    PROVE  AdvanceLoop(v)[s] =
              IF Goes(s, v) THEN <<HopRow(s)>> \o AdvanceLoop(v)[Hop(s)] ELSE <<>>
<1> DEFINE Body(f, x) == IF Goes(x, v) THEN <<HopRow(x)>> \o f[Hop(x)] ELSE <<>>
           From(x, later) == IF Goes(x, v) THEN <<HopRow(x)>> \o later ELSE <<>>
           fromT == From("TREATMENT_PENDING", <<>>)
           fromU == From("UNDER_ASSESSMENT", fromT)
           fromI == From("INTAKE", fromU)
           fromP == From("PRODUCT_CHECK", fromI)
           fromV == From("VENDOR_CHECK", fromP)
           fromR == From("REQUESTED", fromV)
           written == [x \in LifecycleStates |->
              CASE x = "REQUESTED"         -> fromR
                [] x = "VENDOR_CHECK"      -> fromV
                [] x = "PRODUCT_CHECK"     -> fromP
                [] x = "INTAKE"            -> fromI
                [] x = "UNDER_ASSESSMENT"  -> fromU
                [] x = "TREATMENT_PENDING" -> fromT
                [] OTHER                   -> <<>>]
<1>1. \A x \in LifecycleStates : written[x] = Body(written, x)
  <2> SUFFICES ASSUME NEW x \in LifecycleStates PROVE written[x] = Body(written, x)
      OBVIOUS
  <2> HIDE DEF fromR, fromV, fromP, fromI, fromU, fromT
  <2>1. /\ written["REQUESTED"] = fromR
        /\ written["VENDOR_CHECK"] = fromV
        /\ written["PRODUCT_CHECK"] = fromP
        /\ written["INTAKE"] = fromI
        /\ written["UNDER_ASSESSMENT"] = fromU
        /\ written["TREATMENT_PENDING"] = fromT
        /\ written["PENDING_AUTHORISATION"] = <<>>
    BY DEF LifecycleStates, VectorStates, GuardedStates
  <2>2. x \notin GuardedStates \cup {"REQUESTED"} => written[x] = <<>>
    BY DEF LifecycleStates, GuardedStates
  <2> HIDE DEF written
  <2>3. CASE x = "REQUESTED"
    <3>1. Hop(x) = "VENDOR_CHECK" BY <2>3, HopNames
    <3>2. written[x] = From(x, fromV) BY <2>1, <2>3 DEF fromR
    <3>3. written[Hop(x)] = fromV BY <2>1, <3>1
    <3> QED BY <3>2, <3>3
  <2>4. CASE x = "VENDOR_CHECK"
    <3>1. Hop(x) = "PRODUCT_CHECK" BY <2>4, HopNames
    <3>2. written[x] = From(x, fromP) BY <2>1, <2>4 DEF fromV
    <3>3. written[Hop(x)] = fromP BY <2>1, <3>1
    <3> QED BY <3>2, <3>3
  <2>5. CASE x = "PRODUCT_CHECK"
    <3>1. Hop(x) = "INTAKE" BY <2>5, HopNames
    <3>2. written[x] = From(x, fromI) BY <2>1, <2>5 DEF fromP
    <3>3. written[Hop(x)] = fromI BY <2>1, <3>1
    <3> QED BY <3>2, <3>3
  <2>6. CASE x = "INTAKE"
    <3>1. Hop(x) = "UNDER_ASSESSMENT" BY <2>6, HopNames
    <3>2. written[x] = From(x, fromU) BY <2>1, <2>6 DEF fromI
    <3>3. written[Hop(x)] = fromU BY <2>1, <3>1
    <3> QED BY <3>2, <3>3
  <2>7. CASE x = "UNDER_ASSESSMENT"
    <3>1. Hop(x) = "TREATMENT_PENDING" BY <2>7, HopNames
    <3>2. written[x] = From(x, fromT) BY <2>1, <2>7 DEF fromU
    <3>3. written[Hop(x)] = fromT BY <2>1, <3>1
    <3> QED BY <3>2, <3>3
  <2>8. CASE x = "TREATMENT_PENDING"
    <3>1. Hop(x) = "PENDING_AUTHORISATION" BY <2>8, HopNames
    <3>2. written[x] = From(x, <<>>) BY <2>1, <2>8 DEF fromT
    <3>3. written[Hop(x)] = <<>> BY <2>1, <3>1
    <3> QED BY <3>2, <3>3
  <2>9. CASE x \notin GuardedStates \cup {"REQUESTED"}
    <3>1. ~Goes(x, v) BY <2>9 DEF Goes
    <3> QED BY <2>2, <2>9, <3>1
  <2> QED BY <2>3, <2>4, <2>5, <2>6, <2>7, <2>8, <2>9 DEF GuardedStates
<1> HIDE DEF Body
<1>2. written = [x \in LifecycleStates |-> Body(written, x)]
  <2>1. written = [x \in LifecycleStates |-> written[x]] OBVIOUS
  <2> HIDE DEF written
  <2> QED BY <1>1, <2>1
<1> HIDE DEF written
<1> DEFINE loop == CHOOSE f : f = [x \in LifecycleStates |-> Body(f, x)]
<1>3. loop = [x \in LifecycleStates |-> Body(loop, x)] BY <1>2
<1>4. AdvanceLoop(v) = loop BY DEF AdvanceLoop, Body, Goes, HopRow, Hop
<1> HIDE DEF loop
<1>5. loop[s] = Body(loop, s) BY <1>3 DEF LadderStates, LifecycleStates
<1> QED BY <1>4, <1>5 DEF Body

\* The rows lead from s to e over legal edges.
RowsOfEngine == [from : LifecycleStates, event : Events, to : LifecycleStates]

Trail(rows, s, e) ==
    /\ rows \in Seq(RowsOfEngine)
    /\ \A i \in 1 .. Len(rows) :
          /\ IsLegal(rows[i].from, rows[i].event, rows[i].to)
          /\ rows[i].from = IF i = 1 THEN s ELSE rows[i - 1].to
    /\ e = IF rows = <<>> THEN s ELSE rows[Len(rows)].to

LEMMA OneRowIsTrail ==
    ASSUME NEW row \in RowsOfEngine, IsLegal(row.from, row.event, row.to)
    PROVE  Trail(<<row>>, row.from, row.to)
<1>1. <<row>> \in Seq(RowsOfEngine) /\ Len(<<row>>) = 1 /\ <<row>>[1] = row
      /\ <<row>> # <<>>
  OBVIOUS
<1> QED BY <1>1 DEF Trail

LEMMA TrailGrowsAtItsHead ==
    ASSUME NEW row \in RowsOfEngine, IsLegal(row.from, row.event, row.to),
           NEW rows, NEW e, Trail(rows, row.to, e)
    PROVE  Trail(<<row>> \o rows, row.from, e)
<1> DEFINE all == <<row>> \o rows
<1>1. rows \in Seq(RowsOfEngine) /\ Len(rows) \in Nat BY DEF Trail
<1>2. /\ all \in Seq(RowsOfEngine) /\ Len(all) = Len(rows) + 1 /\ all # <<>>
      /\ all[1] = row
      /\ \A i \in 2 .. Len(rows) + 1 : all[i] = rows[i - 1]
  BY <1>1
<1> HIDE DEF all
<1>3. ASSUME NEW i \in 1 .. Len(all)
      PROVE  /\ IsLegal(all[i].from, all[i].event, all[i].to)
             /\ all[i].from = IF i = 1 THEN row.from ELSE all[i - 1].to
  <2>1. CASE i = 1 BY <1>2, <2>1
  <2>2. CASE i = 2
    <3>1. all[2] = rows[1] /\ 1 \in 1 .. Len(rows) BY <1>1, <1>2, <1>3, <2>2
    <3>2. rows[1].from = row.to BY <3>1 DEF Trail
    <3> QED BY <1>2, <2>2, <3>1, <3>2 DEF Trail
  <2>3. CASE i > 2
    <3>1. /\ i - 1 \in 1 .. Len(rows) /\ i - 1 # 1 /\ i \in 2 .. Len(rows) + 1
          /\ i - 1 \in 2 .. Len(rows) + 1
      BY <1>1, <1>2, <1>3, <2>3
    <3>2. all[i] = rows[i - 1] /\ all[i - 1] = rows[(i - 1) - 1] BY <1>2, <3>1
    <3>3. rows[i - 1].from = rows[(i - 1) - 1].to BY <3>1 DEF Trail
    <3> QED BY <2>3, <3>1, <3>2, <3>3 DEF Trail
  <2> QED BY <2>1, <2>2, <2>3
<1>4. e = all[Len(all)].to
  <2>1. CASE rows = <<>>
    <3>1. Len(rows) = 0 /\ e = row.to BY <2>1 DEF Trail
    <3> QED BY <1>2, <3>1
  <2>2. CASE rows # <<>>
    <3>1. Len(rows) \in 1 .. Len(rows) BY <1>1, <2>2
    <3>2. all[Len(all)] = rows[Len(rows)] BY <1>1, <1>2, <3>1
    <3> QED BY <2>2, <3>2 DEF Trail
  <2> QED BY <2>1, <2>2
<1> QED BY <1>2, <1>3, <1>4 DEF Trail, all

\* The walk rests at the first stop, and the first stop from a state whose
\* gate passes is the first stop from the next one.
LEMMA WalkRestsAtFirstStop ==
    ASSUME NEW v \in Vectors, NEW s \in LadderStates
    PROVE  /\ Walk(s, v).to = Earliest(Stops(s, v))
           /\ ~Goes(s, v) => Walk(s, v).to = s
           /\ Goes(s, v) => Walk(s, v).to = Walk(Hop(s), v).to
<1>1. \A x \in LadderStates :
         /\ Stops(x, v) \in SUBSET VectorStates
         /\ "PENDING_AUTHORISATION" \in Stops(x, v)
  BY RanksDiffer DEF Stops, LadderStates, VectorStates
<1>2. \A x \in LadderStates :
         /\ Earliest(Stops(x, v)) \in Stops(x, v)
         /\ \A t \in Stops(x, v) : Rank(Earliest(Stops(x, v))) <= Rank(t)
  BY <1>1, EarliestIsFirst
<1>3. \A x \in VectorStates : x \in Stops(x, v) => Earliest(Stops(x, v)) = x
  <2> SUFFICES ASSUME NEW x \in VectorStates, x \in Stops(x, v)
               PROVE  Earliest(Stops(x, v)) = x
      OBVIOUS
  <2>1. Rank(Earliest(Stops(x, v))) <= Rank(x) BY <1>2 DEF LadderStates
  <2>2. Earliest(Stops(x, v)) \in VectorStates /\ Rank(x) <= Rank(Earliest(Stops(x, v)))
    BY <1>1, <1>2 DEF LadderStates, Stops
  <2>3. Rank(x) = Rank(Earliest(Stops(x, v))) BY <2>1, <2>2, RanksDiffer
  <2> QED BY <2>2, <2>3, RanksDiffer
<1>4. "PENDING_AUTHORISATION" \in VectorStates /\ "PENDING_AUTHORISATION" \notin GuardedStates
  BY DEF VectorStates, GuardedStates
<1>5. \A x \in LadderStates : Walk(x, v).to = Earliest(Stops(x, v))
  <2> SUFFICES ASSUME NEW x \in LadderStates PROVE Walk(x, v).to = Earliest(Stops(x, v))
      OBVIOUS
  <2>1. CASE x \in GuardedStates \cup {"REQUESTED"} BY <2>1 DEF Walk, Stay
  <2>2. CASE x = "PENDING_AUTHORISATION"
    <3>1. Earliest(Stops(x, v)) = x BY <1>1, <1>3, <1>4, <2>2 DEF LadderStates
    <3> QED BY <1>4, <2>2, <3>1 DEF Walk, Stay
  <2> QED BY <2>1, <2>2 DEF LadderStates, VectorStates
<1>6. ~Goes(s, v) => Walk(s, v).to = s
  <2> SUFFICES ASSUME ~Goes(s, v) PROVE Walk(s, v).to = s OBVIOUS
  <2>1. s \in VectorStates BY DEF Goes, LadderStates
  <2>2. s \in Stops(s, v) BY <2>1, RanksDiffer DEF Goes, Stops, VectorStates
  <2> QED BY <1>3, <1>5, <2>1, <2>2
<1>7. Goes(s, v) => Walk(s, v).to = Walk(Hop(s), v).to
  <2> SUFFICES ASSUME Goes(s, v) PROVE Walk(s, v).to = Walk(Hop(s), v).to OBVIOUS
  <2>1. s \in GuardedStates \cup {"REQUESTED"} BY DEF Goes
  <2>2. Hop(s) \in VectorStates /\ Rank(Hop(s)) = Rank(s) + 1
    BY <2>1, HopIs DEF Hop, NextState
  <2>3. \A t \in VectorStates : Rank(s) <= Rank(t) /\ t # s <=> Rank(Hop(s)) <= Rank(t)
    <3> SUFFICES ASSUME NEW t \in VectorStates
                 PROVE  Rank(s) <= Rank(t) /\ t # s <=> Rank(Hop(s)) <= Rank(t)
        OBVIOUS
    <3>1. Rank(s) \in 0 .. 6 /\ Rank(t) \in 0 .. 6 BY RanksDiffer DEF LadderStates
    <3>2. t # s <=> Rank(t) # Rank(s)
      <4>1. CASE s \in VectorStates BY <4>1, RanksDiffer
      <4>2. CASE s = "REQUESTED" BY <4>2 DEF VectorStates, GuardedStates, Rank
      <4> QED BY <4>1, <4>2 DEF LadderStates
    <3> QED BY <2>2, <3>1, <3>2
  <2>4. s \notin Stops(s, v)
    BY DEF Goes, Stops, VectorStates, GuardedStates
  <2>5. Stops(s, v) = Stops(Hop(s), v)
    <3>1. \A t \in VectorStates : t \in Stops(s, v) <=> t \in Stops(Hop(s), v)
      BY <2>3, <2>4 DEF Stops
    <3> QED BY <3>1 DEF Stops
  <2> QED BY <1>5, <2>2, <2>5 DEF LadderStates
<1> QED BY <1>5, <1>6, <1>7

LEMMA LoopIsTrail ==
    ASSUME NEW v \in Vectors, NEW s \in LadderStates
    PROVE  Trail(AdvanceLoop(v)[s], s, Walk(s, v).to)
<1> DEFINE Leads(x) == Trail(AdvanceLoop(v)[x], x, Walk(x, v).to)
<1>1. ASSUME NEW x \in LadderStates, ~Goes(x, v)
      PROVE  Leads(x)
  <2>1. AdvanceLoop(v)[x] = <<>> /\ Walk(x, v).to = x
    BY <1>1, AdvanceLoopIsDefined, WalkRestsAtFirstStop
  <2>2. Trail(<<>>, x, x) BY DEF Trail
  <2> QED BY <2>1, <2>2
<1>2. ASSUME NEW x \in LadderStates, Goes(x, v), Leads(Hop(x))
      PROVE  Leads(x)
  <2>1. x \in GuardedStates \cup {"REQUESTED"} BY <1>2 DEF Goes
  <2>2. Hop(x) \in VectorStates /\ NextState(x, Hop(x)) BY <2>1, HopIs DEF Hop
  <2>3. /\ HopRow(x) \in RowsOfEngine /\ HopRow(x).from = x /\ HopRow(x).to = Hop(x)
        /\ IsLegal(HopRow(x).from, HopRow(x).event, HopRow(x).to)
    BY <2>2 DEF HopRow, RowsOfEngine, Events, IsLegal, LadderStates, LifecycleStates
  <2>4. /\ AdvanceLoop(v)[x] = <<HopRow(x)>> \o AdvanceLoop(v)[Hop(x)]
        /\ Walk(x, v).to = Walk(Hop(x), v).to
    BY <1>2, AdvanceLoopIsDefined, WalkRestsAtFirstStop
  <2>5. Trail(AdvanceLoop(v)[Hop(x)], HopRow(x).to, Walk(x, v).to) BY <1>2, <2>3, <2>4
  <2>6. Trail(<<HopRow(x)>> \o AdvanceLoop(v)[Hop(x)], HopRow(x).from, Walk(x, v).to)
    BY <2>3, <2>5, TrailGrowsAtItsHead
  <2> QED BY <2>3, <2>4, <2>6
<1> HIDE DEF Leads
<1>3. \A x \in LadderStates : Leads(Hop(x)) => Leads(x) BY <1>1, <1>2
<1>4. \A x \in {"REQUESTED", "VENDOR_CHECK", "PRODUCT_CHECK", "INTAKE", "UNDER_ASSESSMENT",
            "TREATMENT_PENDING", "PENDING_AUTHORISATION"} : x \in LadderStates
  BY DEF LadderStates, VectorStates, GuardedStates
<1>5. Leads("PENDING_AUTHORISATION") BY <1>1, <1>4 DEF Goes, GuardedStates
<1>6. Leads("TREATMENT_PENDING") BY <1>3, <1>4, <1>5, HopNames
<1>7. Leads("UNDER_ASSESSMENT") BY <1>3, <1>4, <1>6, HopNames
<1>8. Leads("INTAKE") BY <1>3, <1>4, <1>7, HopNames
<1>9. Leads("PRODUCT_CHECK") BY <1>3, <1>4, <1>8, HopNames
<1>10. Leads("VENDOR_CHECK") BY <1>3, <1>4, <1>9, HopNames
<1>11. Leads("REQUESTED") BY <1>3, <1>4, <1>10, HopNames
<1>12. Leads(s)
  BY <1>5, <1>6, <1>7, <1>8, <1>9, <1>10, <1>11 DEF LadderStates, VectorStates, GuardedStates
<1> QED BY <1>12 DEF Leads

\* A forward move is the walk's, from a state of the ladder.
LEMMA ForwardIsTheWalk ==
    ASSUME NEW s \in Live, NEW v \in Vectors,
           NEW m \in {advance_use_case(s, v), re_evaluate(s, v)}, m.event = "advance"
    PROVE  s \in LadderStates /\ m = Walk(s, v)
<1>1. advance_use_case(s, v).event = "advance" => advance_use_case(s, v) = Walk(s, v)
  BY DEF advance_use_case, Halt
<1>2. TowardsTarget(s, v).event = "advance" => TowardsTarget(s, v) = Walk(s, v)
  BY <1>1 DEF TowardsTarget, Hold, Stay
<1>3. KeepOrHold(v).event # "advance" BY DEF KeepOrHold, Hold, Stay
<1>4. re_evaluate(s, v).event = "advance" => re_evaluate(s, v) = Walk(s, v)
  BY <1>2, <1>3 DEF re_evaluate, Halt, Restore, Stay
<1>5. m = Walk(s, v) BY <1>1, <1>4
<1>6. s \in GuardedStates \cup {"REQUESTED"} BY <1>5 DEF Walk, Stay
<1> QED BY <1>5, <1>6 DEF LadderStates, VectorStates

LEMMA EngineMovesWriteTrails ==
    ASSUME NEW s \in Live, NEW v \in Vectors,
           NEW m \in {advance_use_case(s, v), re_evaluate(s, v)}
    PROVE  Trail(Rows(s, m, v), s, m.to)
<1>1. s \in LifecycleStates BY DEF Live
<1>2. /\ m.event = "none" => m = Stay(s)
      /\ m \in Moves /\ LegalMove(s, m) /\ m.event # "authorise"
  BY <1>1, EngineStaysOrMoves
<1>3. CASE m.event = "none"
  <2>1. Rows(s, m, v) = <<>> /\ m.to = s BY <1>2, <1>3 DEF Rows, Stay
  <2>2. Trail(<<>>, s, s) BY DEF Trail
  <2> QED BY <2>1, <2>2
<1>4. CASE m.event = "advance"
  <2>1. s \in LadderStates /\ m = Walk(s, v) BY <1>4, ForwardIsTheWalk
  <2>2. Rows(s, m, v) = AdvanceLoop(v)[s] BY <1>4 DEF Rows
  <2> QED BY <2>1, <2>2, LoopIsTrail
<1>5. CASE m.event \in {"halt", "hold", "restore"}
  <2> DEFINE row == [from |-> s, event |-> m.event, to |-> m.to]
  <2>1. Rows(s, m, v) = <<row>> BY <1>5 DEF Rows
  <2>2. row \in RowsOfEngine BY <1>1, <1>2 DEF RowsOfEngine, Moves
  <2>3. IsLegal(s, m.event, m.to)
    BY <1>2, <1>5 DEF LegalMove, IsLegal, AdvancedStates
  <2>4. Trail(<<row>>, s, m.to) BY <2>2, <2>3, OneRowIsTrail
  <2> QED BY <2>1, <2>4
<1> QED BY <1>2, <1>3, <1>4, <1>5 DEF Moves, Events

(***************************************************************************)
(* apply_transition is never asked for an undefined transition: from every *)
(* position and for every vector, the rows of a call lead over legal edges *)
(* from where the use case was to where the call leaves it.                *)
(***************************************************************************)
THEOREM TrailsAreAlwaysLegal == Spec => []EngineWritesLegalTrails
<1>1. EngineInv => EngineWritesLegalTrails
  <2> SUFFICES ASSUME EngineInv PROVE EngineWritesLegalTrails OBVIOUS
  <2>1. cursor \in Live /\ vector \in Vectors BY DEF EngineInv, PossibleVectors
  <2>2. ASSUME NEW m \in {advance_use_case(cursor, vector), re_evaluate(cursor, vector)}
        PROVE  LegalTrail(cursor, m, vector)
    <3>1. Trail(Rows(cursor, m, vector), cursor, m.to) BY <2>1, EngineMovesWriteTrails
    <3> QED BY <3>1 DEF Trail, LegalTrail
  <2> QED BY <2>2 DEF EngineWritesLegalTrails
<1> QED BY <1>1, EngineInvAlways, PTL
=============================================================================
