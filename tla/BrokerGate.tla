------------------------------ MODULE BrokerGate ------------------------------
(***************************************************************************)
(* What comes after the paper ledger: broker-order, broker-reconcile and   *)
(* execution-gate (broker_lifecycle.py, broker_reconciliation.py,          *)
(* execution_safety.py), over PaperTrading's                               *)
(* files and three more append-only ones.  Brokers are mocks: a broker     *)
(* order is a line, its status the one asked for on the command line, and  *)
(* what the broker knows of it a JSON file the operator hands over.        *)
(*                                                                         *)
(* No command holds a lock, so a command is a step for every file it reads *)
(* or appends to, and another terminal's steps come in between; what it    *)
(* has read so far is in its draft.                                        *)
(***************************************************************************)
EXTENDS PaperTrading

CONSTANTS
  Brokers,            \* the (broker, mode) pairs of --broker and --broker-mode
  Refs,               \* broker order references
  Statuses,           \* the statuses a mock submit or a broker may answer with
  MaxOrderDelta,      \* --max-order-position-pct
  MaxBook,            \* the longest list of orders that is compared
  MaxBrokerOrders,    \* bounds, which count the commands at work
  MaxReconciliations,
  MaxGates

ASSUME StatusesAssumption ==
  Statuses \subseteq {"CREATED", "SUBMITTED", "ACKNOWLEDGED", "PARTIALLY_FILLED", "FILLED",
                      "CANCELLED", "REJECTED", "EXPIRED", "ERROR"}
ASSUME MaxOrderDeltaAssumption == MaxOrderDelta \in Levels
ASSUME MaxBookAssumption == MaxBook \in Nat

VARIABLES
  basis,            \* per decision, the position it was made for and whether its grade suffices
  brokerOrders,     \* broker_orders.jsonl
  reconciliations,  \* broker_reconciliations.jsonl
  gates,            \* execution_safety_gates.jsonl
  draft             \* the row each terminal's command is making of what it reads

brokerVars == <<brokerOrders, reconciliations, gates, draft>>
gateVars == <<vars, basis, brokerVars>>

Tracked == {"SUBMITTED", "ACKNOWLEDGED", "PARTIALLY_FILLED"}
Active == Tracked \cup {"CREATED"}
NoRef == "none"   \* broker-order without --broker-order-ref, an external order without an id
ASSUME RefsAssumption == NoRef \notin Refs

GateInit ==
  /\ Init
  /\ basis = <<>> /\ brokerOrders = <<>> /\ reconciliations = <<>> /\ gates = <<>>
  /\ draft = [p \in Procs |-> <<>>]

\* A command reads a file, and goes on with what it makes of it.
ledgerFiles == <<decisions, controls, orders, fills, snapshots, curve, lost>>
Reads(p, step, next, row) ==
  /\ pc[p] = step /\ Goto(p, next)
  /\ draft' = [draft EXCEPT ![p] = row]
  /\ UNCHANGED <<ledgerFiles, hand, basis, brokerOrders, reconciliations, gates>>
Begun(file, steps) == Len(file) + Cardinality({q \in Procs : pc[q] \in steps})
Ends(p) == draft' = [draft EXCEPT ![p] = <<>>] /\ Finish(p)

-----------------------------------------------------------------------------
(* The ledger's commands, with what the gate later reads of a decision     *)

\* BUY needs an evidence grade of B; the other orderable actions do not.
Basis(d, cur) ==
  {[cur |-> cur, graded |-> graded] : graded \in IF d.action = "BUY" THEN {TRUE} ELSE BOOLEAN}

Ledger(p) ==
  /\ Step(p)
  /\ IF decisions' = decisions THEN basis' = basis
     ELSE LET d == Last(decisions') IN
          \E b \in Basis(d, Latest(snapshots).pos[d.sym]) : basis' = Append(basis, b)
  /\ UNCHANGED brokerVars

-----------------------------------------------------------------------------
(* broker-order                                                            *)

SameBrokerOrder(o, q) == o.order = q.order /\ o.broker = q.broker
OnFile(o) == \E k \in DOMAIN brokerOrders : SameBrokerOrder(brokerOrders[k], o)
\* looked is history only: how many lines the file had when its writer looked
\* for the id.
CheckBrokerOrder(p) ==
  /\ Idle(p) /\ Begun(brokerOrders, BrokerOrderSteps) < MaxBrokerOrders
  /\ \E i \in DOMAIN orders, b \in Brokers, status \in Statuses, ref \in Refs \cup {NoRef} :
       LET o == [order |-> orders[i].decision, sym |-> orders[i].sym, broker |-> b,
                 status |-> status, ref |-> ref, looked |-> 0]
       IN  Open(orders[i]) /\ ~OnFile(o) /\ Reads(p, "idle", "broker_order", o)

\* The id is made from the order, the broker and the mode: save_broker_order
\* looks for it, and then opens the file to append.
MutSeekBrokerOrder(p) ==
  Reads(p, "broker_order", "append_broker_order",
        [draft[p] EXCEPT !.looked = Len(brokerOrders)])
SeekBrokerOrder(p) ==
  /\ pc[p] = "broker_order"
  /\ \/ /\ OnFile(draft[p]) /\ Ends(p)
        /\ UNCHANGED <<ledgerFiles, basis, brokerOrders, reconciliations, gates>>
     \/ /\ ~OnFile(draft[p])
        /\ Reads(p, "broker_order", "append_broker_order",
                 [draft[p] EXCEPT !.looked = Len(brokerOrders)])
AppendBrokerOrder(p) ==
  /\ pc[p] = "append_broker_order" /\ Ends(p)
  /\ brokerOrders' = Append(brokerOrders, draft[p])
  /\ UNCHANGED <<ledgerFiles, basis, reconciliations, gates>>

-----------------------------------------------------------------------------
(* broker-reconcile                                                        *)

\* The broker's side: its orders in the file's order.  It may leave out a status,
\* and an order without an id is left out of every comparison.
ExternalOrder == [ref : Refs \cup {NoRef}, status : Statuses \cup {"absent"}]
ExternalBook == UNION {[1..n -> ExternalOrder] : n \in 0..MaxBook}

LocalOrders(b) == SelectSeq(brokerOrders, LAMBDA o : o.broker = b)
RefsIn(book) == {book[i].ref : i \in DOMAIN book} \ {NoRef}

MissingExternal(local, external) ==
  \E i \in DOMAIN local : local[i].status \in Tracked /\ local[i].ref \notin RefsIn(external)
UnknownExternal(local, external) == RefsIn(external) \ RefsIn(local) # {}
DuplicateExternal(external) ==
  \E i, j \in DOMAIN external : i # j /\ external[i].ref = external[j].ref /\ external[i].ref # NoRef
\* Of two external orders with one reference the later is compared.
MutStatusMismatch(local, external) ==
  \E i \in DOMAIN local, j \in DOMAIN external :
    /\ local[i].ref = external[j].ref /\ local[i].ref # NoRef
    /\ \A k \in DOMAIN external : k > j => external[k].ref # local[i].ref
    /\ local[i].status \in Tracked /\ external[j].status \notin {"absent", local[i].status}
StatusMismatch(local, external) ==
  \E i \in DOMAIN local, j \in DOMAIN external :
    /\ local[i].ref = external[j].ref /\ local[i].ref # NoRef
    /\ \A k \in DOMAIN external : k > j => external[k].ref # local[i].ref
    /\ external[j].status \notin {"absent", local[i].status}

OrdersMatched(local, external) ==
  /\ ~MissingExternal(local, external)
  /\ ~UnknownExternal(local, external)
  /\ ~DuplicateExternal(external)
  /\ ~StatusMismatch(local, external)

\* Cash, equity and positions are compared with the latest portfolio; without
\* one, any account the broker reports is a mismatch.
Accounts == {"not given", "as the portfolio", "different"}
AccountMatched(account) ==
  IF snapshots = <<>> THEN account = "not given" ELSE account # "different"

\* The broker orders are read first, the portfolio next; the row comes last.
ReadLocalOrders(p) ==
  /\ Idle(p) /\ Begun(reconciliations, ReconcileSteps) < MaxReconciliations
  /\ \E b \in Brokers :
     \E agree \in {OrdersMatched(LocalOrders(b), book) : book \in ExternalBook} :
       Reads(p, "idle", "reconcile", [broker |-> b, matched |-> agree])
ReadPortfolio(p) ==
  \E account \in Accounts :
    Reads(p, "reconcile", "append_reconciliation",
          [draft[p] EXCEPT !.matched = @ /\ AccountMatched(account)])
AppendReconciliation(p) ==
  /\ pc[p] = "append_reconciliation" /\ Ends(p)
  /\ reconciliations' = Append(reconciliations, draft[p])
  /\ UNCHANGED <<ledgerFiles, basis, brokerOrders, gates>>

-----------------------------------------------------------------------------
(* execution-gate                                                          *)

\* The last of the rows a command selects from a file, 0 when there is none.
LastOf(found) == IF found = {} THEN 0 ELSE CHOOSE i \in found : \A j \in found : j <= i

LatestDecision(s) == LastOf({i \in DOMAIN decisions : decisions[i].sym = s})
\* The order of the decision, or else the symbol's latest of whatever decision.
SelectedOrder(s, id) ==
  LET ofSymbol == {i \in DOMAIN orders : orders[i].sym = s}
      own == {i \in ofSymbol : orders[i].decision = id}
  IN  LastOf(IF own # {} THEN own ELSE ofSymbol)
MutLatestReconciliation(b) == Len(reconciliations)
LatestReconciliation(b) == LastOf({i \in DOMAIN reconciliations : reconciliations[i].broker = b})

DecisionChecks(id) == id # 0 /\ Orderable(decisions[id]) /\ basis[id].graded
Distance(m, n) == IF m < n THEN n - m ELSE m - n
OrderChecks(i) ==
  i # 0 /\ Open(orders[i]) /\ Distance(orders[i].target, basis[orders[i].decision].cur) <= MaxOrderDelta
\* What the symbol's latest risk snapshot may say, if decide or risk-check took
\* one: it comes from equity and its history, which the model leaves out.
Severities == {"missing", "none", "warning", "blocking"}
RiskChecks(severity, id) ==
  severity \in IF decisions[id].action = "BUY" THEN {"none"} ELSE {"none", "warning"}
ReconciliationChecks(l) == l # 0 /\ reconciliations[l].matched
\* What health-check reads of this component: the latest reconciliation, of
\* whichever broker.
ReconciliationsHealthy == reconciliations = <<>> \/ Last(reconciliations).matched
ControlChecks(id) ==
  ~Blocked(CurrentState(controls, decisions[id].sym), decisions[id].action, decisions[id].target)
OtherOrdersChecks(s, order) ==
  \A k \in DOMAIN orders : orders[k].decision # order /\ orders[k].sym = s => ~Open(orders[k])
AtWork(o, s, b) == o.sym = s /\ o.broker = b /\ o.status \in Active
BrokerOrderChecks(s, b) == \A k \in DOMAIN brokerOrders : ~AtWork(brokerOrders[k], s, b)

\* The files are read one after another, in this order, and the row comes last.
\* began and controls are history only: how many lines the two files had when
\* the command began, and how many control events it read.
GateDecision(p) ==
  /\ Idle(p) /\ Begun(gates, GateSteps) < MaxGates
  /\ \E s \in Symbols, b \in Brokers :
       Reads(p, "idle", "gate_order",
             [sym |-> s, broker |-> b, decision |-> LatestDecision(s), order |-> 0,
              reconciliation |-> 0, allowed |-> DecisionChecks(LatestDecision(s)), controls |-> 0,
              began |-> [reconciliations |-> Len(reconciliations),
                         brokerOrders |-> Len(brokerOrders)]])
GateOrder(p) ==
  LET i == SelectedOrder(draft[p].sym, draft[p].decision) IN
  Reads(p, "gate_order", "gate_risk",
        [draft[p] EXCEPT !.order = IF i = 0 THEN 0 ELSE orders[i].decision,
                         !.allowed = @ /\ OrderChecks(i)])
GateRisk(p) ==
  \E severity \in Severities :
    Reads(p, "gate_risk", "gate_reconciliation",
          [draft[p] EXCEPT !.allowed = @ /\ RiskChecks(severity, draft[p].decision)])
GateReconciliation(p) ==
  LET l == LatestReconciliation(draft[p].broker) IN
  Reads(p, "gate_reconciliation", "gate_health",
        [draft[p] EXCEPT !.reconciliation = l, !.allowed = @ /\ ReconciliationChecks(l)])
\* otherwise stands for the checks on files the model leaves out: the rest of
\* health-check, the broker's health file and the market's calendar.
GateHealth(p) ==
  \E otherwise \in BOOLEAN :
    Reads(p, "gate_health", "gate_controls",
          [draft[p] EXCEPT !.allowed = @ /\ otherwise /\ ReconciliationsHealthy])
GateControls(p) ==
  Reads(p, "gate_controls", "gate_orders",
        [draft[p] EXCEPT !.controls = Len(controls),
                         !.allowed = @ /\ ControlChecks(draft[p].decision)])
GateOrders(p) ==
  Reads(p, "gate_orders", "gate_broker_orders",
        [draft[p] EXCEPT !.allowed = @ /\ OtherOrdersChecks(draft[p].sym, draft[p].order)])
GateBrokerOrders(p) ==
  Reads(p, "gate_broker_orders", "append_gate",
        [draft[p] EXCEPT !.allowed = @ /\ BrokerOrderChecks(draft[p].sym, draft[p].broker)])
AppendGate(p) ==
  /\ pc[p] = "append_gate" /\ Ends(p)
  /\ gates' = Append(gates, draft[p])
  /\ UNCHANGED <<ledgerFiles, basis, brokerOrders, reconciliations>>

-----------------------------------------------------------------------------
GateNext ==
  \E p \in Procs :
    \/ Ledger(p)
    \/ CheckBrokerOrder(p) \/ SeekBrokerOrder(p) \/ AppendBrokerOrder(p)
    \/ ReadLocalOrders(p) \/ ReadPortfolio(p) \/ AppendReconciliation(p)
    \/ GateDecision(p) \/ GateOrder(p) \/ GateRisk(p) \/ GateReconciliation(p) \/ GateHealth(p)
    \/ GateControls(p) \/ GateOrders(p) \/ GateBrokerOrders(p) \/ AppendGate(p)
\* Neither terminals nor brokers are told apart.
Symmetry == Permutations(Procs) \cup Permutations(Brokers)

GateSpec == GateInit /\ [][GateNext]_gateVars

-----------------------------------------------------------------------------
(* Properties                                                              *)

\* A paper order that a broker has is not sent to it again, rejected or not, by
\* any command that looks for it later (broker_lifecycle.py 53-78, storage.py):
\* of two lines with one id, the second one's writer had looked before the first
\* was there.  Only two terminals can do that, between a look and an append.
BrokerOrderOnce ==
  \A i, j \in DOMAIN brokerOrders :
    SameBrokerOrder(brokerOrders[i], brokerOrders[j]) /\ i < j => brokerOrders[j].looked < i

\* Two books tell one story: of the orders the broker lists under a reference each
\* is listed once, every one is ours, under the status we have if it gives one, and
\* none of ours that is at work is left out.  Stated order by order, not on the
\* finding lists.
BooksTellOneStory(ours, theirs) ==
  /\ \A j \in DOMAIN theirs : theirs[j].ref # NoRef =>
       /\ \A k \in DOMAIN theirs \ {j} : theirs[k].ref # theirs[j].ref
       /\ \E i \in DOMAIN ours : ours[i].ref = theirs[j].ref
       /\ \A i \in DOMAIN ours :
            ours[i].ref = theirs[j].ref => theirs[j].status \in {ours[i].status, "absent"}
  /\ \A i \in DOMAIN ours : ours[i].status \in Tracked =>
       ours[i].ref # NoRef /\ \E j \in DOMAIN theirs : theirs[j].ref = ours[i].ref
LocalOrder == [ref : Refs \cup {NoRef}, status : Statuses]
LocalBook == UNION {[1..n -> LocalOrder] : n \in 0..MaxBook}
Misjudged ==
  {sides[1] : sides \in {s \in LocalBook \X ExternalBook :
                          OrdersMatched(s[1], s[2]) # BooksTellOneStory(s[1], s[2])}}
BookAt(b) ==
  LET ours == LocalOrders(b)
  IN  [i \in DOMAIN ours |-> [ref |-> ours[i].ref, status |-> ours[i].status]]

\* A reconciliation finds nothing wrong with the orders exactly when the two sides
\* tell one story (broker_reconciliation.py 107-171): none of the books that
\* commands leave at a broker is one that some list of the broker's is wrongly
\* matched or wrongly mismatched with.
MatchedMeansOneStory == \A b \in Brokers : BookAt(b) \notin Misjudged

\* A mismatch at a broker stops its gate until that broker is matched again, and
\* an order at work there for the symbol stops it for good, because no command
\* moves a broker order on (execution_safety.py 48-102): a gate that allows names
\* a matched reconciliation of its broker, and what speaks against it was not on
\* file when the command began.  The reconciliations of other brokers and the
\* health-check's view of the last of them change nothing in that.
MismatchStopsGate ==
  \A n \in DOMAIN gates :
    LET g == gates[n]
        l == g.reconciliation
    IN  g.allowed =>
          /\ l \in DOMAIN reconciliations
          /\ reconciliations[l].broker = g.broker /\ reconciliations[l].matched
          /\ \A m \in DOMAIN reconciliations :
               m > l /\ reconciliations[m].broker = g.broker /\ ~reconciliations[m].matched
                 => m > g.began.reconciliations
          /\ \A k \in DOMAIN brokerOrders :
               AtWork(brokerOrders[k], g.sym, g.broker) => k > g.began.brokerOrders

\* "Operator controls allow the order" (docs/architecture/M6F, Required
\* Checks): an order the gate passes has no control standing against it.
OrderOf(id) == orders[CHOOSE i \in DOMAIN orders : orders[i].decision = id]
GateObeysControls ==
  \A n \in DOMAIN gates :
    LET g == gates[n]
        seen == SubSeq(controls, 1, g.controls)
    IN  g.allowed =>
          \A i \in InScope(seen, g.sym) :
            StandsAgainst(seen[i], OrderOf(g.order)) =>
              \E j \in InScope(seen, g.sym) : seen[j].action = "RESUME" /\ Before(seen, i, j)
=============================================================================
