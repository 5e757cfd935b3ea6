----------------------------- MODULE PaperTrading -----------------------------
(***************************************************************************)
(* The local paper ledger: decide, operator-control, paper-order,          *)
(* paper-fill and portfolio-snapshot (decision.py, control.py, orders.py,  *)
(* portfolio.py), run as CLI commands over append-only JSONL files and one *)
(* file that is rewritten whole, paper_orders.jsonl.  A command is a       *)
(* sequence of file writes; no lock is taken, so the commands of several   *)
(* terminals interleave between them, and a crash stops one between two.   *)
(*                                                                         *)
(* Amounts of money are left out: a position is a level, the share of      *)
(* equity it is worth at the last price used, and a fill's quantity and    *)
(* price are a quote, which its id is made from.  An artifact's id is its  *)
(* place in its file; an order's id is a function of its decision, so it   *)
(* is the decision's.                                                      *)
(***************************************************************************)
EXTENDS Control

CONSTANTS
  Procs,          \* the terminals that run commands
  Times,          \* timestamps of control events
  MaxPosition,    \* max_position_pct: the level a BUY goes to
  Quotes,         \* the quantities and prices, paired, that tell fills of one order apart
  Faults,         \* subset of {"crash", "torn_write"}
  MaxDecisions,   \* bounds on the files' lengths
  MaxControls,
  MaxSnapshots

ASSUME TimesAssumption == Times \subseteq Nat
ASSUME MaxPositionAssumption == MaxPosition \in Levels
ASSUME QuotesAssumption == Quotes \subseteq Nat
ASSUME FaultsAssumption == Faults \subseteq {"crash", "torn_write"}

VARIABLES
  decisions,   \* strategy_decisions.jsonl
  controls,    \* control_events.jsonl
  orders,      \* paper_orders.jsonl
  fills,       \* paper_fills.jsonl, as a set: lines with one id are one fill
  snapshots,   \* portfolio_snapshots.jsonl
  curve,       \* equity_curve.jsonl, the snapshot each point was taken from
  pc,          \* the write each terminal's command does next, or "idle"
  hand,        \* what that command has read and computed
  lost         \* history only: the decisions whose order a torn rewrite dropped

vars == <<decisions, controls, orders, fills, snapshots, curve, pc, hand, lost>>

DecisionActions == {"BUY", "SELL", "REDUCE_RISK", "HOLD", "STOP_NEW_ENTRIES"}
Decision == [sym : Symbols, action : DecisionActions, target : Levels, tradeable : BOOLEAN]
Order == [decision : Nat, sym : Symbols, side : {"BUY", "SELL"}, target : Levels,
          status : {"CREATED", "FILLED"}]
\* PaperFill.build_id: filling an order again at another price or quantity is
\* another fill, at the same ones it is the same fill.
Fill == [order : Nat, quote : Nat]
\* booked is history only: the orders whose fills the snapshot has applied.
Snapshot == [pos : [Symbols -> Levels], booked : SUBSET Nat]

EmptyPortfolio == [pos |-> [s \in Symbols |-> 0], booked |-> {}]
MutLatest(saved) == IF saved = <<>> THEN EmptyPortfolio ELSE Head(saved)
Latest(saved) == IF saved = <<>> THEN EmptyPortfolio ELSE Last(saved)
\* _latest_or_empty_snapshot and its twin in decision.py save the portfolio
\* they make up when there is none.
LatestOrEmpty(saved) == IF saved = <<>> THEN <<EmptyPortfolio>> ELSE saved

Open(order) == order.status = "CREATED"
NothingInHand == [order |-> 0, quote |-> 0, orders |-> <<>>, snapshot |-> EmptyPortfolio]

Idle(p) == pc[p] = "idle"
Goto(p, step) == pc' = [pc EXCEPT ![p] = step]
Finish(p) == Goto(p, "idle") /\ hand' = [hand EXCEPT ![p] = NothingInHand]

Init ==
  /\ decisions = <<>> /\ controls = <<>> /\ orders = <<>>
  /\ fills = {} /\ snapshots = <<>> /\ curve = <<>>
  /\ pc = [p \in Procs |-> "idle"]
  /\ hand = [p \in Procs |-> NothingInHand]
  /\ lost = {}

-----------------------------------------------------------------------------
(* decide, operator-control                                                *)

\* What a decision may recommend for a position worth cur; without a forecast,
\* STOP_NEW_ENTRIES asks for none.  Half of a held position is still a position.
MutHalf(n) == IF n > 1 THEN n \div 2 ELSE n - 1
Half(n) == IF n > 1 THEN n \div 2 ELSE n
Smaller(m, n) == IF m < n THEN m ELSE n
NoEntries(s, target) ==
  [sym |-> s, action |-> "STOP_NEW_ENTRIES", target |-> target, tradeable |-> FALSE]
Recommended(s, cur) ==
  { [sym |-> s, action |-> "BUY", target |-> MaxPosition, tradeable |-> TRUE],
    [sym |-> s, action |-> "SELL", target |-> 0, tradeable |-> TRUE],
    [sym |-> s, action |-> "REDUCE_RISK", target |-> Half(Smaller(cur, MaxPosition)),
     tradeable |-> cur > 0],
    [sym |-> s, action |-> "HOLD", target |-> cur, tradeable |-> FALSE],
    NoEntries(s, Smaller(cur, MaxPosition)), NoEntries(s, 0) }

\* The evidence that picks among the actions is another component's.  Each run
\* takes a risk snapshot of its own, whose id is part of the decision's: the id
\* is new, and a run repeated at the same --now appends nothing.
Decide(p) ==
  /\ Idle(p) /\ Len(decisions) < MaxDecisions
  /\ \E s \in Symbols :
       \E d \in Recommended(s, Latest(snapshots).pos[s]) : decisions' = Append(decisions, d)
  /\ snapshots' = LatestOrEmpty(snapshots)
  /\ UNCHANGED <<controls, orders, fills, curve, pc, hand, lost>>

\* health-check asks for a repair: the decision is made without the portfolio.
DecideFailClosed(p) ==
  /\ Idle(p) /\ Len(decisions) < MaxDecisions
  /\ \E s \in Symbols : decisions' = Append(decisions, NoEntries(s, 0))
  /\ UNCHANGED <<controls, orders, fills, snapshots, curve, pc, hand, lost>>

RecordControl(p) ==
  /\ Idle(p) /\ Len(controls) < MaxControls
  /\ \E e \in ControlEvent(Times) :
       /\ e.action # "SET_MAX_POSITION" => e.cap = 0
       /\ controls' = Append(controls, e)
  /\ UNCHANGED <<decisions, orders, fills, snapshots, curve, pc, hand, lost>>

-----------------------------------------------------------------------------
(* paper-order: read decision, controls and orders; then append            *)

Orderable(d) == d.action \notin {"HOLD", "STOP_NEW_ENTRIES"} /\ d.tradeable
NoActiveOrder(s) == \A i \in DOMAIN orders : ~(orders[i].sym = s /\ Open(orders[i]))

MutCheckOrder(p) ==
  /\ Idle(p)
  /\ \E id \in DOMAIN decisions :
       LET d == decisions[id] IN
       /\ Orderable(d)
       /\ ~Blocked(CurrentState(controls, d.sym), d.action, d.target)
       /\ \A i \in DOMAIN orders : orders[i].decision = id => ~Open(orders[i])
       /\ hand' = [hand EXCEPT ![p].order = id]
  /\ Goto(p, "order")
  /\ UNCHANGED <<decisions, controls, orders, fills, snapshots, curve, lost>>
MutCheckOrderControls(p) ==
  /\ Idle(p)
  /\ \E id \in DOMAIN decisions :
       LET d == decisions[id] IN
       /\ Orderable(d)
       /\ d.action = "BUY" => ~Blocked(CurrentState(controls, d.sym), d.action, d.target)
       /\ NoActiveOrder(d.sym)
       /\ hand' = [hand EXCEPT ![p].order = id]
  /\ Goto(p, "order")
  /\ UNCHANGED <<decisions, controls, orders, fills, snapshots, curve, lost>>
CheckOrder(p) ==
  /\ Idle(p)
  /\ \E id \in DOMAIN decisions :
       LET d == decisions[id] IN
       /\ Orderable(d)
       /\ ~Blocked(CurrentState(controls, d.sym), d.action, d.target)
       /\ NoActiveOrder(d.sym)
       /\ hand' = [hand EXCEPT ![p].order = id]
  /\ Goto(p, "order")
  /\ UNCHANGED <<decisions, controls, orders, fills, snapshots, curve, lost>>

Side(action) == IF action = "BUY" THEN "BUY" ELSE "SELL"
NewOrder(id) ==
  [decision |-> id, sym |-> decisions[id].sym, side |-> Side(decisions[id].action),
   target |-> decisions[id].target, status |-> "CREATED"]

\* save_paper_order looks for the id in the file and then opens it to append: a
\* decision already ordered is reported as created again and nothing is written.
MutSeekOrder(p) ==
  /\ pc[p] = "order"
  /\ Goto(p, "append_order")
  /\ UNCHANGED <<decisions, controls, orders, fills, snapshots, curve, hand, lost>>
SeekOrder(p) ==
  /\ pc[p] = "order"
  /\ IF \E i \in DOMAIN orders : orders[i].decision = hand[p].order
     THEN Finish(p) ELSE Goto(p, "append_order") /\ UNCHANGED hand
  /\ UNCHANGED <<decisions, controls, orders, fills, snapshots, curve, lost>>
AppendOrder(p) ==
  /\ pc[p] = "append_order"
  /\ orders' = Append(orders, NewOrder(hand[p].order))
  /\ Finish(p)
  /\ UNCHANGED <<decisions, controls, fills, snapshots, curve, lost>>

-----------------------------------------------------------------------------
(* paper-fill: the order list as read is rewritten, then three appends     *)

\* The position's worth at --market-price, which is positive: what is held is
\* worth something, and nothing held is worth nothing.
Worths(s) == IF Latest(snapshots).pos[s] = 0 THEN {0} ELSE Levels \ {0}
FillRequired(order, worth) ==
  IF order.side = "BUY" THEN order.target > worth
  ELSE Latest(snapshots).pos[order.sym] > 0 /\ worth > order.target

Marked(i) == [orders EXCEPT ![i].status = "FILLED"]

\* What filling the i-th order comes to: the rewritten list, the fill and the
\* portfolio after it.
FillInHand(i, quote) ==
  LET order == orders[i]
      before == Latest(snapshots)
  IN  [order |-> order.decision, quote |-> quote,
       orders |-> Marked(i),
       snapshot |-> [pos |-> [before.pos EXCEPT ![order.sym] = order.target],
                     booked |-> before.booked \cup {order.decision}]]

ReadFill(p) ==
  /\ Idle(p) /\ Len(snapshots) < MaxSnapshots
  /\ \E i \in DOMAIN orders :
       /\ Open(orders[i])
       /\ \E worth \in Worths(orders[i].sym) : FillRequired(orders[i], worth)
       /\ \E quote \in Quotes : hand' = [hand EXCEPT ![p] = FillInHand(i, quote)]
  /\ snapshots' = LatestOrEmpty(snapshots)
  /\ Goto(p, "mark_filled")
  /\ UNCHANGED <<decisions, controls, orders, fills, curve, lost>>

\* no_fill_required: the order stays open; only a first portfolio is saved.
SkipFill(p) ==
  /\ Idle(p)
  /\ \E i \in DOMAIN orders :
       Open(orders[i]) /\ \E worth \in Worths(orders[i].sym) : ~FillRequired(orders[i], worth)
  /\ snapshots' = LatestOrEmpty(snapshots)
  /\ UNCHANGED <<decisions, controls, orders, fills, curve, pc, hand, lost>>

\* replace_paper_orders writes the list that was read, not what is on disk now.
MutMarkFilled(p) ==
  /\ pc[p] = "mark_filled"
  /\ fills' = fills \cup {[order |-> hand[p].order, quote |-> hand[p].quote]}
  /\ Goto(p, "save_fill")
  /\ UNCHANGED <<decisions, controls, orders, snapshots, curve, hand, lost>>
MutSkipFillRow(p) ==
  /\ pc[p] = "mark_filled"
  /\ orders' = hand[p].orders
  /\ Goto(p, "save_snapshot")
  /\ UNCHANGED <<decisions, controls, fills, snapshots, curve, hand, lost>>
MutKeepOpenOnly(p) ==
  /\ pc[p] = "mark_filled"
  /\ orders' = SelectSeq(hand[p].orders, Open)
  /\ Goto(p, "save_fill")
  /\ UNCHANGED <<decisions, controls, fills, snapshots, curve, hand, lost>>
MarkFilled(p) ==
  /\ pc[p] = "mark_filled"
  /\ orders' = hand[p].orders
  /\ Goto(p, "save_fill")
  /\ UNCHANGED <<decisions, controls, fills, snapshots, curve, hand, lost>>

SaveFill(p) ==
  /\ pc[p] = "save_fill"
  /\ fills' = fills \cup {[order |-> hand[p].order, quote |-> hand[p].quote]}
  /\ Goto(p, "save_snapshot")
  /\ UNCHANGED <<decisions, controls, orders, snapshots, curve, hand, lost>>

SaveSnapshot(p) ==
  /\ pc[p] = "save_snapshot"
  /\ snapshots' = Append(snapshots, hand[p].snapshot)
  /\ Goto(p, "save_point")
  /\ UNCHANGED <<decisions, controls, orders, fills, curve, hand, lost>>

SavePoint(p) ==
  /\ pc[p] = "save_point"
  /\ curve' = Append(curve, hand[p].snapshot)
  /\ Finish(p)
  /\ UNCHANGED <<decisions, controls, orders, fills, snapshots, lost>>

-----------------------------------------------------------------------------
(* portfolio-snapshot: one symbol's position marked to a price             *)

ReadMark(p) ==
  /\ Idle(p) /\ Len(snapshots) < MaxSnapshots
  /\ \E s \in Symbols : \E worth \in Worths(s) :
       hand' = [hand EXCEPT ![p].snapshot = [Latest(snapshots) EXCEPT !.pos[s] = worth]]
  /\ snapshots' = LatestOrEmpty(snapshots)
  /\ Goto(p, "save_snapshot")
  /\ UNCHANGED <<decisions, controls, orders, fills, curve, lost>>

-----------------------------------------------------------------------------
(* Faults                                                                  *)

Crash(p) ==
  /\ "crash" \in Faults /\ ~Idle(p)
  /\ Finish(p)
  /\ UNCHANGED <<decisions, controls, orders, fills, snapshots, curve, lost>>

\* The rewrite truncates the file first; a crash in it keeps a prefix.
TornReplace(p) ==
  /\ "torn_write" \in Faults /\ pc[p] = "mark_filled"
  /\ \E kept \in 0 .. Len(hand[p].orders) - 1 :
       /\ orders' = SubSeq(hand[p].orders, 1, kept)
       /\ lost' = lost \cup {hand[p].orders[i].decision : i \in (kept + 1)..Len(hand[p].orders)}
  /\ Finish(p)
  /\ UNCHANGED <<decisions, controls, fills, snapshots, curve>>

-----------------------------------------------------------------------------
Step(p) ==
  \/ Decide(p) \/ DecideFailClosed(p) \/ RecordControl(p)
  \/ CheckOrder(p) \/ SeekOrder(p) \/ AppendOrder(p)
  \/ ReadFill(p) \/ SkipFill(p) \/ MarkFilled(p) \/ SaveFill(p)
  \/ SaveSnapshot(p) \/ SavePoint(p)
  \/ ReadMark(p)
  \/ Crash(p) \/ TornReplace(p)

Next == \E p \in Procs : Step(p)
Spec == Init /\ [][Next]_vars

-----------------------------------------------------------------------------
(* Properties                                                              *)

\* Between what a command of BrokerGate reads and what it appends: none of
\* these writes a file of this module.
BrokerOrderSteps == {"broker_order", "append_broker_order"}
ReconcileSteps == {"reconcile", "append_reconciliation"}
GateSteps == {"gate_order", "gate_risk", "gate_reconciliation", "gate_health", "gate_controls",
              "gate_orders", "gate_broker_orders", "append_gate"}
BrokerSteps == BrokerOrderSteps \cup ReconcileSteps \cup GateSteps
Ordering == {"order", "append_order"}
Steps == {"idle", "mark_filled", "save_fill", "save_snapshot", "save_point"} \cup Ordering \cup BrokerSteps
Hand == [order : Nat, quote : Nat, orders : Seq(Order), snapshot : Snapshot]

\* Every file holds what its model writes.
TypeOK ==
  /\ decisions \in Seq(Decision)
  /\ controls \in Seq(ControlEvent(Times))
  /\ orders \in Seq(Order)
  /\ fills \subseteq Fill
  /\ snapshots \in Seq(Snapshot)
  /\ curve \in Seq(Snapshot)
  /\ pc \in [Procs -> Steps]
  /\ hand \in [Procs -> Hand]
  /\ lost \subseteq Nat

\* "The same active symbol cannot receive a second paper order until the open
\* paper order is handled" (orders.py 99-107): a symbol has one open order.
OneActiveOrder ==
  \A i, j \in DOMAIN orders :
    Open(orders[i]) /\ Open(orders[j]) /\ orders[i].sym = orders[j].sym => i = j

\* A decision is ordered once, however often and however long after its order
\* was filled paper-order is run for it, from one terminal (storage.py,
\* save_paper_order).
DecisionOrderedOnce ==
  \A i, j \in DOMAIN orders : orders[i].decision = orders[j].decision => i = j

\* No order is filled twice (portfolio.py 40-79), a crash between the writes of
\* a fill and a second run of the command included, unless a torn rewrite lost
\* the order.
FillAtMostOnce == \A f, g \in fills : f.order = g.order => f = g \/ f.order \in lost

\* What the latest portfolio has applied was filled, and what was filled is
\* marked FILLED, if a torn rewrite left its line: the writes of a fill go in
\* the order a crash can only cut short (portfolio.py 75-78), so no position is
\* unexplained.
Filled == {orders[i].decision : i \in {k \in DOMAIN orders : ~Open(orders[k])}}
FilledOrders == {f.order : f \in fills}
BooksTrail ==
  /\ FilledOrders \subseteq Filled \cup lost
  /\ \A i \in DOMAIN snapshots : snapshots[i].booked \subseteq FilledOrders

\* Between commands, and without faults, the four files agree: what is marked
\* FILLED has its fill, the latest portfolio has applied all of them, and the
\* equity curve has every portfolio but the empty one made up at the start.
BooksBalance ==
  (\A p \in Procs : Idle(p)) =>
    /\ Filled = FilledOrders
    /\ Latest(snapshots).booked = FilledOrders
    /\ curve = snapshots \/ (snapshots # <<>> /\ curve = Tail(snapshots))

\* EMERGENCY_STOP and PAUSE stop every order, STOP_NEW_ENTRIES and REDUCE_RISK
\* every BUY, SET_MAX_POSITION those above it (control.py 142-162): an order is
\* never written while a control recorded for its symbol stands against it.
\* Stated on the events themselves, not on the state folded from them.
StandsAgainst(e, order) ==
  \/ e.action \in {"EMERGENCY_STOP", "PAUSE"}
  \/ e.action \in {"STOP_NEW_ENTRIES", "REDUCE_RISK"} /\ order.side = "BUY"
Lifted(i, s) ==
  \E j \in InScope(controls, s) : controls[j].action = "RESUME" /\ Before(controls, i, j)
CapInForce(i, s) ==
  /\ controls[i].action = "SET_MAX_POSITION"
  /\ \A j \in InScope(controls, s) :
       controls[j].action = "SET_MAX_POSITION" => ~Before(controls, i, j)
ControlsStopOrders ==
  [][\A k \in DOMAIN orders' \ DOMAIN orders :
       LET order == orders'[k] IN
       \A i \in InScope(controls, order.sym) :
         /\ StandsAgainst(controls[i], order) => Lifted(i, order.sym)
         /\ CapInForce(i, order.sym) /\ order.side = "BUY" => order.target <= controls[i].cap]_vars

\* What the fold over the events means to the operator who recorded them
\* (control.py 114-139): a control holds exactly while no later RESUME in scope
\* has lifted it, by timestamps and not by file order; a cap holds until the
\* next cap; a control for one symbol leaves the others alone.
StandingControl(s, actions) ==
  \E i \in InScope(controls, s) :
    /\ controls[i].action \in actions
    /\ \A j \in InScope(controls, s) : controls[j].action = "RESUME" => ~Before(controls, i, j)

ControlMeaning ==
  \A s \in Symbols :
    LET state == CurrentState(controls, s)
        caps == {i \in InScope(controls, s) : controls[i].action = "SET_MAX_POSITION"}
    IN  /\ state.emergency <=> StandingControl(s, {"EMERGENCY_STOP"})
        /\ state.paused <=> StandingControl(s, {"EMERGENCY_STOP", "PAUSE"})
        /\ state.reduce <=> StandingControl(s, {"EMERGENCY_STOP", "REDUCE_RISK"})
        /\ state.stop <=> StandingControl(s, {"EMERGENCY_STOP", "REDUCE_RISK", "STOP_NEW_ENTRIES"})
        /\ IF caps = {} THEN state.cap = NoCap
           ELSE \E i \in caps : /\ state.cap = controls[i].cap
                                /\ \A j \in caps : ~Before(controls, i, j)

\* An order's life is CREATED then FILLED and its line is never lost or changed
\* otherwise, though the file is rewritten from a list read earlier
\* (portfolio.py 75, storage.py, replace_paper_orders).
OrdersKept ==
  [][\A i \in DOMAIN orders :
       /\ i \in DOMAIN orders'
       /\ orders'[i] \in {orders[i], [orders[i] EXCEPT !.status = "FILLED"]}]_vars
=============================================================================
