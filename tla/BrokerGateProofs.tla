--------------------------- MODULE BrokerGateProofs ---------------------------
(***************************************************************************)
(* Theorems about BrokerGate, for any number of terminals, brokers, orders *)
(* and reconciliations, every length of the books and every fault.         *)
(***************************************************************************)
EXTENDS BrokerGate, PaperTradingProofs, WellFoundedInduction

-----------------------------------------------------------------------------
(* The two books.                                                          *)

\* Finding nothing wrong with two lists is the same as their telling one story,
\* whichever of several external orders with one reference is compared, and
\* whatever the orders without a reference say.
LEMMA FindingsAreStory ==
  ASSUME NEW ours, NEW n \in Nat, NEW theirs \in [1..n -> ExternalOrder]
  PROVE  OrdersMatched(ours, theirs) <=> BooksTellOneStory(ours, theirs)
<1>d. DOMAIN theirs \subseteq Nat
  OBVIOUS
<1>1. ASSUME OrdersMatched(ours, theirs) PROVE BooksTellOneStory(ours, theirs)
  <2>1. \A j, k \in DOMAIN theirs : theirs[j].ref = theirs[k].ref /\ theirs[j].ref # NoRef => j = k
    BY <1>1 DEF OrdersMatched, DuplicateExternal
  <2>2. ASSUME NEW j \in DOMAIN theirs, theirs[j].ref # NoRef
        PROVE  \E i \in DOMAIN ours : ours[i].ref = theirs[j].ref
    <3>1. theirs[j].ref \in RefsIn(theirs)
      BY <2>2 DEF RefsIn
    <3>2. theirs[j].ref \in RefsIn(ours)
      BY <1>1, <3>1 DEF OrdersMatched, UnknownExternal
    <3> QED BY <3>2 DEF RefsIn
  <2>3. ASSUME NEW i \in DOMAIN ours, NEW j \in DOMAIN theirs, theirs[j].ref # NoRef,
               ours[i].ref = theirs[j].ref
        PROVE  theirs[j].status \in {ours[i].status, "absent"}
    <3>1. \A k \in DOMAIN theirs : k > j => theirs[k].ref # ours[i].ref
      BY <1>d, <2>1, <2>3
    <3> QED BY <1>1, <2>3, <3>1 DEF OrdersMatched, StatusMismatch
  <2>4. ASSUME NEW i \in DOMAIN ours, ours[i].status \in Tracked
        PROVE  ours[i].ref # NoRef /\ \E j \in DOMAIN theirs : theirs[j].ref = ours[i].ref
    <3>1. ours[i].ref \in RefsIn(theirs)
      BY <1>1, <2>4 DEF OrdersMatched, MissingExternal
    <3> QED BY <3>1 DEF RefsIn
  <2> QED BY <2>1, <2>2, <2>3, <2>4 DEF BooksTellOneStory
<1>2. ASSUME BooksTellOneStory(ours, theirs) PROVE OrdersMatched(ours, theirs)
  <2>1. ~MissingExternal(ours, theirs)
    BY <1>2 DEF BooksTellOneStory, MissingExternal, RefsIn
  <2>2. ~UnknownExternal(ours, theirs)
    BY <1>2 DEF BooksTellOneStory, UnknownExternal, RefsIn
  <2>3. ~DuplicateExternal(theirs)
    BY <1>2 DEF BooksTellOneStory, DuplicateExternal
  <2>4. ~StatusMismatch(ours, theirs)
    <3> SUFFICES ASSUME NEW i \in DOMAIN ours, NEW j \in DOMAIN theirs,
                        ours[i].ref = theirs[j].ref, ours[i].ref # NoRef
                 PROVE  theirs[j].status \in {"absent", ours[i].status}
      BY DEF StatusMismatch
    <3> QED BY <1>2 DEF BooksTellOneStory
  <2> QED BY <2>1, <2>2, <2>3, <2>4 DEF OrdersMatched
<1> QED BY <1>1, <1>2

\* A reconciliation finds nothing to report exactly when the broker's book and
\* ours tell one story, for books of any length and every set of references and
\* statuses: there is no local book to misjudge, so none is ever on file.
THEOREM MatchedIsStory ==
  /\ \A ours \in LocalBook, theirs \in ExternalBook :
       OrdersMatched(ours, theirs) <=> BooksTellOneStory(ours, theirs)
  /\ GateSpec => []MatchedMeansOneStory
<1>1. ASSUME NEW ours \in LocalBook, NEW theirs \in ExternalBook
      PROVE  OrdersMatched(ours, theirs) <=> BooksTellOneStory(ours, theirs)
  <2>1. PICK n \in 0..MaxBook : theirs \in [1..n -> ExternalOrder]
    BY DEF ExternalBook
  <2>2. n \in Nat
    BY MaxBookAssumption
  <2> QED BY <2>1, <2>2, FindingsAreStory
<1>2. Misjudged = {}
  <2>1. ASSUME NEW ours \in LocalBook, NEW theirs \in ExternalBook
        PROVE  OrdersMatched(ours, theirs) = BooksTellOneStory(ours, theirs)
    <3>1. /\ OrdersMatched(ours, theirs) \in BOOLEAN
          /\ BooksTellOneStory(ours, theirs) \in BOOLEAN
      BY DEF OrdersMatched, BooksTellOneStory
    <3> QED BY <1>1, <3>1
  <2> QED BY <2>1 DEF Misjudged
<1>3. MatchedMeansOneStory
  BY <1>2 DEF MatchedMeansOneStory
<1>4. GateSpec => []MatchedMeansOneStory
  BY <1>3, PTL
<1> QED BY <1>1, <1>4

-----------------------------------------------------------------------------
(* The latest of the rows a command selects.                               *)

LEMMA LastOfIs ==
  ASSUME NEW n \in Nat, NEW found \in SUBSET (1..n), found # {}
  PROVE  LastOf(found) \in found /\ \A j \in found : j <= LastOf(found)
<1> DEFINE fromEnd == {n - i : i \in found}
<1>1. fromEnd \subseteq Nat /\ fromEnd # {}
  <2>1. PICK i : i \in found
    OBVIOUS
  <2>2. n - i \in fromEnd
    BY <2>1
  <2>3. \A j \in found : n - j \in Nat
    OBVIOUS
  <2> QED BY <2>2, <2>3
<1>2. PICK x \in fromEnd : \A y \in fromEnd : ~(<<y, x>> \in OpToRel(<, Nat))
  BY <1>1, WFMin, NatLessThanWellFounded
<1>3. \A y \in fromEnd : ~(y < x)
  BY <1>1, <1>2 DEF OpToRel
<1>4. PICK i \in found : x = n - i
  OBVIOUS
<1>5. \A j \in found : j <= i
  BY <1>3, <1>4
<1> QED BY <1>4, <1>5 DEF LastOf

-----------------------------------------------------------------------------
(* Type correctness: PaperTrading's files, and the three more.             *)

BrokerOrder == [order : Nat, sym : Symbols, broker : Brokers, status : Statuses,
                ref : Refs \cup {NoRef}, looked : Nat]
Reconciliation == [broker : Brokers, matched : BOOLEAN]
Gate == [sym : Symbols, broker : Brokers, decision : Nat, order : Nat, reconciliation : Nat,
         allowed : BOOLEAN, controls : Nat, began : [reconciliations : Nat, brokerOrders : Nat]]
\* What a command has in its draft at a step.
RowTyped(step, row) ==
  /\ step \in BrokerOrderSteps => row \in BrokerOrder
  /\ step \in ReconcileSteps => row \in Reconciliation
  /\ step \in GateSteps => row \in Gate
GateTypeInv ==
  /\ TypeInv
  /\ brokerOrders \in Seq(BrokerOrder)
  /\ reconciliations \in Seq(Reconciliation)
  /\ gates \in Seq(Gate)
  /\ DOMAIN draft = Procs
  /\ \A p \in Procs : RowTyped(pc[p], draft[p])

LEMMA StepsApart ==
  /\ "idle" \notin BrokerSteps
  /\ \A step \in BrokerSteps : step \notin Ordering
  /\ \A step \in BrokerOrderSteps : step \notin ReconcileSteps \cup GateSteps
  /\ \A step \in ReconcileSteps : step \notin GateSteps
BY DEF BrokerSteps, BrokerOrderSteps, ReconcileSteps, GateSteps, Ordering

LEMMA GateTypeInit == GateInit => GateTypeInv
<1> SUFFICES ASSUME GateInit PROVE GateTypeInv
  OBVIOUS
<1>1. TypeInv /\ \A p \in Procs : pc[p] = "idle"
  BY TypeInvInit DEF GateInit, Init
<1>2. DOMAIN draft = Procs
  BY DEF GateInit
<1> QED BY <1>1, <1>2, StepsApart DEF GateInit, GateTypeInv, RowTyped, BrokerSteps

\* The draft after a step, and where the terminal is.
LEMMA AfterRead ==
  ASSUME GateTypeInv, NEW p \in Procs, NEW step, NEW next, NEW row, Reads(p, step, next, row)
  PROVE  /\ pc[p] = step /\ pc'[p] = next /\ draft'[p] = row /\ DOMAIN draft' = Procs
         /\ \A q \in Procs \ {p} : pc'[q] = pc[q] /\ draft'[q] = draft[q]
         /\ UNCHANGED <<hand, brokerOrders, reconciliations, gates>>
BY DEF Reads, Goto, GateTypeInv, TypeInv, TypeOK

LEMMA AfterEnd ==
  ASSUME GateTypeInv, NEW p \in Procs, Ends(p)
  PROVE  /\ pc'[p] = "idle" /\ DOMAIN draft' = Procs
         /\ \A q \in Procs \ {p} : pc'[q] = pc[q] /\ draft'[q] = draft[q]
BY DEF Ends, Finish, Goto, GateTypeInv, TypeInv, TypeOK

\* A ledger command is a step of PaperTrading; it leaves the drafts and enters
\* no step of a command of this module.
LEMMA AfterLedger ==
  ASSUME GateTypeInv, NEW p \in Procs, Ledger(p)
  PROVE  /\ UNCHANGED <<brokerOrders, reconciliations, gates, draft>>
         /\ \A q \in Procs : pc'[q] \in BrokerSteps => pc'[q] = pc[q]
<1>1. pc \in [Procs -> Steps]
  BY DEF GateTypeInv, TypeInv, TypeOK
<1>2. UNCHANGED <<brokerOrders, reconciliations, gates, draft>> /\ Step(p)
  BY DEF Ledger, brokerVars
<1>3. pc' = pc \/ \E next \in {"idle", "order", "append_order", "mark_filled", "save_fill",
                               "save_snapshot", "save_point"} : pc' = [pc EXCEPT ![p] = next]
  BY <1>2 DEF Step, Decide, DecideFailClosed, RecordControl, CheckOrder, SeekOrder, AppendOrder,
     ReadFill, SkipFill, MarkFilled, SaveFill, SaveSnapshot, SavePoint, ReadMark, Crash,
     TornReplace, Goto, Finish
<1> QED BY <1>1, <1>2, <1>3 DEF BrokerSteps, BrokerOrderSteps, ReconcileSteps, GateSteps

\* The rows of a sequence that a command selects.
LEMMA LatestIs ==
  ASSUME NEW S, NEW list \in Seq(S), NEW found \in SUBSET DOMAIN list
  PROVE  /\ LastOf(found) \in Nat
         /\ LastOf(found) # 0 =>
              LastOf(found) \in found /\ \A j \in found : j <= LastOf(found)
<1>1. CASE found = {}
  BY <1>1 DEF LastOf
<1>2. CASE found # {}
  <2>1. Len(list) \in Nat /\ found \in SUBSET (1..Len(list))
    OBVIOUS
  <2>2. LastOf(found) \in found /\ \A j \in found : j <= LastOf(found)
    BY <1>2, <2>1, LastOfIs
  <2> QED BY <2>1, <2>2
<1> QED BY <1>1, <1>2


\* The rows that the reads of each command make have their types.
LEMMA DraftedOrder ==
  ASSUME GateTypeInv, NEW p \in Procs, CheckBrokerOrder(p)
  PROVE  \E row \in BrokerOrder : row.looked = 0 /\ Reads(p, "idle", "broker_order", row)
<1>1. PICK i \in DOMAIN orders, b \in Brokers, status \in Statuses, ref \in Refs \cup {NoRef} :
        Reads(p, "idle", "broker_order",
              [order |-> orders[i].decision, sym |-> orders[i].sym, broker |-> b,
               status |-> status, ref |-> ref, looked |-> 0])
  BY DEF CheckBrokerOrder
<1>2. orders[i] \in Order
  BY DEF GateTypeInv, TypeInv, TypeOK
<1>3. [order |-> orders[i].decision, sym |-> orders[i].sym, broker |-> b, status |-> status,
       ref |-> ref, looked |-> 0] \in BrokerOrder
  BY <1>2 DEF Order, BrokerOrder
<1> QED BY <1>1, <1>3

LEMMA SoughtOrder ==
  ASSUME GateTypeInv, NEW p \in Procs, pc[p] = "broker_order"
  PROVE  /\ draft[p] \in BrokerOrder
         /\ [draft[p] EXCEPT !.looked = Len(brokerOrders)] \in BrokerOrder
<1>1. draft[p] \in BrokerOrder
  BY DEF GateTypeInv, RowTyped, BrokerOrderSteps
<1>2. Len(brokerOrders) \in Nat
  BY DEF GateTypeInv
<1> QED BY <1>1, <1>2 DEF BrokerOrder

\* The decision, the order and the reconciliation that the gate selects.
LEMMA Selected ==
  ASSUME GateTypeInv, NEW s, NEW id, NEW b
  PROVE  /\ LatestDecision(s) \in Nat
         /\ SelectedOrder(s, id) \in Nat
         /\ SelectedOrder(s, id) # 0 => SelectedOrder(s, id) \in DOMAIN orders
         /\ LatestReconciliation(b) \in Nat
         /\ LatestReconciliation(b) # 0 =>
              /\ LatestReconciliation(b) \in DOMAIN reconciliations
              /\ reconciliations[LatestReconciliation(b)].broker = b
              /\ \A m \in DOMAIN reconciliations :
                   reconciliations[m].broker = b => m <= LatestReconciliation(b)
<1>t. decisions \in Seq(Decision) /\ orders \in Seq(Order) /\ reconciliations \in Seq(Reconciliation)
  BY DEF GateTypeInv, TypeInv, TypeOK
<1>1. LatestDecision(s) \in Nat
  BY <1>t, LatestIs DEF LatestDecision
<1>2. /\ SelectedOrder(s, id) \in Nat
      /\ SelectedOrder(s, id) # 0 => SelectedOrder(s, id) \in DOMAIN orders
  <2> DEFINE ofSymbol == {k \in DOMAIN orders : orders[k].sym = s}
             own == {k \in ofSymbol : orders[k].decision = id}
             found == IF own # {} THEN own ELSE ofSymbol
  <2>1. found \in SUBSET DOMAIN orders /\ SelectedOrder(s, id) = LastOf(found)
    BY DEF SelectedOrder
  <2> HIDE DEF found
  <2> QED BY <1>t, <2>1, LatestIs
<1>3. /\ LatestReconciliation(b) \in Nat
      /\ LatestReconciliation(b) # 0 =>
           /\ LatestReconciliation(b) \in DOMAIN reconciliations
           /\ reconciliations[LatestReconciliation(b)].broker = b
           /\ \A m \in DOMAIN reconciliations :
                reconciliations[m].broker = b => m <= LatestReconciliation(b)
  <2> DEFINE found == {i \in DOMAIN reconciliations : reconciliations[i].broker = b}
  <2>1. found \in SUBSET DOMAIN reconciliations /\ LatestReconciliation(b) = LastOf(found)
    BY DEF LatestReconciliation
  <2>2. /\ LastOf(found) \in Nat
        /\ LastOf(found) # 0 => LastOf(found) \in found /\ \A j \in found : j <= LastOf(found)
    <3> HIDE DEF found
    <3> QED BY <1>t, <2>1, LatestIs
  <2> QED BY <2>1, <2>2
<1> QED BY <1>1, <1>2, <1>3

LEMMA GateRow ==
  ASSUME NEW row \in Gate, NEW check
  PROVE  [row EXCEPT !.allowed = @ /\ check] \in Gate
BY DEF Gate

-----------------------------------------------------------------------------
(* Preservation of the types.                                              *)

\* Reading leaves the files alone and puts a row in the draft.
LEMMA ReadTyped ==
  ASSUME GateTypeInv, NEW p \in Procs, NEW step, NEW next \in BrokerSteps, NEW row,
         Reads(p, step, next, row), RowTyped(next, row)
  PROVE  GateTypeInv'
<1>1. /\ UNCHANGED <<ledgerFiles, hand, brokerOrders, reconciliations, gates>>
      /\ pc' = [pc EXCEPT ![p] = next]
  BY DEF Reads, Goto
<1>2. next \in Steps /\ next \notin Ordering
  BY StepsApart DEF Steps
<1>3. pc' \in [Procs -> Steps] /\ \A q \in Procs : pc'[q] \in Ordering => pc'[q] = pc[q]
  BY <1>1, <1>2 DEF GateTypeInv, TypeInv, TypeOK
<1>4. TypeInv'
  BY <1>1, <1>3 DEF GateTypeInv, TypeInv, TypeOK, ledgerFiles
<1>5. DOMAIN draft' = Procs /\ \A q \in Procs : RowTyped(pc'[q], draft'[q])
  BY AfterRead DEF GateTypeInv
<1> QED BY <1>1, <1>4, <1>5 DEF GateTypeInv, RowTyped

\* So does the end of a command, which empties the draft.
LEMMA EndTyped ==
  ASSUME GateTypeInv, NEW p \in Procs, Ends(p), UNCHANGED ledgerFiles
  PROVE  TypeInv' /\ DOMAIN draft' = Procs /\ \A q \in Procs : RowTyped(pc'[q], draft'[q])
<1>1. /\ pc' = [pc EXCEPT ![p] = "idle"] /\ hand' = [hand EXCEPT ![p] = NothingInHand]
      /\ UNCHANGED ledgerFiles
  BY DEF Ends, Finish, Goto
<1>2. "idle" \in Steps /\ "idle" \notin Ordering
  BY DEF Steps, Ordering
<1>3. pc' \in [Procs -> Steps] /\ hand' \in [Procs -> Hand]
  BY <1>1, <1>2, NothingType DEF GateTypeInv, TypeInv, TypeOK
<1>4. \A q \in Procs : pc'[q] \in Ordering => pc'[q] = pc[q] /\ hand'[q] = hand[q]
  BY <1>1, <1>2 DEF GateTypeInv, TypeInv, TypeOK
<1>5. TypeInv'
  BY <1>1, <1>3, <1>4 DEF GateTypeInv, TypeInv, TypeOK, ledgerFiles
<1>6. \A q \in Procs : RowTyped(pc'[q], draft'[q])
  BY AfterEnd, StepsApart DEF GateTypeInv, RowTyped, BrokerSteps
<1> QED BY <1>5, <1>6, AfterEnd

LEMMA LedgerTyped ==
  ASSUME GateTypeInv, NEW p \in Procs, Ledger(p)
  PROVE  GateTypeInv'
<1>1. TypeInv'
  <2>1. [Next]_vars
    BY DEF Ledger, Next
  <2> QED BY <2>1, TypeInvNext DEF GateTypeInv
<1>2. \A q \in Procs : RowTyped(pc'[q], draft'[q])
  BY AfterLedger DEF GateTypeInv, RowTyped, BrokerSteps
<1> QED BY <1>1, <1>2, AfterLedger DEF GateTypeInv, RowTyped

\* The gate's reads, each with the row it leaves.
LEMMA GateReads ==
  ASSUME GateTypeInv, NEW p \in Procs
  PROVE  /\ GateDecision(p) => \E row \in Gate : Reads(p, "idle", "gate_order", row)
         /\ GateOrder(p) => \E row \in Gate : Reads(p, "gate_order", "gate_risk", row)
         /\ GateRisk(p) => \E row \in Gate : Reads(p, "gate_risk", "gate_reconciliation", row)
         /\ GateReconciliation(p) =>
              \E row \in Gate : Reads(p, "gate_reconciliation", "gate_health", row)
         /\ GateHealth(p) => \E row \in Gate : Reads(p, "gate_health", "gate_controls", row)
         /\ GateControls(p) => \E row \in Gate : Reads(p, "gate_controls", "gate_orders", row)
         /\ GateOrders(p) => \E row \in Gate : Reads(p, "gate_orders", "gate_broker_orders", row)
         /\ GateBrokerOrders(p) =>
              \E row \in Gate : Reads(p, "gate_broker_orders", "append_gate", row)
<1>g. pc[p] \in GateSteps => draft[p] \in Gate
  BY DEF GateTypeInv, RowTyped
<1>l. /\ Len(controls) \in Nat /\ Len(reconciliations) \in Nat /\ Len(brokerOrders) \in Nat
      /\ orders \in Seq(Order)
  BY DEF GateTypeInv, TypeInv, TypeOK
<1>1. ASSUME GateDecision(p) PROVE \E row \in Gate : Reads(p, "idle", "gate_order", row)
  <2>1. PICK s \in Symbols, b \in Brokers :
          Reads(p, "idle", "gate_order",
                [sym |-> s, broker |-> b, decision |-> LatestDecision(s), order |-> 0,
                 reconciliation |-> 0, allowed |-> DecisionChecks(LatestDecision(s)),
                 controls |-> 0,
                 began |-> [reconciliations |-> Len(reconciliations),
                            brokerOrders |-> Len(brokerOrders)]])
    BY <1>1 DEF GateDecision
  <2>2. LatestDecision(s) \in Nat
    BY Selected
  <2>3. DecisionChecks(LatestDecision(s)) \in BOOLEAN
    BY DEF DecisionChecks
  <2> HIDE DEF GateTypeInv
  <2>4. [sym |-> s, broker |-> b, decision |-> LatestDecision(s), order |-> 0,
         reconciliation |-> 0, allowed |-> DecisionChecks(LatestDecision(s)), controls |-> 0,
         began |-> [reconciliations |-> Len(reconciliations),
                    brokerOrders |-> Len(brokerOrders)]] \in Gate
    BY <1>l, <2>2, <2>3 DEF Gate
  <2> QED BY <2>1, <2>4
<1>2. ASSUME GateOrder(p) PROVE \E row \in Gate : Reads(p, "gate_order", "gate_risk", row)
  <2> DEFINE i == SelectedOrder(draft[p].sym, draft[p].decision)
             named == [draft[p] EXCEPT !.order = IF i = 0 THEN 0 ELSE orders[i].decision]
             row == [draft[p] EXCEPT !.order = IF i = 0 THEN 0 ELSE orders[i].decision,
                                     !.allowed = @ /\ OrderChecks(i)]
  <2>1. Reads(p, "gate_order", "gate_risk", row)
    BY <1>2 DEF GateOrder
  <2>2. draft[p] \in Gate
    BY <1>g, <2>1 DEF Reads, GateSteps
  <2>3. (IF i = 0 THEN 0 ELSE orders[i].decision) \in Nat
    <3>1. i # 0 => i \in DOMAIN orders
      BY Selected
    <3> HIDE DEF i
    <3>2. CASE i # 0
      <4>1. orders[i] \in Order
        BY <1>l, <3>1, <3>2
      <4> QED BY <3>2, <4>1 DEF Order
    <3> QED BY <3>2
  <2>4. named \in Gate
    <3> HIDE DEF i
    <3> QED BY <2>2, <2>3 DEF Gate
  <2>5. row = [named EXCEPT !.allowed = @ /\ OrderChecks(i)]
    <3> HIDE DEF i
    <3> QED BY <2>2 DEF Gate
  <2>6. row \in Gate
    BY <2>4, <2>5, GateRow
  <2> QED BY <2>1, <2>6
<1>3. ASSUME GateRisk(p) PROVE \E row \in Gate : Reads(p, "gate_risk", "gate_reconciliation", row)
  <2>1. PICK severity \in Severities :
          Reads(p, "gate_risk", "gate_reconciliation",
                [draft[p] EXCEPT !.allowed = @ /\ RiskChecks(severity, draft[p].decision)])
    BY <1>3 DEF GateRisk
  <2>2. draft[p] \in Gate
    BY <1>g, <2>1 DEF Reads, GateSteps
  <2> QED BY <2>1, <2>2, GateRow
<1>4. ASSUME GateReconciliation(p)
      PROVE  \E row \in Gate : Reads(p, "gate_reconciliation", "gate_health", row)
  <2> DEFINE l == LatestReconciliation(draft[p].broker)
             named == [draft[p] EXCEPT !.reconciliation = l]
             row == [draft[p] EXCEPT !.reconciliation = l,
                                     !.allowed = @ /\ ReconciliationChecks(l)]
  <2>1. Reads(p, "gate_reconciliation", "gate_health", row)
    BY <1>4 DEF GateReconciliation
  <2>2. draft[p] \in Gate
    BY <1>g, <2>1 DEF Reads, GateSteps
  <2>3. l \in Nat
    BY Selected
  <2>4. named \in Gate
    <3> HIDE DEF l
    <3> QED BY <2>2, <2>3 DEF Gate
  <2>5. row = [named EXCEPT !.allowed = @ /\ ReconciliationChecks(l)]
    <3> HIDE DEF l
    <3> QED BY <2>2 DEF Gate
  <2>6. row \in Gate
    BY <2>4, <2>5, GateRow
  <2> QED BY <2>1, <2>6
<1>5. ASSUME GateHealth(p) PROVE \E row \in Gate : Reads(p, "gate_health", "gate_controls", row)
  <2>1. PICK otherwise \in BOOLEAN :
          Reads(p, "gate_health", "gate_controls",
                [draft[p] EXCEPT !.allowed = @ /\ otherwise /\ ReconciliationsHealthy])
    BY <1>5 DEF GateHealth
  <2>2. draft[p] \in Gate
    BY <1>g, <2>1 DEF Reads, GateSteps
  <2>3. [draft[p] EXCEPT !.allowed = @ /\ otherwise /\ ReconciliationsHealthy] \in Gate
    BY <2>2 DEF Gate
  <2> QED BY <2>1, <2>3
<1>6. ASSUME GateControls(p) PROVE \E row \in Gate : Reads(p, "gate_controls", "gate_orders", row)
  <2> DEFINE named == [draft[p] EXCEPT !.controls = Len(controls)]
             row == [draft[p] EXCEPT !.controls = Len(controls),
                                     !.allowed = @ /\ ControlChecks(draft[p].decision)]
  <2>1. Reads(p, "gate_controls", "gate_orders", row)
    BY <1>6 DEF GateControls
  <2>2. draft[p] \in Gate
    BY <1>g, <2>1 DEF Reads, GateSteps
  <2>4. named \in Gate
    BY <1>l, <2>2 DEF Gate
  <2>5. row = [named EXCEPT !.allowed = @ /\ ControlChecks(draft[p].decision)]
    BY <2>2 DEF Gate
  <2>6. row \in Gate
    BY <2>4, <2>5, GateRow
  <2> QED BY <2>1, <2>6
<1>7. ASSUME GateOrders(p)
      PROVE  \E row \in Gate : Reads(p, "gate_orders", "gate_broker_orders", row)
  <2> DEFINE row == [draft[p] EXCEPT !.allowed = @ /\ OtherOrdersChecks(draft[p].sym,
                                                                       draft[p].order)]
  <2>1. Reads(p, "gate_orders", "gate_broker_orders", row)
    BY <1>7 DEF GateOrders
  <2>2. draft[p] \in Gate
    BY <1>g, <2>1 DEF Reads, GateSteps
  <2>3. row \in Gate
    BY <2>2, GateRow
  <2> QED BY <2>1, <2>3
<1>8. ASSUME GateBrokerOrders(p)
      PROVE  \E row \in Gate : Reads(p, "gate_broker_orders", "append_gate", row)
  <2> DEFINE row == [draft[p] EXCEPT !.allowed = @ /\ BrokerOrderChecks(draft[p].sym,
                                                                       draft[p].broker)]
  <2>1. Reads(p, "gate_broker_orders", "append_gate", row)
    BY <1>8 DEF GateBrokerOrders
  <2>2. draft[p] \in Gate
    BY <1>g, <2>1 DEF Reads, GateSteps
  <2>3. row \in Gate
    BY <2>2, GateRow
  <2> QED BY <2>1, <2>3
<1> QED BY <1>1, <1>2, <1>3, <1>4, <1>5, <1>6, <1>7, <1>8

LEMMA GateTypeNext == GateTypeInv /\ [GateNext]_gateVars => GateTypeInv'
<1> SUFFICES ASSUME GateTypeInv, [GateNext]_gateVars PROVE GateTypeInv'
  OBVIOUS
<1>u. CASE UNCHANGED gateVars
  BY <1>u DEF gateVars, vars, brokerVars, GateTypeInv, TypeInv, TypeOK, RowTyped
<1>n. CASE GateNext
  <2> PICK p \in Procs :
        \/ Ledger(p)
        \/ CheckBrokerOrder(p) \/ SeekBrokerOrder(p) \/ AppendBrokerOrder(p)
        \/ ReadLocalOrders(p) \/ ReadPortfolio(p) \/ AppendReconciliation(p)
        \/ GateDecision(p) \/ GateOrder(p) \/ GateRisk(p) \/ GateReconciliation(p)
        \/ GateHealth(p) \/ GateControls(p) \/ GateOrders(p) \/ GateBrokerOrders(p)
        \/ AppendGate(p)
    BY <1>n DEF GateNext
  <2>r. ASSUME NEW step, NEW next \in GateSteps, NEW row \in Gate, Reads(p, step, next, row)
        PROVE  GateTypeInv'
    <3>1. next \in BrokerSteps /\ RowTyped(next, row)
      BY StepsApart DEF BrokerSteps, RowTyped
    <3> QED BY <2>r, <3>1, ReadTyped
  <2>1. CASE Ledger(p)
    BY <2>1, LedgerTyped
  <2>2. CASE CheckBrokerOrder(p)
    <3>1. PICK row \in BrokerOrder : Reads(p, "idle", "broker_order", row)
      BY <2>2, DraftedOrder
    <3>2. "broker_order" \in BrokerSteps /\ RowTyped("broker_order", row)
      BY StepsApart DEF BrokerSteps, BrokerOrderSteps, RowTyped
    <3> QED BY <3>1, <3>2, ReadTyped
  <2>3. CASE SeekBrokerOrder(p)
    <3>1. CASE Ends(p) /\ UNCHANGED <<ledgerFiles, basis, brokerOrders, reconciliations, gates>>
      BY <3>1, EndTyped DEF GateTypeInv
    <3>2. CASE Reads(p, "broker_order", "append_broker_order",
                     [draft[p] EXCEPT !.looked = Len(brokerOrders)])
      <4>1. [draft[p] EXCEPT !.looked = Len(brokerOrders)] \in BrokerOrder
        BY <3>2, SoughtOrder DEF Reads
      <4>2. "append_broker_order" \in BrokerSteps
        BY DEF BrokerSteps, BrokerOrderSteps
      <4>3. RowTyped("append_broker_order", [draft[p] EXCEPT !.looked = Len(brokerOrders)])
        BY <4>1, StepsApart DEF BrokerSteps, BrokerOrderSteps, RowTyped
      <4> QED BY <3>2, <4>2, <4>3, ReadTyped
    <3> QED BY <2>3, <3>1, <3>2 DEF SeekBrokerOrder
  <2>4. CASE AppendBrokerOrder(p)
    <3>1. draft[p] \in BrokerOrder
      BY <2>4 DEF AppendBrokerOrder, GateTypeInv, RowTyped, BrokerOrderSteps
    <3> QED BY <2>4, <3>1, EndTyped DEF AppendBrokerOrder, GateTypeInv
  <2>5. CASE ReadLocalOrders(p)
    <3>1. PICK b \in Brokers, book \in ExternalBook :
            Reads(p, "idle", "reconcile",
                  [broker |-> b, matched |-> OrdersMatched(LocalOrders(b), book)])
      BY <2>5 DEF ReadLocalOrders
    <3> DEFINE agree == OrdersMatched(LocalOrders(b), book)
    <3>2. [broker |-> b, matched |-> agree] \in Reconciliation
      BY DEF Reconciliation, OrdersMatched
    <3>3. "reconcile" \in BrokerSteps /\ RowTyped("reconcile", [broker |-> b, matched |-> agree])
      BY <3>2, StepsApart DEF BrokerSteps, BrokerOrderSteps, ReconcileSteps, RowTyped
    <3> QED BY <3>1, <3>3, ReadTyped
  <2>6. CASE ReadPortfolio(p)
    <3>1. PICK account \in Accounts :
            Reads(p, "reconcile", "append_reconciliation",
                  [draft[p] EXCEPT !.matched = @ /\ AccountMatched(account)])
      BY <2>6 DEF ReadPortfolio
    <3>2. draft[p] \in Reconciliation
      BY <3>1 DEF Reads, GateTypeInv, RowTyped, ReconcileSteps
    <3>3. [draft[p] EXCEPT !.matched = @ /\ AccountMatched(account)] \in Reconciliation
      BY <3>2 DEF Reconciliation
    <3>4. /\ "append_reconciliation" \in BrokerSteps
          /\ RowTyped("append_reconciliation",
                      [draft[p] EXCEPT !.matched = @ /\ AccountMatched(account)])
      BY <3>3, StepsApart DEF BrokerSteps, BrokerOrderSteps, ReconcileSteps, RowTyped
    <3> QED BY <3>1, <3>4, ReadTyped
  <2>7. CASE AppendReconciliation(p)
    <3>1. draft[p] \in Reconciliation
      BY <2>7 DEF AppendReconciliation, GateTypeInv, RowTyped, ReconcileSteps
    <3> QED BY <2>7, <3>1, EndTyped DEF AppendReconciliation, GateTypeInv
  <2>8. CASE \/ GateDecision(p) \/ GateOrder(p) \/ GateRisk(p) \/ GateReconciliation(p)
             \/ GateHealth(p) \/ GateControls(p) \/ GateOrders(p) \/ GateBrokerOrders(p)
    <3>1. {"gate_order", "gate_risk", "gate_reconciliation", "gate_health", "gate_controls",
           "gate_orders", "gate_broker_orders", "append_gate"} \subseteq GateSteps
      BY DEF GateSteps
    <3> QED BY <2>8, <2>r, <3>1, GateReads
  <2>9. CASE AppendGate(p)
    <3>1. draft[p] \in Gate
      BY <2>9 DEF AppendGate, GateTypeInv, RowTyped, GateSteps
    <3> QED BY <2>9, <3>1, EndTyped DEF AppendGate, GateTypeInv
  <2> QED BY <2>1, <2>2, <2>3, <2>4, <2>5, <2>6, <2>7, <2>8, <2>9
<1> QED BY <1>u, <1>n

-----------------------------------------------------------------------------
(* What the broker is sent.                                                *)

\* A step that touches neither the broker orders nor a terminal about to append
\* one, the look for the id, or the append.
LEMMA OrderStep ==
  ASSUME GateTypeInv, [GateNext]_gateVars
  PROVE  \/ /\ brokerOrders' = brokerOrders
            /\ \A q \in Procs : pc'[q] = "append_broker_order" =>
                 pc[q] = "append_broker_order" /\ draft'[q] = draft[q]
         \/ \E p \in Procs :
              /\ ~OnFile(draft[p])
              /\ Reads(p, "broker_order", "append_broker_order",
                       [draft[p] EXCEPT !.looked = Len(brokerOrders)])
         \/ \E p \in Procs : AppendBrokerOrder(p)
<1>u. CASE UNCHANGED gateVars
  BY <1>u DEF gateVars, vars, brokerVars
<1>n. CASE GateNext
  <2> PICK p \in Procs :
        \/ Ledger(p)
        \/ CheckBrokerOrder(p) \/ SeekBrokerOrder(p) \/ AppendBrokerOrder(p)
        \/ ReadLocalOrders(p) \/ ReadPortfolio(p) \/ AppendReconciliation(p)
        \/ GateDecision(p) \/ GateOrder(p) \/ GateRisk(p) \/ GateReconciliation(p)
        \/ GateHealth(p) \/ GateControls(p) \/ GateOrders(p) \/ GateBrokerOrders(p)
        \/ AppendGate(p)
    BY <1>n DEF GateNext
  <2>r. ASSUME NEW step, NEW next, next # "append_broker_order", NEW row, Reads(p, step, next, row)
        PROVE  /\ brokerOrders' = brokerOrders
               /\ \A q \in Procs : pc'[q] = "append_broker_order" =>
                    pc[q] = "append_broker_order" /\ draft'[q] = draft[q]
    BY <2>r, AfterRead
  <2>e. ASSUME Ends(p), brokerOrders' = brokerOrders
        PROVE  /\ brokerOrders' = brokerOrders
               /\ \A q \in Procs : pc'[q] = "append_broker_order" =>
                    pc[q] = "append_broker_order" /\ draft'[q] = draft[q]
    BY <2>e, AfterEnd
  <2>1. CASE Ledger(p)
    BY <2>1, AfterLedger DEF BrokerSteps, BrokerOrderSteps
  <2>2. CASE CheckBrokerOrder(p)
    <3>1. PICK row \in BrokerOrder : Reads(p, "idle", "broker_order", row)
      BY <2>2, DraftedOrder
    <3> QED BY <2>r, <3>1
  <2>3. CASE SeekBrokerOrder(p)
    <3>1. CASE Ends(p) /\ UNCHANGED <<ledgerFiles, basis, brokerOrders, reconciliations, gates>>
      BY <2>e, <3>1
    <3> QED BY <2>3, <3>1 DEF SeekBrokerOrder
  <2>5. CASE ReadLocalOrders(p)
    <3>1. \E row : Reads(p, "idle", "reconcile", row)
      BY <2>5 DEF ReadLocalOrders
    <3> QED BY <2>r, <3>1
  <2>6. CASE ReadPortfolio(p)
    <3>1. \E row : Reads(p, "reconcile", "append_reconciliation", row)
      BY <2>6 DEF ReadPortfolio
    <3> QED BY <2>r, <3>1
  <2>8. CASE \/ GateDecision(p) \/ GateOrder(p) \/ GateRisk(p) \/ GateReconciliation(p)
             \/ GateHealth(p) \/ GateControls(p) \/ GateOrders(p) \/ GateBrokerOrders(p)
    BY <2>8, <2>r, GateReads
  <2>9. CASE AppendReconciliation(p) \/ AppendGate(p)
    BY <2>9, <2>e DEF AppendReconciliation, AppendGate
  <2> QED BY <2>1, <2>2, <2>3, <2>5, <2>6, <2>8, <2>9
<1> QED BY <1>u, <1>n

\* What a terminal about to append knows: none of the lines its look saw has
\* the id.
SentInv ==
  /\ GateTypeInv
  /\ BrokerOrderOnce
  /\ \A p \in Procs : pc[p] = "append_broker_order" =>
       /\ draft[p].looked <= Len(brokerOrders)
       /\ \A k \in DOMAIN brokerOrders :
            SameBrokerOrder(brokerOrders[k], draft[p]) => k > draft[p].looked

LEMMA SentInvInit == GateInit => SentInv
<1> SUFFICES ASSUME GateInit PROVE SentInv
  OBVIOUS
<1>1. GateTypeInv
  BY GateTypeInit
<1>2. brokerOrders = <<>> /\ \A p \in Procs : pc[p] = "idle"
  BY DEF GateInit, Init
<1> QED BY <1>1, <1>2 DEF SentInv, BrokerOrderOnce

LEMMA SentInvNext == SentInv /\ [GateNext]_gateVars => SentInv'
<1> SUFFICES ASSUME SentInv, [GateNext]_gateVars PROVE SentInv'
  OBVIOUS
<1>t. GateTypeInv /\ GateTypeInv'
  BY GateTypeNext DEF SentInv
<1>l. brokerOrders \in Seq(BrokerOrder) /\ Len(brokerOrders) \in Nat
  BY <1>t DEF GateTypeInv
<1>d. \A p \in Procs : pc[p] = "append_broker_order" => draft[p] \in BrokerOrder
  BY <1>t DEF GateTypeInv, RowTyped, BrokerOrderSteps
<1>1. CASE /\ brokerOrders' = brokerOrders
           /\ \A q \in Procs : pc'[q] = "append_broker_order" =>
                pc[q] = "append_broker_order" /\ draft'[q] = draft[q]
  BY <1>t, <1>1 DEF SentInv, BrokerOrderOnce
<1>2. CASE \E p \in Procs :
             /\ ~OnFile(draft[p])
             /\ Reads(p, "broker_order", "append_broker_order",
                      [draft[p] EXCEPT !.looked = Len(brokerOrders)])
  <2> PICK p \in Procs :
             /\ ~OnFile(draft[p])
             /\ Reads(p, "broker_order", "append_broker_order",
                      [draft[p] EXCEPT !.looked = Len(brokerOrders)])
    BY <1>2
  <2>1. /\ brokerOrders' = brokerOrders
        /\ draft'[p] = [draft[p] EXCEPT !.looked = Len(brokerOrders)]
        /\ \A q \in Procs \ {p} : pc'[q] = pc[q] /\ draft'[q] = draft[q]
    BY <1>t, AfterRead
  <2>2. draft[p] \in BrokerOrder
    BY <1>t, SoughtOrder DEF Reads
  <2>3. /\ draft'[p].looked = Len(brokerOrders)
        /\ draft'[p].order = draft[p].order /\ draft'[p].broker = draft[p].broker
    BY <2>1, <2>2 DEF BrokerOrder
  <2>4. \A k \in DOMAIN brokerOrders : ~SameBrokerOrder(brokerOrders[k], draft'[p])
    BY <2>3 DEF OnFile, SameBrokerOrder
  <2>5. \A q \in Procs : pc'[q] = "append_broker_order" =>
          /\ draft'[q].looked <= Len(brokerOrders')
          /\ \A k \in DOMAIN brokerOrders' :
               SameBrokerOrder(brokerOrders'[k], draft'[q]) => k > draft'[q].looked
    <3> SUFFICES ASSUME NEW q \in Procs, pc'[q] = "append_broker_order"
                 PROVE  /\ draft'[q].looked <= Len(brokerOrders)
                        /\ \A k \in DOMAIN brokerOrders :
                             SameBrokerOrder(brokerOrders[k], draft'[q]) => k > draft'[q].looked
      BY <2>1
    <3>1. CASE q = p
      BY <1>l, <2>3, <2>4, <3>1
    <3>2. CASE q # p
      BY <2>1, <3>2 DEF SentInv
    <3> QED BY <3>1, <3>2
  <2> QED BY <1>t, <2>1, <2>5 DEF SentInv, BrokerOrderOnce
<1>3. CASE \E p \in Procs : AppendBrokerOrder(p)
  <2> PICK p \in Procs : AppendBrokerOrder(p)
    BY <1>3
  <2>1. /\ brokerOrders' = Append(brokerOrders, draft[p]) /\ pc[p] = "append_broker_order"
        /\ pc'[p] = "idle" /\ \A q \in Procs \ {p} : pc'[q] = pc[q] /\ draft'[q] = draft[q]
    BY <1>t, AfterEnd DEF AppendBrokerOrder
  <2> DEFINE n == Len(brokerOrders) + 1
  <2>2. /\ DOMAIN brokerOrders' = 1..n /\ Len(brokerOrders') = n /\ brokerOrders'[n] = draft[p]
        /\ \A k \in DOMAIN brokerOrders : brokerOrders'[k] = brokerOrders[k] /\ k < n
        /\ \A k \in 1..n : k = n \/ k \in DOMAIN brokerOrders
    BY <1>l, <1>d, <2>1
  <2>3. BrokerOrderOnce'
    <3> SUFFICES ASSUME NEW i \in 1..n, NEW j \in 1..n, i < j,
                        SameBrokerOrder(brokerOrders'[i], brokerOrders'[j])
                 PROVE  brokerOrders'[j].looked < i
      BY <2>2 DEF BrokerOrderOnce
    <3>1. i \in DOMAIN brokerOrders /\ brokerOrders'[i] = brokerOrders[i]
      BY <1>l, <2>2
    <3>2. CASE j = n
      <4>1. i > draft[p].looked
        BY <2>1, <2>2, <3>1, <3>2 DEF SentInv
      <4> QED BY <1>d, <2>1, <2>2, <3>2, <4>1 DEF BrokerOrder
    <3>3. CASE j \in DOMAIN brokerOrders
      BY <2>2, <3>1, <3>3 DEF SentInv, BrokerOrderOnce
    <3> QED BY <2>2, <3>2, <3>3
  <2>4. ASSUME NEW q \in Procs, pc'[q] = "append_broker_order"
        PROVE  /\ draft'[q].looked <= Len(brokerOrders')
               /\ \A k \in DOMAIN brokerOrders' :
                    SameBrokerOrder(brokerOrders'[k], draft'[q]) => k > draft'[q].looked
    <3>1. q # p /\ pc[q] = "append_broker_order" /\ draft'[q] = draft[q]
      BY <2>1, <2>4
    <3>2. draft[q].looked \in Nat /\ draft[q].looked <= Len(brokerOrders)
      BY <1>d, <3>1 DEF SentInv, BrokerOrder
    <3>3. ASSUME NEW k \in 1..n, SameBrokerOrder(brokerOrders'[k], draft[q])
          PROVE  k > draft[q].looked
      <4>1. CASE k = n
        BY <1>l, <3>2, <4>1
      <4>2. CASE k \in DOMAIN brokerOrders
        BY <2>2, <3>1, <3>3, <4>2 DEF SentInv
      <4> QED BY <2>2, <4>1, <4>2
    <3> QED BY <1>l, <2>2, <3>1, <3>2, <3>3
  <2> QED BY <1>t, <2>3, <2>4 DEF SentInv
<1> QED BY <1>t, <1>1, <1>2, <1>3, OrderStep

\* For any number of terminals, orders and brokers: a second line for one order
\* at one broker comes only from a terminal that had looked for the id before
\* the first line was there.
THEOREM SentOnce == GateSpec => []BrokerOrderOnce
<1>1. SentInv => BrokerOrderOnce
  BY DEF SentInv
<1> QED BY <1>1, SentInvInit, SentInvNext, PTL DEF GateSpec

\* The lines a terminal's look saw, when there is only one terminal: all of them.
LookInv ==
  /\ SentInv
  /\ \A j \in DOMAIN brokerOrders : brokerOrders[j].looked = j - 1
  /\ \A p \in Procs : pc[p] = "append_broker_order" => draft[p].looked = Len(brokerOrders)

LEMMA LookInvNext ==
  ASSUME NEW t, Procs = {t}
  PROVE  LookInv /\ [GateNext]_gateVars => LookInv'
<1> SUFFICES ASSUME LookInv, [GateNext]_gateVars PROVE LookInv'
  OBVIOUS
<1>t. SentInv /\ SentInv' /\ GateTypeInv
  BY SentInvNext DEF LookInv, SentInv
<1>l. brokerOrders \in Seq(BrokerOrder) /\ Len(brokerOrders) \in Nat
  BY <1>t DEF GateTypeInv
<1>1. CASE /\ brokerOrders' = brokerOrders
           /\ \A q \in Procs : pc'[q] = "append_broker_order" =>
                pc[q] = "append_broker_order" /\ draft'[q] = draft[q]
  BY <1>t, <1>1 DEF LookInv
<1>2. CASE \E p \in Procs :
             /\ ~OnFile(draft[p])
             /\ Reads(p, "broker_order", "append_broker_order",
                      [draft[p] EXCEPT !.looked = Len(brokerOrders)])
  <2>1. /\ brokerOrders' = brokerOrders /\ t \in Procs
        /\ draft'[t] = [draft[t] EXCEPT !.looked = Len(brokerOrders)]
    BY <1>t, <1>2, AfterRead
  <2>2. draft[t] \in BrokerOrder
    BY <1>t, <1>2, SoughtOrder DEF Reads
  <2>3. draft'[t].looked = Len(brokerOrders)
    BY <2>1, <2>2 DEF BrokerOrder
  <2> QED BY <1>t, <2>1, <2>3 DEF LookInv
<1>3. CASE \E p \in Procs : AppendBrokerOrder(p)
  <2>1. /\ brokerOrders' = Append(brokerOrders, draft[t]) /\ pc[t] = "append_broker_order"
        /\ pc'[t] = "idle" /\ t \in Procs
    BY <1>t, <1>3, AfterEnd DEF AppendBrokerOrder
  <2>2. draft[t] \in BrokerOrder /\ draft[t].looked = Len(brokerOrders)
    BY <1>t, <2>1 DEF LookInv, GateTypeInv, RowTyped, BrokerOrderSteps
  <2>3. \A j \in DOMAIN brokerOrders' : brokerOrders'[j].looked = j - 1
    BY <1>l, <2>1, <2>2 DEF LookInv
  <2> QED BY <1>t, <2>1, <2>3 DEF LookInv
<1> QED BY <1>t, <1>1, <1>2, <1>3, OrderStep

\* From one terminal, an order has one line at a broker (broker_lifecycle.py
\* 53-78, storage.py): what BrokerOrderOnce says when no other command can come
\* between the look for the id and the append.
THEOREM SentOnceFromOneTerminal ==
  ASSUME NEW t, Procs = {t}
  PROVE  GateSpec => [](\A i, j \in DOMAIN brokerOrders :
                          SameBrokerOrder(brokerOrders[i], brokerOrders[j]) => i = j)
<1>1. GateInit => LookInv
  BY SentInvInit DEF LookInv, GateInit, Init
<1>2. LookInv /\ [GateNext]_gateVars => LookInv'
  BY LookInvNext
<1>3. LookInv => \A i, j \in DOMAIN brokerOrders :
                   SameBrokerOrder(brokerOrders[i], brokerOrders[j]) => i = j
  <2> SUFFICES ASSUME LookInv
               PROVE  \A i, j \in DOMAIN brokerOrders :
                        SameBrokerOrder(brokerOrders[i], brokerOrders[j]) => i = j
    OBVIOUS
  <2>1. DOMAIN brokerOrders \subseteq Nat
    BY DEF LookInv, SentInv, GateTypeInv
  <2>2. ASSUME NEW i \in DOMAIN brokerOrders, NEW j \in DOMAIN brokerOrders,
               SameBrokerOrder(brokerOrders[i], brokerOrders[j]), i < j
        PROVE  FALSE
    <3>1. brokerOrders[j].looked < i /\ brokerOrders[j].looked = j - 1
      BY <2>2 DEF LookInv, SentInv, BrokerOrderOnce
    <3> QED BY <2>1, <2>2, <3>1
  <2> QED BY <2>1, <2>2 DEF SameBrokerOrder
<1> QED BY <1>1, <1>2, <1>3, PTL DEF GateSpec

-----------------------------------------------------------------------------
(* What a gate that allows has read.                                       *)

\* MismatchStopsGate of one row, made or in the making.
Began(g, recs, sent) == g.began.reconciliations <= Len(recs) /\ g.began.brokerOrders <= Len(sent)
RecHolds(g, recs) ==
  g.allowed =>
    /\ g.reconciliation \in DOMAIN recs
    /\ recs[g.reconciliation].broker = g.broker /\ recs[g.reconciliation].matched
    /\ \A m \in DOMAIN recs :
         m > g.reconciliation /\ recs[m].broker = g.broker /\ ~recs[m].matched
           => m > g.began.reconciliations
WorkHolds(g, sent) ==
  g.allowed => \A k \in DOMAIN sent : AtWork(sent[k], g.sym, g.broker) => k > g.began.brokerOrders

\* A line that is appended comes after whatever was there when the gate began.
LEMMA RecGrows ==
  ASSUME NEW g \in Gate, NEW recs \in Seq(Reconciliation), NEW more \in Seq(Reconciliation),
         more = recs \/ \E r \in Reconciliation : more = Append(recs, r),
         g.began.reconciliations <= Len(recs)
  PROVE  /\ g.began.reconciliations <= Len(more)
         /\ RecHolds(g, recs) => RecHolds(g, more)
<1>1. CASE more = recs
  BY <1>1
<1>2. ASSUME NEW r \in Reconciliation, more = Append(recs, r)
      PROVE  /\ g.began.reconciliations <= Len(more)
             /\ RecHolds(g, recs) => RecHolds(g, more)
  <2>1. /\ Len(recs) \in Nat /\ Len(more) = Len(recs) + 1 /\ DOMAIN recs \subseteq DOMAIN more
        /\ \A m \in DOMAIN recs : more[m] = recs[m]
        /\ \A m \in DOMAIN more : m \in DOMAIN recs \/ m = Len(recs) + 1
    BY <1>2
  <2>2. g.began.reconciliations \in Nat
    BY DEF Gate
  <2>3. ASSUME RecHolds(g, recs), g.allowed, NEW m \in DOMAIN more, m > g.reconciliation,
               more[m].broker = g.broker, ~more[m].matched
        PROVE  m > g.began.reconciliations
    <3>1. CASE m \in DOMAIN recs
      BY <2>1, <2>3, <3>1 DEF RecHolds
    <3>2. CASE m = Len(recs) + 1
      BY <2>1, <2>2, <3>2
    <3> QED BY <2>1, <3>1, <3>2
  <2> QED BY <2>1, <2>2, <2>3 DEF RecHolds
<1> QED BY <1>1, <1>2

LEMMA WorkGrows ==
  ASSUME NEW g \in Gate, NEW sent \in Seq(BrokerOrder), NEW more \in Seq(BrokerOrder),
         more = sent \/ \E o \in BrokerOrder : more = Append(sent, o),
         g.began.brokerOrders <= Len(sent)
  PROVE  /\ g.began.brokerOrders <= Len(more)
         /\ WorkHolds(g, sent) => WorkHolds(g, more)
<1>1. CASE more = sent
  BY <1>1
<1>2. ASSUME NEW o \in BrokerOrder, more = Append(sent, o)
      PROVE  /\ g.began.brokerOrders <= Len(more)
             /\ WorkHolds(g, sent) => WorkHolds(g, more)
  <2>1. /\ Len(sent) \in Nat /\ Len(more) = Len(sent) + 1
        /\ \A k \in DOMAIN sent : more[k] = sent[k]
        /\ \A k \in DOMAIN more : k \in DOMAIN sent \/ k = Len(sent) + 1
    BY <1>2
  <2>2. g.began.brokerOrders \in Nat
    BY DEF Gate
  <2>3. ASSUME WorkHolds(g, sent), g.allowed, NEW k \in DOMAIN more,
               AtWork(more[k], g.sym, g.broker)
        PROVE  k > g.began.brokerOrders
    <3>1. CASE k \in DOMAIN sent
      BY <2>1, <2>3, <3>1 DEF WorkHolds
    <3>2. CASE k = Len(sent) + 1
      BY <2>1, <2>2, <3>2
    <3> QED BY <2>1, <3>1, <3>2
  <2> QED BY <2>1, <2>2, <2>3 DEF WorkHolds
<1> QED BY <1>1, <1>2

\* Each terminal at the gate after a step: as before the step, or one read on.
AfterReconciliation ==
  {"gate_health", "gate_controls", "gate_orders", "gate_broker_orders", "append_gate"}
Narrows(row, g) ==
  /\ row.sym = g.sym /\ row.broker = g.broker /\ row.reconciliation = g.reconciliation
  /\ row.began = g.began /\ (row.allowed => g.allowed)
ReadOn(before, g, after, row, recs, sent) ==
  \/ after = before /\ row = g
  \/ after = "gate_order" /\ row.began.reconciliations = Len(recs) /\ row.began.brokerOrders = Len(sent)
  \/ before \in GateSteps /\ after \in {"gate_risk", "gate_reconciliation"} /\ row.began = g.began
  \/ before \in GateSteps /\ after = "gate_health" /\ row.began = g.began /\ RecHolds(row, recs)
  \/ /\ before \in AfterReconciliation /\ after \in AfterReconciliation
     /\ Narrows(row, g) /\ (after = "append_gate" => WorkHolds(row, sent))

LEMMA Narrowed ==
  ASSUME NEW g \in Gate, NEW row, NEW check, row = [g EXCEPT !.allowed = @ /\ check]
  PROVE  Narrows(row, g) /\ (row.allowed => check)
BY DEF Gate, Narrows

LEMMA GateReadsOn ==
  ASSUME GateTypeInv, NEW p \in Procs,
         \/ GateDecision(p) \/ GateOrder(p) \/ GateRisk(p) \/ GateReconciliation(p)
         \/ GateHealth(p) \/ GateControls(p) \/ GateOrders(p) \/ GateBrokerOrders(p)
  PROVE  ReadOn(pc[p], draft[p], pc'[p], draft'[p], reconciliations, brokerOrders)
<1>g. pc[p] \in GateSteps => draft[p] \in Gate
  BY DEF GateTypeInv, RowTyped
<1>1. CASE GateDecision(p)
  <2>1. PICK s \in Symbols, b \in Brokers :
          Reads(p, "idle", "gate_order",
                [sym |-> s, broker |-> b, decision |-> LatestDecision(s), order |-> 0,
                 reconciliation |-> 0, allowed |-> DecisionChecks(LatestDecision(s)),
                 controls |-> 0,
                 began |-> [reconciliations |-> Len(reconciliations),
                            brokerOrders |-> Len(brokerOrders)]])
    BY <1>1 DEF GateDecision
  <2> QED BY <2>1, AfterRead DEF ReadOn
<1>2. CASE GateOrder(p)
  <2> DEFINE i == SelectedOrder(draft[p].sym, draft[p].decision)
             row == [draft[p] EXCEPT !.order = IF i = 0 THEN 0 ELSE orders[i].decision,
                                     !.allowed = @ /\ OrderChecks(i)]
  <2>1. Reads(p, "gate_order", "gate_risk", row)
    BY <1>2 DEF GateOrder
  <2>2. draft[p] \in Gate /\ pc[p] \in GateSteps
    BY <1>g, <2>1 DEF Reads, GateSteps
  <2>3. row.began = draft[p].began
    <3> HIDE DEF i
    <3> QED BY <2>2 DEF Gate
  <2> HIDE DEF row
  <2> QED BY <2>1, <2>2, <2>3, AfterRead DEF ReadOn
<1>3. CASE GateRisk(p)
  <2>1. PICK severity \in Severities :
          Reads(p, "gate_risk", "gate_reconciliation",
                [draft[p] EXCEPT !.allowed = @ /\ RiskChecks(severity, draft[p].decision)])
    BY <1>3 DEF GateRisk
  <2> DEFINE row == [draft[p] EXCEPT !.allowed = @ /\ RiskChecks(severity, draft[p].decision)]
  <2>2. draft[p] \in Gate /\ pc[p] \in GateSteps
    BY <1>g, <2>1 DEF Reads, GateSteps
  <2>3. row.began = draft[p].began
    BY <2>2, Narrowed DEF Narrows
  <2>4. Reads(p, "gate_risk", "gate_reconciliation", row)
    BY <2>1
  <2> HIDE DEF row
  <2> QED BY <2>2, <2>3, <2>4, AfterRead DEF ReadOn
<1>4. CASE GateReconciliation(p)
  <2> DEFINE l == LatestReconciliation(draft[p].broker)
             row == [draft[p] EXCEPT !.reconciliation = l,
                                     !.allowed = @ /\ ReconciliationChecks(l)]
  <2>1. Reads(p, "gate_reconciliation", "gate_health", row)
    BY <1>4 DEF GateReconciliation
  <2>2. draft[p] \in Gate /\ pc[p] \in GateSteps
    BY <1>g, <2>1 DEF Reads, GateSteps
  <2>3. /\ row.began = draft[p].began /\ row.reconciliation = l /\ row.broker = draft[p].broker
        /\ row.allowed => ReconciliationChecks(l)
    <3> HIDE DEF l
    <3> QED BY <2>2 DEF Gate
  <2>4. /\ l \in Nat
        /\ l # 0 => /\ l \in DOMAIN reconciliations /\ reconciliations[l].broker = draft[p].broker
                    /\ \A m \in DOMAIN reconciliations :
                         reconciliations[m].broker = draft[p].broker => m <= l
    BY Selected
  <2>5. RecHolds(row, reconciliations)
    <3> HIDE DEF l, row
    <3>1. DOMAIN reconciliations \subseteq Nat
      BY DEF GateTypeInv
    <3> QED BY <2>3, <2>4, <3>1 DEF RecHolds, ReconciliationChecks
  <2> HIDE DEF row
  <2> QED BY <2>1, <2>2, <2>3, <2>5, AfterRead DEF ReadOn
<1>5. CASE GateHealth(p) \/ GateControls(p) \/ GateOrders(p)
  <2>1. PICK next, row :
          /\ next \in {"gate_controls", "gate_orders", "gate_broker_orders"}
          /\ pc[p] \in AfterReconciliation
          /\ Reads(p, pc[p], next, row)
          /\ Narrows(row, draft[p])
    <3>1. CASE GateHealth(p)
      <4>1. PICK otherwise \in BOOLEAN :
              Reads(p, "gate_health", "gate_controls",
                    [draft[p] EXCEPT !.allowed = @ /\ otherwise /\ ReconciliationsHealthy])
        BY <3>1 DEF GateHealth
      <4> DEFINE r == [draft[p] EXCEPT !.allowed = @ /\ otherwise /\ ReconciliationsHealthy]
      <4>2. draft[p] \in Gate /\ pc[p] = "gate_health"
        BY <1>g, <4>1 DEF Reads, GateSteps
      <4>3. Narrows(r, draft[p])
        BY <4>2 DEF Narrows, Gate
      <4>4. Reads(p, "gate_health", "gate_controls", r)
        BY <4>1
      <4> HIDE DEF r
      <4> QED BY <4>2, <4>3, <4>4 DEF AfterReconciliation
    <3>2. CASE GateControls(p)
      <4> DEFINE r == [draft[p] EXCEPT !.controls = Len(controls),
                                       !.allowed = @ /\ ControlChecks(draft[p].decision)]
      <4>1. Reads(p, "gate_controls", "gate_orders", r)
        BY <3>2 DEF GateControls
      <4>2. draft[p] \in Gate /\ pc[p] = "gate_controls"
        BY <1>g, <4>1 DEF Reads, GateSteps
      <4>3. Narrows(r, draft[p])
        BY <4>2 DEF Narrows, Gate
      <4> HIDE DEF r
      <4> QED BY <4>1, <4>2, <4>3 DEF AfterReconciliation
    <3>3. CASE GateOrders(p)
      <4> DEFINE r == [draft[p] EXCEPT !.allowed = @ /\ OtherOrdersChecks(draft[p].sym,
                                                                         draft[p].order)]
      <4>1. Reads(p, "gate_orders", "gate_broker_orders", r)
        BY <3>3 DEF GateOrders
      <4>2. draft[p] \in Gate /\ pc[p] = "gate_orders"
        BY <1>g, <4>1 DEF Reads, GateSteps
      <4>3. Narrows(r, draft[p])
        BY <4>2, Narrowed
      <4> HIDE DEF r
      <4> QED BY <4>1, <4>2, <4>3 DEF AfterReconciliation
    <3> QED BY <1>5, <3>1, <3>2, <3>3
  <2>2. pc'[p] = next /\ draft'[p] = row
    BY <2>1, AfterRead
  <2> QED BY <2>1, <2>2 DEF ReadOn, AfterReconciliation
<1>6. CASE GateBrokerOrders(p)
  <2> DEFINE r == [draft[p] EXCEPT !.allowed = @ /\ BrokerOrderChecks(draft[p].sym,
                                                                     draft[p].broker)]
  <2>1. Reads(p, "gate_broker_orders", "append_gate", r)
    BY <1>6 DEF GateBrokerOrders
  <2>2. draft[p] \in Gate /\ pc[p] = "gate_broker_orders"
    BY <1>g, <2>1 DEF Reads, GateSteps
  <2>3. Narrows(r, draft[p]) /\ (r.allowed => BrokerOrderChecks(draft[p].sym, draft[p].broker))
    BY <2>2, Narrowed
  <2>4. WorkHolds(r, brokerOrders)
    <3> HIDE DEF r
    <3> QED BY <2>3 DEF WorkHolds, BrokerOrderChecks, Narrows
  <2> HIDE DEF r
  <2>5. pc'[p] = "append_gate" /\ draft'[p] = r
    BY <2>1, AfterRead
  <2> QED BY <2>2, <2>3, <2>4, <2>5 DEF ReadOn, AfterReconciliation
<1> QED BY <1>1, <1>2, <1>3, <1>4, <1>5, <1>6

\* What any step does to the three files and to the terminals at the gate.
LEMMA GateStep ==
  ASSUME GateTypeInv, [GateNext]_gateVars
  PROVE  /\ \/ reconciliations' = reconciliations
            \/ \E r \in Reconciliation : reconciliations' = Append(reconciliations, r)
         /\ \/ brokerOrders' = brokerOrders
            \/ \E o \in BrokerOrder : brokerOrders' = Append(brokerOrders, o)
         /\ \/ gates' = gates
            \/ \E p \in Procs : pc[p] = "append_gate" /\ gates' = Append(gates, draft[p])
         /\ \A q \in Procs : pc'[q] \in GateSteps =>
              ReadOn(pc[q], draft[q], pc'[q], draft'[q], reconciliations, brokerOrders)
<1>u. CASE UNCHANGED gateVars
  BY <1>u DEF gateVars, vars, brokerVars, ReadOn
<1>n. CASE GateNext
  <2> PICK p \in Procs :
        \/ Ledger(p)
        \/ CheckBrokerOrder(p) \/ SeekBrokerOrder(p) \/ AppendBrokerOrder(p)
        \/ ReadLocalOrders(p) \/ ReadPortfolio(p) \/ AppendReconciliation(p)
        \/ GateDecision(p) \/ GateOrder(p) \/ GateRisk(p) \/ GateReconciliation(p)
        \/ GateHealth(p) \/ GateControls(p) \/ GateOrders(p) \/ GateBrokerOrders(p)
        \/ AppendGate(p)
    BY <1>n DEF GateNext
  <2>r. ASSUME NEW step, NEW next, next \notin GateSteps, NEW row, Reads(p, step, next, row)
        PROVE  /\ UNCHANGED <<brokerOrders, reconciliations, gates>>
               /\ \A q \in Procs : pc'[q] \in GateSteps => pc'[q] = pc[q] /\ draft'[q] = draft[q]
    BY <2>r, AfterRead
  <2>e. ASSUME Ends(p)
        PROVE  \A q \in Procs : pc'[q] \in GateSteps => pc'[q] = pc[q] /\ draft'[q] = draft[q]
    BY <2>e, AfterEnd DEF GateSteps
  <2>1. CASE Ledger(p)
    BY <2>1, AfterLedger DEF BrokerSteps, ReadOn
  <2>2. CASE CheckBrokerOrder(p) \/ SeekBrokerOrder(p) \/ ReadLocalOrders(p) \/ ReadPortfolio(p)
    <3>1. CASE CheckBrokerOrder(p)
      <4>1. PICK row \in BrokerOrder : Reads(p, "idle", "broker_order", row)
        BY <3>1, DraftedOrder
      <4> QED BY <2>r, <4>1 DEF ReadOn, GateSteps
    <3>2. CASE SeekBrokerOrder(p)
      <4>1. CASE Ends(p) /\ UNCHANGED <<ledgerFiles, basis, brokerOrders, reconciliations, gates>>
        BY <2>e, <4>1 DEF ReadOn
      <4>2. CASE \E row : Reads(p, "broker_order", "append_broker_order", row)
        BY <2>r, <4>2 DEF ReadOn, GateSteps
      <4> QED BY <3>2, <4>1, <4>2 DEF SeekBrokerOrder
    <3>3. CASE ReadLocalOrders(p)
      <4>1. \E row : Reads(p, "idle", "reconcile", row)
        BY <3>3 DEF ReadLocalOrders
      <4> QED BY <2>r, <4>1 DEF ReadOn, GateSteps
    <3>4. CASE ReadPortfolio(p)
      <4>1. \E row : Reads(p, "reconcile", "append_reconciliation", row)
        BY <3>4 DEF ReadPortfolio
      <4> QED BY <2>r, <4>1 DEF ReadOn, GateSteps
    <3> QED BY <2>2, <3>1, <3>2, <3>3, <3>4
  <2>3. CASE AppendBrokerOrder(p)
    <3>1. draft[p] \in BrokerOrder
      BY <2>3 DEF AppendBrokerOrder, GateTypeInv, RowTyped, BrokerOrderSteps
    <3> QED BY <2>3, <2>e, <3>1 DEF AppendBrokerOrder, ReadOn
  <2>4. CASE AppendReconciliation(p)
    <3>1. draft[p] \in Reconciliation
      BY <2>4 DEF AppendReconciliation, GateTypeInv, RowTyped, ReconcileSteps
    <3> QED BY <2>4, <2>e, <3>1 DEF AppendReconciliation, ReadOn
  <2>5. CASE AppendGate(p)
    BY <2>5, <2>e DEF AppendGate, ReadOn
  <2>6. CASE \/ GateDecision(p) \/ GateOrder(p) \/ GateRisk(p) \/ GateReconciliation(p)
             \/ GateHealth(p) \/ GateControls(p) \/ GateOrders(p) \/ GateBrokerOrders(p)
    <3>1. PICK step, next, row : Reads(p, step, next, row)
      BY <2>6, GateReads
    <3>2. /\ UNCHANGED <<brokerOrders, reconciliations, gates>>
          /\ \A q \in Procs \ {p} : pc'[q] = pc[q] /\ draft'[q] = draft[q]
      BY <3>1, AfterRead
    <3>3. ReadOn(pc[p], draft[p], pc'[p], draft'[p], reconciliations, brokerOrders)
      BY <2>6, GateReadsOn
    <3> QED BY <3>2, <3>3 DEF ReadOn
  <2> QED BY <2>1, <2>2, <2>3, <2>4, <2>5, <2>6
<1> QED BY <1>u, <1>n

RowStands(g, recs, sent) == Began(g, recs, sent) /\ RecHolds(g, recs) /\ WorkHolds(g, sent)
MismatchInv ==
  /\ GateTypeInv
  /\ \A n \in DOMAIN gates : RowStands(gates[n], reconciliations, brokerOrders)
  /\ \A p \in Procs :
       /\ pc[p] \in GateSteps => Began(draft[p], reconciliations, brokerOrders)
       /\ pc[p] \in AfterReconciliation => RecHolds(draft[p], reconciliations)
       /\ pc[p] = "append_gate" => WorkHolds(draft[p], brokerOrders)

LEMMA MismatchInvInit == GateInit => MismatchInv
<1> SUFFICES ASSUME GateInit PROVE MismatchInv
  OBVIOUS
<1>1. GateTypeInv
  BY GateTypeInit
<1>2. gates = <<>> /\ \A p \in Procs : pc[p] = "idle"
  BY DEF GateInit, Init
<1> QED BY <1>1, <1>2 DEF MismatchInv, GateSteps, AfterReconciliation

LEMMA MismatchInvNext == MismatchInv /\ [GateNext]_gateVars => MismatchInv'
<1> SUFFICES ASSUME MismatchInv, [GateNext]_gateVars PROVE MismatchInv'
  OBVIOUS
<1>t. GateTypeInv /\ GateTypeInv'
  BY GateTypeNext DEF MismatchInv
<1>f. /\ reconciliations \in Seq(Reconciliation) /\ reconciliations' \in Seq(Reconciliation)
      /\ brokerOrders \in Seq(BrokerOrder) /\ brokerOrders' \in Seq(BrokerOrder)
      /\ gates \in Seq(Gate)
  BY <1>t DEF GateTypeInv
<1>d. /\ \A q \in Procs : pc[q] \in GateSteps => draft[q] \in Gate
      /\ \A q \in Procs : pc'[q] \in GateSteps => draft'[q] \in Gate
  BY <1>t DEF GateTypeInv, RowTyped
<1>a. AfterReconciliation \subseteq GateSteps /\ "append_gate" \in AfterReconciliation
      /\ "gate_order" \notin AfterReconciliation /\ "gate_risk" \notin AfterReconciliation
      /\ "gate_reconciliation" \notin AfterReconciliation
  BY DEF AfterReconciliation, GateSteps
<1>g. ASSUME NEW g \in Gate, Began(g, reconciliations, brokerOrders)
      PROVE  /\ Began(g, reconciliations', brokerOrders')
             /\ RecHolds(g, reconciliations) => RecHolds(g, reconciliations')
             /\ WorkHolds(g, brokerOrders) => WorkHolds(g, brokerOrders')
  BY <1>f, <1>g, <1>t, GateStep, RecGrows, WorkGrows DEF Began
<1>1. ASSUME NEW g \in Gate, RowStands(g, reconciliations, brokerOrders)
      PROVE  RowStands(g, reconciliations', brokerOrders')
  BY <1>1, <1>g DEF RowStands
<1>2. \A n \in DOMAIN gates' : RowStands(gates'[n], reconciliations', brokerOrders')
  <2>1. CASE gates' = gates
    BY <1>1, <1>f, <2>1 DEF MismatchInv
  <2>2. ASSUME NEW p \in Procs, pc[p] = "append_gate", gates' = Append(gates, draft[p])
        PROVE  \A n \in DOMAIN gates' : RowStands(gates'[n], reconciliations', brokerOrders')
    <3>1. draft[p] \in Gate /\ RowStands(draft[p], reconciliations, brokerOrders)
      BY <1>a, <1>d, <2>2 DEF MismatchInv, RowStands
    <3>2. \A n \in DOMAIN gates' :
            gates'[n] \in Gate /\ RowStands(gates'[n], reconciliations, brokerOrders)
      BY <1>f, <2>2, <3>1 DEF MismatchInv
    <3> QED BY <1>1, <3>2
  <2> QED BY <1>t, <2>1, <2>2, GateStep
<1>3. ASSUME NEW q \in Procs, pc'[q] \in GateSteps
      PROVE  /\ Began(draft'[q], reconciliations', brokerOrders')
             /\ pc'[q] \in AfterReconciliation => RecHolds(draft'[q], reconciliations')
             /\ pc'[q] = "append_gate" => WorkHolds(draft'[q], brokerOrders')
  <2>1. ReadOn(pc[q], draft[q], pc'[q], draft'[q], reconciliations, brokerOrders)
    BY <1>3, <1>t, GateStep
  <2>2. draft'[q] \in Gate
    BY <1>3, <1>d
  <2>3. SUFFICES /\ Began(draft'[q], reconciliations, brokerOrders)
                 /\ pc'[q] \in AfterReconciliation => RecHolds(draft'[q], reconciliations)
                 /\ pc'[q] = "append_gate" => WorkHolds(draft'[q], brokerOrders)
    BY <1>g, <2>2
  <2>4. pc[q] \in GateSteps /\ draft'[q].began = draft[q].began =>
          Began(draft'[q], reconciliations, brokerOrders)
    BY DEF MismatchInv, Began
  <2>5. CASE pc'[q] = pc[q] /\ draft'[q] = draft[q]
    BY <1>3, <2>5 DEF MismatchInv
  <2>6. CASE /\ pc'[q] = "gate_order"
             /\ draft'[q].began.reconciliations = Len(reconciliations)
             /\ draft'[q].began.brokerOrders = Len(brokerOrders)
    BY <1>a, <1>f, <2>6 DEF Began
  <2>7. CASE /\ pc[q] \in GateSteps /\ pc'[q] \in {"gate_risk", "gate_reconciliation"}
             /\ draft'[q].began = draft[q].began
    BY <1>a, <2>4, <2>7
  <2>8. CASE /\ pc[q] \in GateSteps /\ pc'[q] = "gate_health"
             /\ draft'[q].began = draft[q].began /\ RecHolds(draft'[q], reconciliations)
    BY <2>4, <2>8
  <2>9. CASE /\ pc[q] \in AfterReconciliation /\ pc'[q] \in AfterReconciliation
             /\ Narrows(draft'[q], draft[q])
             /\ (pc'[q] = "append_gate" => WorkHolds(draft'[q], brokerOrders))
    <3>1. RecHolds(draft[q], reconciliations) /\ pc[q] \in GateSteps
      BY <1>a, <2>9 DEF MismatchInv
    <3>2. RecHolds(draft'[q], reconciliations)
      BY <2>9, <3>1 DEF RecHolds, Narrows
    <3>3. draft'[q].began = draft[q].began
      BY <2>9 DEF Narrows
    <3> QED BY <2>4, <2>9, <3>1, <3>2, <3>3
  <2> QED BY <2>1, <2>5, <2>6, <2>7, <2>8, <2>9 DEF ReadOn
<1> QED BY <1>t, <1>2, <1>3, <1>a DEF MismatchInv

\* For any number of terminals and brokers: a gate that allows names a matched
\* reconciliation of its broker, and every later mismatch there, and every order
\* at work there, was put on file after the command had begun.
THEOREM MismatchAlwaysStops == GateSpec => []MismatchStopsGate
<1>1. MismatchInv => MismatchStopsGate
  BY DEF MismatchInv, RowStands, RecHolds, WorkHolds, MismatchStopsGate
<1> QED BY <1>1, MismatchInvInit, MismatchInvNext, PTL DEF GateSpec

=============================================================================
