-------------------------- MODULE PaperTradingProofs --------------------------
(***************************************************************************)
(* Theorems about PaperTrading, for every set of symbols, every bound and  *)
(* every length of the files.  Type correctness holds for any number of    *)
(* terminals, the ledger's safety for one.                                 *)
(***************************************************************************)
EXTENDS PaperTrading, FiniteLemmas

(* The helpers.                                                            *)

LEMMA EmptyType == EmptyPortfolio \in Snapshot
BY MaxLevelAssumption DEF EmptyPortfolio, Snapshot, Levels

LEMMA LatestType ==
  ASSUME snapshots \in Seq(Snapshot)
  PROVE  Latest(snapshots) \in Snapshot /\ LatestOrEmpty(snapshots) \in Seq(Snapshot)
<1>1. CASE snapshots = <<>>
  BY <1>1, EmptyType DEF Latest, LatestOrEmpty
<1>2. CASE snapshots # <<>>
  <2>1. Len(snapshots) \in 1..Len(snapshots)
    BY <1>2
  <2> QED BY <1>2, <2>1 DEF Latest, LatestOrEmpty, Last
<1> QED BY <1>1, <1>2

LEMMA NothingType == NothingInHand \in Hand
<1>1. <<>> \in Seq(Order) /\ 0 \in Levels
  BY MaxLevelAssumption DEF Levels
<1> QED BY <1>1, EmptyType DEF NothingInHand, Hand

LEMMA RecommendedType ==
  ASSUME NEW s \in Symbols, NEW cur \in Levels
  PROVE  Recommended(s, cur) \subseteq Decision
<1>1. 0 \in Levels /\ Smaller(cur, MaxPosition) \in Levels
  BY MaxLevelAssumption, MaxPositionAssumption DEF Levels, Smaller
<1>2. \A n \in Levels : Half(n) \in Levels
  BY MaxLevelAssumption DEF Levels, Half
<1>3. Half(Smaller(cur, MaxPosition)) \in Levels /\ (cur > 0) \in BOOLEAN
  BY <1>1, <1>2
<1> QED BY <1>1, <1>3, MaxPositionAssumption DEF Recommended, NoEntries, Decision, DecisionActions

\* Marking one order FILLED changes its status and nothing else.
LEMMA MarkedFacts ==
  ASSUME orders \in Seq(Order), NEW i \in DOMAIN orders
  PROVE  /\ Marked(i) \in Seq(Order)
         /\ DOMAIN Marked(i) = DOMAIN orders
         /\ \A k \in DOMAIN orders : /\ Marked(i)[k].decision = orders[k].decision
                                     /\ Marked(i)[k].sym = orders[k].sym
                                     /\ Open(Marked(i)[k]) <=> k # i /\ Open(orders[k])
<1> DEFINE list == Marked(i)
<1>1. orders \in [1..Len(orders) -> Order] /\ i \in 1..Len(orders) /\ Len(orders) \in Nat
  OBVIOUS
<1>2. orders[i] \in Order
  BY <1>1
<1>3. [orders[i] EXCEPT !.status = "FILLED"] \in Order
  BY <1>2 DEF Order
<1>4. list \in [1..Len(orders) -> Order]
  BY <1>1, <1>3 DEF Marked
<1>5. list \in Seq(Order) /\ DOMAIN list = DOMAIN orders
  BY <1>1, <1>4
<1>6. \A k \in DOMAIN orders : orders[k] \in Order
  BY <1>1
<1>7. \A k \in DOMAIN orders : k # i => list[k] = orders[k]
  BY <1>1 DEF Marked
<1>8. list[i] = [orders[i] EXCEPT !.status = "FILLED"]
  BY <1>1 DEF Marked
<1>9. list[i].decision = orders[i].decision /\ list[i].sym = orders[i].sym /\ ~Open(list[i])
  BY <1>2, <1>8 DEF Order, Open
<1> HIDE DEF list
<1> QED BY <1>5, <1>7, <1>9 DEF list

-----------------------------------------------------------------------------
(* Type correctness.                                                       *)

\* AppendOrder reads the decision by the id in hand, which must be on file.
TypeInv ==
  /\ TypeOK
  /\ \A p \in Procs : pc[p] \in Ordering => hand[p].order \in DOMAIN decisions

LEMMA TypeInvInit == Init => TypeInv
<1> SUFFICES ASSUME Init PROVE TypeInv
  OBVIOUS
<1>1. pc \in [Procs -> Steps] /\ \A p \in Procs : pc[p] = "idle"
  BY DEF Init, Steps
<1>2. hand \in [Procs -> Hand]
  BY NothingType DEF Init
<1>3. <<>> \in Seq(Decision) /\ <<>> \in Seq(ControlEvent(Times)) /\ <<>> \in Seq(Order)
      /\ <<>> \in Seq(Snapshot)
  OBVIOUS
<1> QED BY <1>1, <1>2, <1>3 DEF Init, TypeInv, TypeOK, Ordering

LEMMA NewOrderType ==
  ASSUME decisions \in Seq(Decision), NEW id \in DOMAIN decisions
  PROVE  NewOrder(id) \in Order
<1>1. decisions[id] \in Decision /\ id \in Nat
  OBVIOUS
<1> QED BY <1>1 DEF NewOrder, Order, Decision, Side

LEMMA FillInHandType ==
  ASSUME orders \in Seq(Order), snapshots \in Seq(Snapshot),
         NEW i \in DOMAIN orders, NEW quote \in Quotes
  PROVE  FillInHand(i, quote) \in Hand
<1>1. orders[i] \in Order /\ Latest(snapshots) \in Snapshot
  BY LatestType
<1>2. quote \in Nat
  BY QuotesAssumption
<1>3. Marked(i) \in Seq(Order)
  BY MarkedFacts
<1>4. [pos |-> [Latest(snapshots).pos EXCEPT ![orders[i].sym] = orders[i].target],
       booked |-> Latest(snapshots).booked \cup {orders[i].decision}] \in Snapshot
  BY <1>1 DEF Snapshot, Order
<1>5. orders[i].decision \in Nat
  BY <1>1 DEF Order
<1> QED BY <1>2, <1>3, <1>4, <1>5 DEF FillInHand, Hand

\* Only a torn rewrite loses orders.
LEMMA LostKept == [Next]_vars => UNCHANGED lost \/ \E p \in Procs : TornReplace(p)
BY DEF Next, Step, Decide, DecideFailClosed, RecordControl, CheckOrder, SeekOrder, AppendOrder,
   ReadFill, SkipFill, MarkFilled, SaveFill, SaveSnapshot, SavePoint, ReadMark, Crash, vars

LEMMA TypeInvNext == TypeInv /\ [Next]_vars => TypeInv'
<1> SUFFICES ASSUME TypeInv, [Next]_vars PROVE TypeInv'
  OBVIOUS
<1> USE DEF TypeInv
<1>lost. lost' \subseteq Nat
  <2>1. CASE \E p \in Procs : TornReplace(p)
    <3>1. PICK p \in Procs : TornReplace(p)
      BY <2>1
    <3>2. PICK kept \in 0 .. Len(hand[p].orders) - 1 :
            lost' = lost \cup {hand[p].orders[i].decision : i \in (kept + 1)..Len(hand[p].orders)}
      BY <3>1 DEF TornReplace
    <3>3. \A i \in (kept + 1)..Len(hand[p].orders) : hand[p].orders[i] \in Order
      BY DEF TypeOK, Hand
    <3> QED BY <3>2, <3>3 DEF Order, TypeOK
  <2>2. CASE UNCHANGED lost
    BY <2>2 DEF TypeOK
  <2> QED BY <2>1, <2>2, LostKept
<1> USE <1>lost
<1>latest. Latest(snapshots) \in Snapshot /\ LatestOrEmpty(snapshots) \in Seq(Snapshot)
  BY LatestType DEF TypeOK
<1>finish. ASSUME NEW p \in Procs, Finish(p)
           PROVE  /\ pc' \in [Procs -> Steps] /\ hand' \in [Procs -> Hand]
                  /\ \A q \in Procs : pc'[q] \in Ordering => pc[q] \in Ordering /\ hand'[q] = hand[q]
  BY <1>finish, NothingType DEF Finish, Goto, Steps, Ordering, TypeOK
<1>decide. ASSUME NEW p \in Procs, Decide(p) PROVE TypeInv'
  <2>1. PICK s \in Symbols :
          \E d \in Recommended(s, Latest(snapshots).pos[s]) : decisions' = Append(decisions, d)
    BY <1>decide DEF Decide
  <2>2. Latest(snapshots).pos[s] \in Levels
    BY <1>latest DEF Snapshot
  <2>3. PICK d \in Decision : decisions' = Append(decisions, d)
    BY <2>1, <2>2, RecommendedType
  <2>4. decisions' \in Seq(Decision) /\ DOMAIN decisions \subseteq DOMAIN decisions'
    BY <2>3 DEF TypeOK
  <2> QED BY <1>decide, <1>latest, <2>4 DEF Decide, TypeOK
<1>closed. ASSUME NEW p \in Procs, DecideFailClosed(p) PROVE TypeInv'
  <2>1. PICK s \in Symbols : decisions' = Append(decisions, NoEntries(s, 0))
    BY <1>closed DEF DecideFailClosed
  <2>2. NoEntries(s, 0) \in Decision
    BY MaxLevelAssumption DEF NoEntries, Decision, DecisionActions, Levels
  <2>3. decisions' \in Seq(Decision) /\ DOMAIN decisions \subseteq DOMAIN decisions'
    BY <2>1, <2>2 DEF TypeOK
  <2> QED BY <1>closed, <2>3 DEF DecideFailClosed, TypeOK
<1>control. ASSUME NEW p \in Procs, RecordControl(p) PROVE TypeInv'
  <2>1. controls' \in Seq(ControlEvent(Times))
    BY <1>control DEF RecordControl, TypeOK
  <2> QED BY <1>control, <2>1 DEF RecordControl, TypeOK
<1>check. ASSUME NEW p \in Procs, CheckOrder(p) PROVE TypeInv'
  <2>1. PICK id \in DOMAIN decisions : hand' = [hand EXCEPT ![p].order = id]
    BY <1>check DEF CheckOrder
  <2>2. id \in Nat /\ hand[p] \in Hand
    BY <2>1 DEF TypeOK
  <2>3. [hand[p] EXCEPT !.order = id] \in Hand
    BY <2>2 DEF Hand
  <2>4. hand' \in [Procs -> Hand] /\ hand'[p].order = id
        /\ \A q \in Procs : q # p => hand'[q] = hand[q]
    BY <2>1, <2>2, <2>3 DEF TypeOK, Hand
  <2>5. pc' \in [Procs -> Steps] /\ \A q \in Procs : q # p => pc'[q] = pc[q]
    BY <1>check DEF CheckOrder, Goto, TypeOK, Steps, Ordering
  <2>6. \A q \in Procs : pc'[q] \in Ordering => hand'[q].order \in DOMAIN decisions
    BY <2>4, <2>5 DEF Ordering
  <2> QED BY <1>check, <2>4, <2>5, <2>6 DEF CheckOrder, TypeOK
<1>seek. ASSUME NEW p \in Procs, SeekOrder(p) PROVE TypeInv'
  <2>1. CASE Finish(p)
    BY <1>seek, <1>finish, <2>1 DEF SeekOrder, TypeOK
  <2>2. CASE Goto(p, "append_order") /\ UNCHANGED hand
    <3>1. /\ pc' \in [Procs -> Steps] /\ pc[p] \in Ordering
          /\ \A q \in Procs : q # p => pc'[q] = pc[q]
      BY <1>seek, <2>2 DEF SeekOrder, Goto, Steps, Ordering, TypeOK
    <3> QED BY <1>seek, <2>2, <3>1 DEF SeekOrder, TypeOK
  <2> QED BY <1>seek, <2>1, <2>2 DEF SeekOrder
<1>save. ASSUME NEW p \in Procs, AppendOrder(p) PROVE TypeInv'
  <2>1. hand[p].order \in DOMAIN decisions
    BY <1>save DEF AppendOrder, Ordering
  <2>2. NewOrder(hand[p].order) \in Order
    BY <2>1, NewOrderType DEF TypeOK
  <2>3. orders' \in Seq(Order)
    BY <1>save, <2>2 DEF AppendOrder, TypeOK
  <2> QED BY <1>save, <1>finish, <2>3 DEF AppendOrder, TypeOK
<1>read. ASSUME NEW p \in Procs, ReadFill(p) PROVE TypeInv'
  <2>1. PICK i \in DOMAIN orders : \E quote \in Quotes :
          hand' = [hand EXCEPT ![p] = FillInHand(i, quote)]
    BY <1>read DEF ReadFill
  <2>2. PICK quote \in Quotes : hand' = [hand EXCEPT ![p] = FillInHand(i, quote)]
    BY <2>1
  <2>3. FillInHand(i, quote) \in Hand
    BY <1>latest, FillInHandType DEF TypeOK
  <2>4. hand' \in [Procs -> Hand] /\ \A q \in Procs : q # p => hand'[q] = hand[q]
    BY <2>2, <2>3 DEF TypeOK
  <2>5. pc' = [pc EXCEPT ![p] = "mark_filled"] /\ pc' \in [Procs -> Steps]
    BY <1>read DEF ReadFill, Goto, TypeOK, Steps
  <2>6. \A q \in Procs : pc'[q] \in Ordering => hand'[q].order \in DOMAIN decisions
    BY <2>4, <2>5 DEF TypeOK, Ordering
  <2> QED BY <1>read, <1>latest, <2>4, <2>5, <2>6 DEF ReadFill, TypeOK
<1>skip. ASSUME NEW p \in Procs, SkipFill(p) PROVE TypeInv'
  BY <1>skip, <1>latest DEF SkipFill, TypeOK
<1>mark. ASSUME NEW p \in Procs, MarkFilled(p) PROVE TypeInv'
  <2>1. hand[p].orders \in Seq(Order)
    BY DEF TypeOK, Hand
  <2> QED BY <1>mark, <2>1 DEF MarkFilled, Goto, TypeOK, Steps, Ordering
<1>fill. ASSUME NEW p \in Procs, SaveFill(p) PROVE TypeInv'
  <2>1. [order |-> hand[p].order, quote |-> hand[p].quote] \in Fill
    BY DEF TypeOK, Hand, Fill
  <2>2. fills' \subseteq Fill
    BY <1>fill, <2>1 DEF SaveFill, TypeOK
  <2> QED BY <1>fill, <2>2 DEF SaveFill, Goto, TypeOK, Steps, Ordering
<1>snapshot. ASSUME NEW p \in Procs, SaveSnapshot(p) PROVE TypeInv'
  <2>1. hand[p].snapshot \in Snapshot
    BY DEF TypeOK, Hand
  <2>2. snapshots' \in Seq(Snapshot)
    BY <1>snapshot, <2>1 DEF SaveSnapshot, TypeOK
  <2> QED BY <1>snapshot, <2>2 DEF SaveSnapshot, Goto, TypeOK, Steps, Ordering
<1>point. ASSUME NEW p \in Procs, SavePoint(p) PROVE TypeInv'
  <2>1. hand[p].snapshot \in Snapshot
    BY DEF TypeOK, Hand
  <2>2. curve' \in Seq(Snapshot)
    BY <1>point, <2>1 DEF SavePoint, TypeOK
  <2> QED BY <1>point, <1>finish, <2>2 DEF SavePoint, TypeOK
<1>valuation. ASSUME NEW p \in Procs, ReadMark(p) PROVE TypeInv'
  <2>0. PICK s \in Symbols : \E worth \in Worths(s) :
          hand' = [hand EXCEPT ![p].snapshot = [Latest(snapshots) EXCEPT !.pos[s] = worth]]
    BY <1>valuation DEF ReadMark
  <2>1. PICK worth \in Worths(s) :
          hand' = [hand EXCEPT ![p].snapshot = [Latest(snapshots) EXCEPT !.pos[s] = worth]]
    BY <2>0
  <2>2. worth \in Levels
    BY <2>1, MaxLevelAssumption DEF Worths, Levels
  <2>3. [Latest(snapshots) EXCEPT !.pos[s] = worth] \in Snapshot
    BY <2>2, <1>latest DEF Snapshot
  <2>4. hand[p] \in Hand
    BY DEF TypeOK
  <2>5. [hand[p] EXCEPT !.snapshot = [Latest(snapshots) EXCEPT !.pos[s] = worth]] \in Hand
    BY <2>3, <2>4 DEF Hand
  <2>6. hand' \in [Procs -> Hand] /\ \A q \in Procs : q # p => hand'[q] = hand[q]
    BY <2>1, <2>5 DEF TypeOK
  <2>7. pc' = [pc EXCEPT ![p] = "save_snapshot"] /\ pc' \in [Procs -> Steps]
    BY <1>valuation DEF ReadMark, Goto, TypeOK, Steps
  <2>8. \A q \in Procs : pc'[q] \in Ordering => hand'[q].order \in DOMAIN decisions
    BY <2>6, <2>7 DEF TypeOK, Ordering
  <2> QED BY <1>valuation, <1>latest, <2>6, <2>7, <2>8 DEF ReadMark, TypeOK
<1>crash. ASSUME NEW p \in Procs, Crash(p) PROVE TypeInv'
  BY <1>crash, <1>finish DEF Crash, TypeOK
<1>torn. ASSUME NEW p \in Procs, TornReplace(p) PROVE TypeInv'
  <2>1. hand[p].orders \in Seq(Order)
    BY DEF TypeOK, Hand
  <2>2. orders' \in Seq(Order)
    BY <1>torn, <2>1 DEF TornReplace
  <2> QED BY <1>torn, <1>finish, <2>2 DEF TornReplace, TypeOK
<1>stutter. CASE UNCHANGED vars
  BY <1>stutter DEF vars, TypeOK
<1> QED
  BY <1>decide, <1>closed, <1>control, <1>check, <1>seek, <1>save, <1>read, <1>skip, <1>mark, <1>fill,
     <1>snapshot, <1>point, <1>valuation, <1>crash, <1>torn, <1>stutter
  DEF Next, Step

\* Every file holds what its model writes, for any number of terminals and
\* under every fault.
THEOREM TypeCorrect == Spec => []TypeOK
<1>1. TypeInv => TypeOK
  BY DEF TypeInv
<1> QED BY <1>1, TypeInvInit, TypeInvNext, PTL DEF Spec

-----------------------------------------------------------------------------
(* One terminal: the order file.                                           *)

OneOpen(list) ==
  \A i, j \in DOMAIN list :
    Open(list[i]) /\ Open(list[j]) /\ list[i].sym = list[j].sym => i = j
OncePerDecision(list) ==
  \A i, j \in DOMAIN list : list[i].decision = list[j].decision => i = j

\* What a command has read is still so when it writes: nobody else ran.
OrderInv ==
  /\ TypeInv
  /\ OneOpen(orders) /\ OncePerDecision(orders)
  /\ \A p \in Procs : pc[p] \in Ordering => NoActiveOrder(decisions[hand[p].order].sym)
  /\ \A p \in Procs : pc[p] = "append_order" =>
       \A i \in DOMAIN orders : orders[i].decision # hand[p].order
  /\ \A p \in Procs : pc[p] = "mark_filled" =>
       \E i \in DOMAIN orders : /\ Open(orders[i])
                                /\ hand[p].order = orders[i].decision
                                /\ hand[p].orders = Marked(i)

LEMMA MarkedKeeps ==
  ASSUME orders \in Seq(Order), OneOpen(orders), OncePerDecision(orders), NEW i \in DOMAIN orders
  PROVE  OneOpen(Marked(i)) /\ OncePerDecision(Marked(i))
<1> DEFINE list == Marked(i)
<1>1. /\ DOMAIN list = DOMAIN orders
      /\ \A k \in DOMAIN orders : /\ list[k].decision = orders[k].decision
                                  /\ list[k].sym = orders[k].sym
                                  /\ Open(list[k]) => Open(orders[k])
  BY MarkedFacts
<1> HIDE DEF list
<1>2. OneOpen(list) /\ OncePerDecision(list)
  BY <1>1 DEF OneOpen, OncePerDecision
<1> QED BY <1>2 DEF list

LEMMA PrefixKeeps ==
  ASSUME NEW list \in Seq(Order), OneOpen(list), OncePerDecision(list), NEW kept \in 0..Len(list)
  PROVE  OneOpen(SubSeq(list, 1, kept)) /\ OncePerDecision(SubSeq(list, 1, kept))
<1>1. DOMAIN SubSeq(list, 1, kept) = 1..kept /\ 1..kept \subseteq DOMAIN list
  OBVIOUS
<1>2. \A k \in 1..kept : SubSeq(list, 1, kept)[k] = list[k]
  OBVIOUS
<1> QED BY <1>1, <1>2 DEF OneOpen, OncePerDecision

LEMMA AppendKeeps ==
  ASSUME orders \in Seq(Order), OneOpen(orders), OncePerDecision(orders),
         NEW o \in Order, NoActiveOrder(o.sym),
         \A i \in DOMAIN orders : orders[i].decision # o.decision
  PROVE  OneOpen(Append(orders, o)) /\ OncePerDecision(Append(orders, o))
<1> DEFINE list == Append(orders, o)
           n == Len(orders) + 1
<1>1. DOMAIN list = (DOMAIN orders) \cup {n} /\ list[n] = o /\ n \notin DOMAIN orders
  OBVIOUS
<1>2. \A i \in DOMAIN orders : list[i] = orders[i]
  OBVIOUS
<1> HIDE DEF list, n
<1>3. \A i \in DOMAIN list : i \in DOMAIN orders \/ i = n
  BY <1>1
<1>4. OneOpen(list)
  BY <1>1, <1>2, <1>3 DEF OneOpen, NoActiveOrder
<1>5. OncePerDecision(list)
  BY <1>1, <1>2, <1>3 DEF OncePerDecision
<1> QED BY <1>4, <1>5 DEF list

LEMMA OrderInvInit == Init => OrderInv
<1> SUFFICES ASSUME Init PROVE OrderInv
  OBVIOUS
<1>1. DOMAIN orders = {}
  BY DEF Init
<1>2. \A p \in Procs : pc[p] = "idle"
  BY DEF Init
<1> QED BY <1>1, <1>2, TypeInvInit DEF OrderInv, OneOpen, OncePerDecision, Ordering

LEMMA OrderInvNext ==
  ASSUME NEW t, Procs = {t}
  PROVE  OrderInv /\ [Next]_vars => OrderInv'
<1> SUFFICES ASSUME OrderInv, [Next]_vars PROVE OrderInv'
  OBVIOUS
<1>type. TypeInv /\ TypeInv' /\ TypeOK /\ TypeOK'
  BY TypeInvNext DEF OrderInv, TypeInv
<1>pc. /\ pc \in [{t} -> Steps] /\ pc' \in [{t} -> Steps]
       /\ hand \in [{t} -> Hand] /\ hand' \in [{t} -> Hand]
  BY <1>type DEF TypeOK
<1>same. ASSUME orders' = orders, pc'[t] \notin Ordering \cup {"mark_filled"} PROVE OrderInv'
  BY <1>same, <1>type DEF OrderInv, Ordering
<1>write. ASSUME OneOpen(orders'), OncePerDecision(orders'), pc'[t] \notin Ordering \cup {"mark_filled"}
          PROVE OrderInv'
  BY <1>write, <1>type DEF OrderInv, OneOpen, OncePerDecision, Ordering
<1>check. CASE CheckOrder(t)
  <2>1. PICK id \in DOMAIN decisions :
          NoActiveOrder(decisions[id].sym) /\ hand' = [hand EXCEPT ![t].order = id]
    BY <1>check DEF CheckOrder
  <2>2. hand'[t].order = id
    BY <1>pc, <2>1 DEF Hand
  <2>3. UNCHANGED <<orders, decisions>> /\ pc'[t] = "order"
    BY <1>check, <1>pc DEF CheckOrder, Goto
  <2> QED BY <1>type, <2>1, <2>2, <2>3 DEF OrderInv, NoActiveOrder
<1>seek. CASE SeekOrder(t)
  <2>1. orders' = orders /\ decisions' = decisions
    BY <1>seek DEF SeekOrder
  <2>2. CASE \E i \in DOMAIN orders : orders[i].decision = hand[t].order
    <3>1. pc'[t] = "idle"
      BY <1>seek, <1>pc, <2>2 DEF SeekOrder, Finish, Goto
    <3> QED BY <1>same, <2>1, <3>1 DEF Ordering
  <2>3. CASE ~\E i \in DOMAIN orders : orders[i].decision = hand[t].order
    <3>1. pc'[t] = "append_order" /\ hand' = hand
      BY <1>seek, <1>pc, <2>3 DEF SeekOrder, Goto
    <3>2. NoActiveOrder(decisions[hand[t].order].sym)
      BY <1>seek DEF SeekOrder, OrderInv, Ordering
    <3> QED BY <1>type, <2>1, <2>3, <3>1, <3>2 DEF OrderInv, NoActiveOrder
  <2> QED BY <2>2, <2>3
<1>save. CASE AppendOrder(t)
  <2>1. /\ hand[t].order \in DOMAIN decisions /\ NoActiveOrder(decisions[hand[t].order].sym)
        /\ \A i \in DOMAIN orders : orders[i].decision # hand[t].order
    BY <1>save, <1>type DEF AppendOrder, OrderInv, TypeInv, Ordering
  <2>2. pc'[t] \notin Ordering \cup {"mark_filled"}
    BY <1>save, <1>pc DEF AppendOrder, Finish, Goto, Ordering
  <2> DEFINE o == NewOrder(hand[t].order)
  <2>3. o \in Order
    BY <1>type, <2>1, NewOrderType DEF TypeOK
  <2>4. NoActiveOrder(o.sym) /\ o.decision = hand[t].order
    BY <2>1 DEF NewOrder
  <2>5. orders' = Append(orders, o)
    BY <1>save DEF AppendOrder
  <2> HIDE DEF o
  <2>6. OneOpen(Append(orders, o)) /\ OncePerDecision(Append(orders, o))
    BY <1>type, <2>1, <2>3, <2>4, AppendKeeps DEF OrderInv, TypeOK
  <2> QED BY <1>write, <2>2, <2>5, <2>6
<1>read. CASE ReadFill(t)
  <2>1. PICK i \in DOMAIN orders :
          Open(orders[i]) /\ \E quote \in Quotes :
                               hand' = [hand EXCEPT ![t] = FillInHand(i, quote)]
    BY <1>read DEF ReadFill
  <2>2. hand'[t].order = orders[i].decision /\ hand'[t].orders = Marked(i)
    BY <1>pc, <2>1 DEF FillInHand
  <2>3. UNCHANGED orders /\ pc'[t] = "mark_filled"
    BY <1>read, <1>pc DEF ReadFill, Goto
  <2>4. Marked(i)' = Marked(i)
    BY <2>3 DEF Marked
  <2> QED BY <1>type, <2>1, <2>2, <2>3, <2>4 DEF OrderInv, Ordering
<1>mark. CASE MarkFilled(t) \/ TornReplace(t)
  <2>1. PICK i \in DOMAIN orders : hand[t].orders = Marked(i)
    BY <1>mark DEF OrderInv, MarkFilled, TornReplace
  <2>2. OneOpen(hand[t].orders) /\ OncePerDecision(hand[t].orders)
    BY <1>type, <2>1, MarkedKeeps DEF OrderInv, TypeOK
  <2>3. hand[t].orders \in Seq(Order)
    BY <1>pc DEF Hand
  <2>4. OneOpen(orders') /\ OncePerDecision(orders')
    <3>1. CASE MarkFilled(t)
      BY <2>2, <3>1 DEF MarkFilled
    <3>2. CASE TornReplace(t)
      BY <2>2, <2>3, <3>2, PrefixKeeps DEF TornReplace
    <3> QED BY <1>mark, <3>1, <3>2
  <2>5. pc'[t] \in {"idle", "save_fill"}
    BY <1>mark, <1>pc DEF MarkFilled, TornReplace, Finish, Goto
  <2> QED BY <1>write, <2>4, <2>5 DEF Ordering
<1>idle. CASE Decide(t) \/ DecideFailClosed(t) \/ RecordControl(t) \/ SkipFill(t)
  BY <1>idle, <1>same DEF Decide, DecideFailClosed, RecordControl, SkipFill, Idle, Ordering
<1>fill. CASE SaveFill(t) \/ SaveSnapshot(t) \/ SavePoint(t) \/ ReadMark(t) \/ Crash(t)
  <2>1. pc'[t] \in {"save_snapshot", "save_point", "idle"} /\ orders' = orders
    BY <1>fill, <1>pc DEF SaveFill, SaveSnapshot, SavePoint, ReadMark, Crash, Finish, Goto
  <2> QED BY <1>same, <2>1 DEF Ordering
<1>stutter. CASE UNCHANGED vars
  BY <1>stutter, <1>type DEF vars, OrderInv, NoActiveOrder, Marked
<1> QED
  BY <1>check, <1>seek, <1>save, <1>read, <1>mark, <1>idle, <1>fill, <1>stutter DEF Next, Step

\* One open order per symbol, whatever crashes or torn rewrites happen, as long
\* as one terminal runs at a time.
THEOREM OneActiveOrderAlways ==
  ASSUME NEW t, Procs = {t}
  PROVE  Spec => []OneActiveOrder
<1>1. OrderInv => OneActiveOrder
  BY DEF OrderInv, OneActiveOrder, OneOpen
<1>2. OrderInv /\ [Next]_vars => OrderInv'
  BY OrderInvNext
<1> QED BY <1>1, <1>2, OrderInvInit, PTL DEF Spec

\* One order per decision, whatever crashes or torn rewrites happen, as long as
\* one terminal runs at a time: what paper-order finds when it looks for the
\* decision is still so when it appends, and a list read earlier that is written
\* back had each decision once.
THEOREM DecisionOrderedOnceAlways ==
  ASSUME NEW t, Procs = {t}
  PROVE  Spec => []DecisionOrderedOnce
<1>1. OrderInv => DecisionOrderedOnce
  BY DEF OrderInv, DecisionOrderedOnce, OncePerDecision
<1>2. OrderInv /\ [Next]_vars => OrderInv'
  BY OrderInvNext
<1> QED BY <1>1, <1>2, OrderInvInit, PTL DEF Spec

-----------------------------------------------------------------------------
(* One terminal: fills and portfolios.                                     *)

\* Where each portfolio's history may be while a fill is under way.
BookedIn(set) == \A i \in DOMAIN snapshots : snapshots[i].booked \subseteq set
BooksInv ==
  /\ OrderInv
  /\ FillAtMostOnce
  /\ FilledOrders \subseteq Filled \cup lost
  /\ BookedIn(FilledOrders)
  /\ \A p \in Procs :
       /\ pc[p] \in {"mark_filled", "save_fill"} =>
            hand[p].snapshot.booked \subseteq FilledOrders \cup {hand[p].order}
       /\ pc[p] = "save_fill" => /\ hand[p].order \in Filled \cup lost
                               /\ hand[p].order \notin FilledOrders \ lost
       /\ pc[p] = "save_snapshot" => hand[p].snapshot.booked \subseteq FilledOrders

LEMMA BooksInvInit == Init => BooksInv
<1> SUFFICES ASSUME Init PROVE BooksInv
  OBVIOUS
<1>1. fills = {} /\ DOMAIN snapshots = {} /\ \A p \in Procs : pc[p] = "idle"
  BY DEF Init
<1> QED BY <1>1, OrderInvInit DEF BooksInv, BookedIn, FillAtMostOnce, FilledOrders

\* The portfolio a command starts from has applied only fills on file.
LEMMA LatestBooked ==
  ASSUME snapshots \in Seq(Snapshot), BookedIn(FilledOrders)
  PROVE  /\ Latest(snapshots).booked \subseteq FilledOrders
         /\ \A i \in DOMAIN LatestOrEmpty(snapshots) :
              LatestOrEmpty(snapshots)[i].booked \subseteq FilledOrders
<1>1. CASE snapshots = <<>>
  <2>1. DOMAIN <<EmptyPortfolio>> = {1} /\ <<EmptyPortfolio>>[1] = EmptyPortfolio
    OBVIOUS
  <2> QED BY <1>1, <2>1 DEF Latest, LatestOrEmpty, EmptyPortfolio
<1>2. CASE snapshots # <<>>
  <2>1. Len(snapshots) \in DOMAIN snapshots
    BY <1>2
  <2> QED BY <1>2, <2>1 DEF Latest, LatestOrEmpty, Last, BookedIn
<1> QED BY <1>1, <1>2

\* An order appended or marked loses no FILLED order.
LEMMA AppendedFilled ==
  ASSUME orders \in Seq(Order), NEW o, orders' = Append(orders, o)
  PROVE  Filled \subseteq Filled'
<1>1. \A k \in DOMAIN orders : k \in DOMAIN orders' /\ orders'[k] = orders[k]
  OBVIOUS
<1> QED BY <1>1 DEF Filled, Open

LEMMA MarkedFilled ==
  ASSUME orders \in Seq(Order), NEW i \in DOMAIN orders, orders' = Marked(i)
  PROVE  Filled' = Filled \cup {orders[i].decision}
<1>1. /\ DOMAIN orders' = DOMAIN orders
      /\ \A k \in DOMAIN orders : /\ orders'[k].decision = orders[k].decision
                                  /\ Open(orders'[k]) <=> k # i /\ Open(orders[k])
  BY MarkedFacts
<1>2. Filled' = {orders'[k].decision : k \in {j \in DOMAIN orders' : ~Open(orders'[j])}}
  BY DEF Filled, Open
<1> QED BY <1>1, <1>2 DEF Filled

LEMMA BooksInvNext ==
  ASSUME NEW t, Procs = {t}
  PROVE  BooksInv /\ [Next]_vars => BooksInv'
<1> SUFFICES ASSUME BooksInv, [Next]_vars PROVE BooksInv'
  OBVIOUS
<1>order. OrderInv /\ OrderInv' /\ TypeOK /\ TypeOK'
  BY OrderInvNext DEF BooksInv, OrderInv, TypeInv
<1>pc. /\ pc \in [{t} -> Steps] /\ pc' \in [{t} -> Steps]
       /\ hand \in [{t} -> Hand] /\ hand' \in [{t} -> Hand]
  BY <1>order DEF TypeOK
<1>lost. lost \subseteq lost'
  BY LostKept DEF TornReplace
<1>latest. /\ Latest(snapshots).booked \subseteq FilledOrders
           /\ \A i \in DOMAIN LatestOrEmpty(snapshots) :
                LatestOrEmpty(snapshots)[i].booked \subseteq FilledOrders
  BY <1>order, LatestBooked DEF BooksInv, TypeOK
\* Commands that write none of fills, portfolios and FILLED marks.
<1>idle. ASSUME fills' = fills, Filled \cup lost \subseteq Filled' \cup lost',
                snapshots' \in {snapshots, LatestOrEmpty(snapshots)},
                pc'[t] \notin {"mark_filled", "save_fill", "save_snapshot"}
         PROVE  BooksInv'
  <2>1. FilledOrders' = FilledOrders /\ FillAtMostOnce'
    BY <1>idle, <1>lost DEF FilledOrders, FillAtMostOnce, BooksInv
  <2>2. \A i \in DOMAIN snapshots' : snapshots'[i].booked \subseteq FilledOrders
    BY <1>idle, <1>latest DEF BooksInv, BookedIn
  <2>3. BookedIn(FilledOrders)'
    BY <2>1, <2>2 DEF BookedIn
  <2>4. FilledOrders' \subseteq Filled' \cup lost'
    BY <1>idle, <2>1 DEF BooksInv
  <2> QED BY <1>idle, <1>order, <2>1, <2>3, <2>4 DEF BooksInv
<1>same. ASSUME orders' = orders PROVE Filled' = Filled
  BY <1>same DEF Filled, Open
<1>decide. CASE \/ Decide(t) \/ DecideFailClosed(t) \/ RecordControl(t)
                \/ CheckOrder(t) \/ SeekOrder(t) \/ SkipFill(t) \/ Crash(t)
  <2>1. /\ orders' = orders /\ fills' = fills
        /\ snapshots' \in {snapshots, LatestOrEmpty(snapshots)}
        /\ pc'[t] \in {"idle", "order", "append_order"}
    BY <1>decide, <1>pc
    DEF Decide, DecideFailClosed, RecordControl, CheckOrder, SeekOrder, SkipFill, Crash, Finish, Goto, Idle
  <2> QED BY <1>idle, <1>same, <1>lost, <2>1
<1>point. CASE SavePoint(t)
  <2>1. orders' = orders /\ fills' = fills /\ snapshots' = snapshots /\ pc'[t] = "idle"
    BY <1>point, <1>pc DEF SavePoint, Finish, Goto
  <2> QED BY <1>idle, <1>same, <1>lost, <2>1
<1>save. CASE AppendOrder(t)
  <2>1. fills' = fills /\ snapshots' = snapshots /\ pc'[t] = "idle"
    BY <1>save, <1>pc DEF AppendOrder, Finish, Goto
  <2>2. Filled \subseteq Filled'
    BY <1>save, <1>order, AppendedFilled DEF AppendOrder, TypeOK
  <2> QED BY <1>idle, <1>lost, <2>1, <2>2
\* A portfolio read and revalued, with or without a fill applied to it.
<1>read. CASE ReadFill(t)
  <2>1. PICK i \in DOMAIN orders : \E quote \in Quotes :
                                     hand' = [hand EXCEPT ![t] = FillInHand(i, quote)]
    BY <1>read DEF ReadFill
  <2>2. /\ hand'[t].snapshot.booked = Latest(snapshots).booked \cup {orders[i].decision}
        /\ hand'[t].order = orders[i].decision
    BY <1>pc, <2>1 DEF FillInHand
  <2>3. /\ orders' = orders /\ fills' = fills /\ snapshots' = LatestOrEmpty(snapshots)
        /\ pc'[t] = "mark_filled"
    BY <1>read, <1>pc DEF ReadFill, Goto
  <2>4. FilledOrders' = FilledOrders /\ FillAtMostOnce' /\ Filled' = Filled
    BY <1>same, <1>lost, <2>3 DEF FilledOrders, FillAtMostOnce, BooksInv
  <2>5. BookedIn(FilledOrders)'
    BY <1>latest, <2>3, <2>4 DEF BookedIn
  <2>6. hand'[t].snapshot.booked \subseteq FilledOrders' \cup {hand'[t].order}
    BY <1>latest, <2>2, <2>4
  <2> QED BY <1>order, <1>lost, <2>3, <2>4, <2>5, <2>6 DEF BooksInv
<1>valuation. CASE ReadMark(t)
  <2>1. PICK s \in Symbols : \E worth \in Worths(s) :
          hand' = [hand EXCEPT ![t].snapshot = [Latest(snapshots) EXCEPT !.pos[s] = worth]]
    BY <1>valuation DEF ReadMark
  <2>2. hand[t] \in Hand /\ Latest(snapshots) \in Snapshot
    BY <1>pc, <1>order, LatestType DEF TypeOK
  <2>3. hand'[t].snapshot.booked = Latest(snapshots).booked
    BY <1>pc, <2>1, <2>2 DEF Hand, Snapshot
  <2>4. /\ orders' = orders /\ fills' = fills /\ snapshots' = LatestOrEmpty(snapshots)
        /\ pc'[t] = "save_snapshot"
    BY <1>valuation, <1>pc DEF ReadMark, Goto
  <2>5. FilledOrders' = FilledOrders /\ FillAtMostOnce' /\ Filled' = Filled
    BY <1>same, <1>lost, <2>4 DEF FilledOrders, FillAtMostOnce, BooksInv
  <2>6. BookedIn(FilledOrders)'
    BY <1>latest, <2>4, <2>5 DEF BookedIn
  <2> QED BY <1>order, <1>lost, <1>latest, <2>3, <2>4, <2>5, <2>6 DEF BooksInv
<1>mark. CASE MarkFilled(t)
  <2>1. PICK i \in DOMAIN orders : /\ Open(orders[i])
                                   /\ hand[t].order = orders[i].decision
                                   /\ hand[t].orders = Marked(i)
    BY <1>mark, <1>order DEF MarkFilled, OrderInv
  <2>2. /\ orders' = Marked(i) /\ fills' = fills /\ snapshots' = snapshots
        /\ hand' = hand /\ pc'[t] = "save_fill"
    BY <1>mark, <1>pc, <2>1 DEF MarkFilled, Goto
  <2>3. Filled' = Filled \cup {hand[t].order}
    BY <1>order, <2>1, <2>2, MarkedFilled DEF TypeOK
  <2>4. hand[t].order \notin Filled
    BY <1>order, <2>1 DEF Filled, OrderInv, OncePerDecision
  <2>5. FilledOrders' = FilledOrders /\ FillAtMostOnce' /\ BookedIn(FilledOrders)'
    BY <1>lost, <2>2 DEF FilledOrders, FillAtMostOnce, BookedIn, BooksInv
  <2>6. hand[t].snapshot.booked \subseteq FilledOrders \cup {hand[t].order}
    BY <1>mark DEF MarkFilled, BooksInv
  <2>7. FilledOrders \subseteq Filled \cup lost
    BY DEF BooksInv
  <2>8. /\ hand[t].order \in Filled' \cup lost'
        /\ hand[t].order \notin FilledOrders' \ lost'
        /\ FilledOrders' \subseteq Filled' \cup lost'
    BY <1>lost, <2>3, <2>4, <2>5, <2>7
  <2> QED BY <1>order, <2>2, <2>5, <2>6, <2>8 DEF BooksInv
<1>fill. CASE SaveFill(t)
  <2> DEFINE f == [order |-> hand[t].order, quote |-> hand[t].quote]
  <2>1. /\ orders' = orders /\ fills' = fills \cup {f} /\ snapshots' = snapshots
        /\ hand' = hand /\ pc'[t] = "save_snapshot"
    BY <1>fill, <1>pc DEF SaveFill, Goto
  <2>2. FilledOrders' = FilledOrders \cup {hand[t].order} /\ Filled' = Filled
    <3>1. f.order = hand[t].order
      OBVIOUS
    <3> HIDE DEF f
    <3>2. FilledOrders' = FilledOrders \cup {f.order}
      BY <2>1 DEF FilledOrders
    <3> QED BY <1>same, <2>1, <3>1, <3>2
  <2>3. hand[t].order \in Filled \cup lost /\ hand[t].order \notin FilledOrders \ lost
    BY <1>fill DEF SaveFill, BooksInv
  <2>4. FillAtMostOnce'
    BY <1>lost, <2>1, <2>3 DEF FillAtMostOnce, FilledOrders, BooksInv
  <2>5. BookedIn(FilledOrders)'
    BY <2>1, <2>2 DEF BookedIn, BooksInv
  <2>6. hand[t].snapshot.booked \subseteq FilledOrders'
    BY <1>fill, <2>2 DEF SaveFill, BooksInv
  <2>7. FilledOrders' \subseteq Filled' \cup lost'
    BY <1>lost, <2>2, <2>3 DEF BooksInv
  <2> QED BY <1>order, <2>1, <2>4, <2>5, <2>6, <2>7 DEF BooksInv
<1>snapshot. CASE SaveSnapshot(t)
  <2>1. /\ orders' = orders /\ fills' = fills /\ snapshots' = Append(snapshots, hand[t].snapshot)
        /\ hand' = hand /\ pc'[t] = "save_point"
    BY <1>snapshot, <1>pc DEF SaveSnapshot, Goto
  <2>2. hand[t].snapshot.booked \subseteq FilledOrders
    BY <1>snapshot DEF SaveSnapshot, BooksInv
  <2>3. \A i \in DOMAIN snapshots' :
          snapshots'[i] = hand[t].snapshot \/ (i \in DOMAIN snapshots /\ snapshots'[i] = snapshots[i])
    BY <1>order, <2>1 DEF TypeOK
  <2>4. FilledOrders' = FilledOrders /\ FillAtMostOnce' /\ Filled' = Filled
    BY <1>same, <1>lost, <2>1 DEF FilledOrders, FillAtMostOnce, BooksInv
  <2>5. BookedIn(FilledOrders)'
    BY <2>2, <2>3, <2>4 DEF BookedIn, BooksInv
  <2> QED BY <1>order, <1>lost, <2>1, <2>4, <2>5 DEF BooksInv
\* A FILLED mark that the torn rewrite drops is of an order it loses.
<1>torn. CASE TornReplace(t)
  <2>1. PICK i \in DOMAIN orders : hand[t].orders = Marked(i)
    BY <1>torn, <1>order DEF TornReplace, OrderInv
  <2> DEFINE list == hand[t].orders
  <2>2. PICK kept \in 0 .. Len(list) - 1 :
          /\ orders' = SubSeq(list, 1, kept)
          /\ lost' = lost \cup {list[k].decision : k \in (kept + 1)..Len(list)}
    BY <1>torn DEF TornReplace
  <2>3. list \in Seq(Order) /\ DOMAIN list = DOMAIN orders
        /\ \A k \in DOMAIN orders : /\ list[k].decision = orders[k].decision
                                    /\ ~Open(orders[k]) => ~Open(list[k])
    BY <1>order, <2>1, MarkedFacts DEF TypeOK
  <2>4. fills' = fills /\ snapshots' = snapshots /\ pc'[t] = "idle"
    BY <1>torn, <1>pc DEF TornReplace, Finish, Goto
  <2> HIDE DEF list
  <2>5. \A k \in 1..kept : k \in DOMAIN orders' /\ orders'[k] = list[k]
    BY <2>2, <2>3
  <2>6. \A k \in DOMAIN list : k \in 1..kept \/ k \in (kept + 1)..Len(list)
    BY <2>2, <2>3
  <2>7. \A k \in DOMAIN orders : ~Open(orders[k]) => orders[k].decision \in Filled' \cup lost'
    <3> SUFFICES ASSUME NEW k \in DOMAIN orders, ~Open(orders[k])
                 PROVE  orders[k].decision \in Filled' \cup lost'
      OBVIOUS
    <3>1. CASE k \in 1..kept
      BY <2>3, <2>5, <3>1 DEF Filled, Open
    <3>2. CASE k \in (kept + 1)..Len(list)
      BY <2>2, <2>3, <3>2
    <3> QED BY <2>3, <2>6, <3>1, <3>2
  <2>8. Filled \cup lost \subseteq Filled' \cup lost'
    BY <1>lost, <2>7 DEF Filled
  <2> QED BY <1>idle, <2>4, <2>8
<1>stutter. CASE UNCHANGED vars
  <2>1. FilledOrders' = FilledOrders /\ Filled' = Filled
    BY <1>stutter, <1>same DEF vars, FilledOrders
  <2> QED BY <1>stutter, <1>order, <2>1 DEF vars, BooksInv, BookedIn, FillAtMostOnce
<1> QED
  BY <1>decide, <1>point, <1>save, <1>read, <1>valuation, <1>mark, <1>fill, <1>snapshot, <1>torn,
     <1>stutter
  DEF Next, Step

\* No order is filled twice, wherever commands crash between their writes and
\* whatever orders torn rewrites lose (those orders excepted), as long as one
\* terminal runs at a time.
THEOREM BooksSafe ==
  ASSUME NEW t, Procs = {t}
  PROVE  Spec => []FillAtMostOnce
<1>1. BooksInv => FillAtMostOnce
  BY DEF BooksInv
<1>2. BooksInv /\ [Next]_vars => BooksInv'
  BY BooksInvNext
<1> QED BY <1>1, <1>2, BooksInvInit, PTL DEF Spec

\* No portfolio has applied what is not on file as the fill of an order marked
\* FILLED, under the same crashes and torn rewrites: the trail of a position can
\* only be cut short, never have a gap.
THEOREM BooksTrailAlways ==
  ASSUME NEW t, Procs = {t}
  PROVE  Spec => []BooksTrail
<1>1. BooksInv => BooksTrail
  BY DEF BooksInv, BooksTrail, BookedIn
<1>2. BooksInv /\ [Next]_vars => BooksInv'
  BY BooksInvNext
<1> QED BY <1>1, <1>2, BooksInvInit, PTL DEF Spec

-----------------------------------------------------------------------------
(* One terminal, no torn rewrite: an order's line is only ever marked.     *)

LEMMA OrdersKeptStep ==
  ASSUME NEW t, Procs = {t}, "torn_write" \notin Faults, OrderInv, [Next]_vars
  PROVE  \A i \in DOMAIN orders :
           /\ i \in DOMAIN orders'
           /\ orders'[i] \in {orders[i], [orders[i] EXCEPT !.status = "FILLED"]}
<1>type. orders \in Seq(Order)
  BY DEF OrderInv, TypeInv, TypeOK
<1>save. CASE AppendOrder(t)
  <2>1. orders' = Append(orders, NewOrder(hand[t].order))
    BY <1>save DEF AppendOrder
  <2> QED BY <1>type, <2>1
<1>mark. CASE MarkFilled(t)
  <2>1. PICK i \in DOMAIN orders : orders' = [orders EXCEPT ![i].status = "FILLED"]
    BY <1>mark DEF OrderInv, MarkFilled, Marked
  <2> QED BY <1>type, <2>1
<1>other. CASE UNCHANGED orders
  BY <1>other
<1> QED
  BY <1>save, <1>mark, <1>other
  DEF Next, Step, Decide, DecideFailClosed, RecordControl, CheckOrder, SeekOrder, ReadFill, SkipFill, SaveFill,
      SaveSnapshot, SavePoint, ReadMark, Crash, TornReplace, vars

\* Rewriting the order file from a list read earlier loses no order and changes
\* none but from CREATED to FILLED, wherever commands crash, as long as one
\* terminal runs at a time and no rewrite is torn.
THEOREM OrdersKeptAlways ==
  ASSUME NEW t, Procs = {t}, "torn_write" \notin Faults
  PROVE  Spec => OrdersKept
<1>1. OrderInv /\ [Next]_vars =>
        [\A i \in DOMAIN orders :
           /\ i \in DOMAIN orders'
           /\ orders'[i] \in {orders[i], [orders[i] EXCEPT !.status = "FILLED"]}]_vars
  BY OrdersKeptStep
<1>2. OrderInv /\ [Next]_vars => OrderInv'
  BY OrderInvNext
<1> QED BY <1>1, <1>2, OrderInvInit, PTL DEF Spec, OrdersKept

-----------------------------------------------------------------------------
(* One terminal, no fault: the books balance between commands.             *)

CurveFollows(points) == points = snapshots \/ (snapshots # <<>> /\ points = Tail(snapshots))
Booked == Latest(snapshots).booked
\* What is still to be written of the command under way is what is missing.
BalanceInv ==
  /\ OrderInv
  /\ \A p \in Procs :
       /\ pc[p] # "save_point" => CurveFollows(curve)
       /\ pc[p] \in {"idle", "mark_filled"} \cup Ordering \cup BrokerSteps =>
            Filled = FilledOrders /\ Booked = FilledOrders
       /\ pc[p] = "mark_filled" => hand[p].snapshot.booked = FilledOrders \cup {hand[p].order}
       /\ pc[p] = "save_fill" =>
            /\ Filled = FilledOrders \cup {hand[p].order}
            /\ hand[p].snapshot.booked = FilledOrders \cup {hand[p].order}
       /\ pc[p] = "save_snapshot" => Filled = FilledOrders /\ hand[p].snapshot.booked = FilledOrders
       /\ pc[p] = "save_point" =>
            /\ Filled = FilledOrders /\ Booked = FilledOrders
            /\ CurveFollows(Append(curve, hand[p].snapshot))

LEMMA BalanceInit == Init => BalanceInv
<1> SUFFICES ASSUME Init PROVE BalanceInv
  OBVIOUS
<1>1. fills = {} /\ snapshots = <<>> /\ curve = <<>> /\ DOMAIN orders = {}
      /\ \A p \in Procs : pc[p] = "idle"
  BY DEF Init
<1>2. Filled = {} /\ FilledOrders = {} /\ Booked = {} /\ CurveFollows(curve)
  BY <1>1 DEF Filled, FilledOrders, Booked, Latest, EmptyPortfolio, CurveFollows
<1> QED BY <1>1, <1>2, OrderInvInit DEF BalanceInv

\* Making up the first portfolio applies nothing.
LEMMA MadeUp ==
  ASSUME snapshots \in Seq(Snapshot), CurveFollows(curve), curve' = curve,
         snapshots' = LatestOrEmpty(snapshots)
  PROVE  CurveFollows(curve)' /\ Booked' = Booked
<1>1. CASE snapshots = <<>>
  <2>1. snapshots' = <<EmptyPortfolio>> /\ curve' = <<>>
    BY <1>1 DEF LatestOrEmpty, CurveFollows
  <2>2. Tail(snapshots') = <<>> /\ Len(snapshots') = 1 /\ snapshots'[1] = EmptyPortfolio
        /\ snapshots' # <<>>
    BY <2>1
  <2> QED BY <1>1, <2>1, <2>2 DEF CurveFollows, Booked, Latest, Last
<1>2. CASE snapshots # <<>>
  BY <1>2 DEF LatestOrEmpty, CurveFollows, Booked, Latest
<1> QED BY <1>1, <1>2

LEMMA BalanceNext ==
  ASSUME NEW t, Procs = {t}, Faults = {}
  PROVE  BalanceInv /\ [Next]_vars => BalanceInv'
<1> SUFFICES ASSUME BalanceInv, [Next]_vars PROVE BalanceInv'
  OBVIOUS
<1>order. OrderInv /\ OrderInv' /\ TypeOK /\ TypeOK'
  BY OrderInvNext DEF BalanceInv, OrderInv, TypeInv
<1>pc. /\ pc \in [{t} -> Steps] /\ pc' \in [{t} -> Steps]
       /\ hand \in [{t} -> Hand] /\ hand' \in [{t} -> Hand]
  BY <1>order DEF TypeOK
<1>same. ASSUME orders' = orders PROVE Filled' = Filled
  BY <1>same DEF Filled, Open
<1>fills. ASSUME fills' = fills PROVE FilledOrders' = FilledOrders
  BY <1>fills DEF FilledOrders
<1>snaps. ASSUME snapshots' = snapshots PROVE Booked' = Booked /\ \A c : CurveFollows(c)' <=> CurveFollows(c)
  BY <1>snaps DEF Booked, Latest, CurveFollows
\* Commands between which and the next nothing is left to write.
<1>idle. ASSUME pc[t] \in {"idle"} \cup Ordering, pc'[t] \in {"idle"} \cup Ordering,
                Filled' = Filled, fills' = fills, curve' = curve,
                snapshots' \in {snapshots, LatestOrEmpty(snapshots)}
         PROVE  BalanceInv'
  <2>1. CurveFollows(curve) /\ Filled = FilledOrders /\ Booked = FilledOrders
    BY <1>idle DEF BalanceInv, Ordering
  <2>2. CurveFollows(curve)' /\ Booked' = Booked
    BY <1>idle, <1>order, <1>snaps, <2>1, MadeUp DEF TypeOK
  <2> QED BY <1>idle, <1>order, <1>fills, <2>1, <2>2 DEF BalanceInv, Ordering
<1>quiet. CASE \/ Decide(t) \/ DecideFailClosed(t) \/ RecordControl(t)
               \/ CheckOrder(t) \/ SeekOrder(t) \/ SkipFill(t)
  <2>1. /\ pc[t] \in {"idle"} \cup Ordering /\ pc'[t] \in {"idle"} \cup Ordering
        /\ orders' = orders /\ fills' = fills /\ curve' = curve
        /\ snapshots' \in {snapshots, LatestOrEmpty(snapshots)}
    BY <1>quiet, <1>pc DEF Decide, DecideFailClosed, RecordControl, CheckOrder, SeekOrder, SkipFill,
       Finish, Goto, Idle, Ordering
  <2> QED BY <1>idle, <1>same, <2>1
<1>save. CASE AppendOrder(t)
  <2>1. /\ pc[t] \in Ordering /\ pc'[t] = "idle"
        /\ fills' = fills /\ curve' = curve /\ snapshots' = snapshots
    BY <1>save, <1>pc DEF AppendOrder, Finish, Goto, Ordering
  <2>2. Filled' = Filled
    <3> DEFINE o == NewOrder(hand[t].order)
               n == Len(orders) + 1
    <3>1. o \in Order /\ Open(o) /\ orders' = Append(orders, o)
      BY <1>save, <1>order, <2>1, NewOrderType
      DEF AppendOrder, OrderInv, TypeInv, TypeOK, NewOrder, Open
    <3> HIDE DEF o
    <3>2. DOMAIN orders' = (DOMAIN orders) \cup {n} /\ orders'[n] = o /\ n \notin DOMAIN orders
          /\ \A k \in DOMAIN orders : orders'[k] = orders[k]
      BY <1>order, <3>1 DEF TypeOK
    <3> HIDE DEF n
    <3>3. \A k \in DOMAIN orders : Open(orders'[k]) <=> Open(orders[k])
      BY <3>2 DEF Open
    <3> QED BY <3>1, <3>2, <3>3 DEF Filled, Open
  <2> QED BY <1>idle, <2>1, <2>2
<1>read. CASE ReadFill(t)
  <2>1. PICK i \in DOMAIN orders : \E quote \in Quotes :
                                     hand' = [hand EXCEPT ![t] = FillInHand(i, quote)]
    BY <1>read DEF ReadFill
  <2>2. /\ hand'[t].snapshot.booked = Booked \cup {orders[i].decision}
        /\ hand'[t].order = orders[i].decision
    BY <1>pc, <2>1 DEF FillInHand, Booked
  <2>3. /\ orders' = orders /\ fills' = fills /\ snapshots' = LatestOrEmpty(snapshots)
        /\ pc'[t] = "mark_filled" /\ pc[t] = "idle" /\ curve' = curve
    BY <1>read, <1>pc DEF ReadFill, Goto, Idle
  <2>4. CurveFollows(curve) /\ Filled = FilledOrders /\ Booked = FilledOrders
    BY <2>3 DEF BalanceInv
  <2>5. CurveFollows(curve)' /\ Booked' = Booked
    BY <1>order, <2>3, <2>4, MadeUp DEF TypeOK
  <2> QED BY <1>order, <1>same, <1>fills, <2>2, <2>3, <2>4, <2>5 DEF BalanceInv
<1>valuation. CASE ReadMark(t)
  <2>1. PICK s \in Symbols : \E worth \in Worths(s) :
          hand' = [hand EXCEPT ![t].snapshot = [Latest(snapshots) EXCEPT !.pos[s] = worth]]
    BY <1>valuation DEF ReadMark
  <2>2. hand[t] \in Hand /\ Latest(snapshots) \in Snapshot
    BY <1>pc, <1>order, LatestType DEF TypeOK
  <2>3. hand'[t].snapshot.booked = Booked
    BY <1>pc, <2>1, <2>2 DEF Hand, Snapshot, Booked
  <2>4. /\ orders' = orders /\ fills' = fills /\ snapshots' = LatestOrEmpty(snapshots)
        /\ pc'[t] = "save_snapshot" /\ pc[t] = "idle" /\ curve' = curve
    BY <1>valuation, <1>pc DEF ReadMark, Goto, Idle
  <2>5. CurveFollows(curve) /\ Filled = FilledOrders /\ Booked = FilledOrders
    BY <2>4 DEF BalanceInv
  <2>6. CurveFollows(curve)'
    BY <1>order, <2>4, <2>5, MadeUp DEF TypeOK
  <2> QED BY <1>order, <1>same, <1>fills, <2>3, <2>4, <2>5, <2>6
     DEF BalanceInv, Ordering, BrokerSteps, BrokerOrderSteps, ReconcileSteps, GateSteps
<1>mark. CASE MarkFilled(t)
  <2>1. PICK i \in DOMAIN orders : hand[t].order = orders[i].decision /\ hand[t].orders = Marked(i)
    BY <1>mark DEF MarkFilled, BalanceInv, OrderInv
  <2>2. /\ orders' = Marked(i) /\ fills' = fills /\ snapshots' = snapshots /\ curve' = curve
        /\ hand' = hand /\ pc'[t] = "save_fill" /\ pc[t] = "mark_filled"
    BY <1>mark, <1>pc, <2>1 DEF MarkFilled, Goto
  <2>3. Filled' = Filled \cup {hand[t].order}
    BY <1>order, <2>1, <2>2, MarkedFilled DEF TypeOK
  <2> QED BY <1>order, <1>fills, <1>snaps, <2>2, <2>3
     DEF BalanceInv, Ordering, BrokerSteps, BrokerOrderSteps, ReconcileSteps, GateSteps
<1>fill. CASE SaveFill(t)
  <2> DEFINE f == [order |-> hand[t].order, quote |-> hand[t].quote]
  <2>1. /\ orders' = orders /\ fills' = fills \cup {f} /\ snapshots' = snapshots /\ curve' = curve
        /\ hand' = hand /\ pc'[t] = "save_snapshot" /\ pc[t] = "save_fill"
    BY <1>fill, <1>pc DEF SaveFill, Goto
  <2>2. f.order = hand[t].order
    OBVIOUS
  <2> HIDE DEF f
  <2>3. FilledOrders' = FilledOrders \cup {hand[t].order}
    BY <2>1, <2>2 DEF FilledOrders
  <2> QED BY <1>order, <1>same, <1>snaps, <2>1, <2>3
     DEF BalanceInv, Ordering, BrokerSteps, BrokerOrderSteps, ReconcileSteps, GateSteps
<1>snapshot. CASE SaveSnapshot(t)
  <2> DEFINE s == hand[t].snapshot
  <2>1. /\ orders' = orders /\ fills' = fills /\ snapshots' = Append(snapshots, s) /\ curve' = curve
        /\ hand' = hand /\ pc'[t] = "save_point" /\ pc[t] = "save_snapshot"
    BY <1>snapshot, <1>pc DEF SaveSnapshot, Goto
  <2>2. s \in Snapshot /\ snapshots \in Seq(Snapshot)
    BY <1>pc, <1>order DEF Hand, TypeOK
  <2>3. CurveFollows(curve) /\ s.booked = FilledOrders /\ Filled = FilledOrders
    BY <2>1 DEF BalanceInv
  <2>8. s' = s /\ hand'[t].snapshot = s
    BY <2>1
  <2> HIDE DEF s
  <2>4. snapshots' # <<>> /\ Last(snapshots') = s
    BY <2>1, <2>2 DEF Last
  <2>5. Booked' = FilledOrders
    BY <2>3, <2>4 DEF Booked, Latest
  <2>6. snapshots # <<>> => Tail(snapshots') = Append(Tail(snapshots), s)
    BY <2>1, <2>2
  <2>7. CurveFollows(Append(curve, s))'
    BY <2>1, <2>3, <2>4, <2>6, <2>8 DEF CurveFollows
  <2> QED BY <1>order, <1>same, <1>fills, <2>1, <2>3, <2>5, <2>7, <2>8 DEF BalanceInv
<1>point. CASE SavePoint(t)
  <2>1. /\ orders' = orders /\ fills' = fills /\ snapshots' = snapshots
        /\ curve' = Append(curve, hand[t].snapshot) /\ pc'[t] = "idle" /\ pc[t] = "save_point"
    BY <1>point, <1>pc DEF SavePoint, Finish, Goto
  <2>2. CurveFollows(Append(curve, hand[t].snapshot))
    BY <2>1 DEF BalanceInv
  <2>3. CurveFollows(curve)'
    BY <1>snaps, <2>1, <2>2
  <2> QED BY <1>order, <1>same, <1>fills, <1>snaps, <2>1, <2>3 DEF BalanceInv
<1>stutter. CASE UNCHANGED vars
  <2>1. UNCHANGED <<orders, fills, snapshots, curve, pc, hand>>
    BY <1>stutter DEF vars
  <2> QED BY <1>order, <1>same, <1>fills, <1>snaps, <2>1 DEF BalanceInv
<1> QED
  BY <1>quiet, <1>save, <1>read, <1>valuation, <1>mark, <1>fill, <1>snapshot, <1>point, <1>stutter
  DEF Next, Step, Crash, TornReplace

\* Without faults, and with one terminal, the four files agree between commands.
THEOREM BooksBalanceAlways ==
  ASSUME NEW t, Procs = {t}, Faults = {}
  PROVE  Spec => []BooksBalance
<1>1. BalanceInv => BooksBalance
  BY DEF BalanceInv, BooksBalance, Idle, CurveFollows, Booked
<1>2. BalanceInv /\ [Next]_vars => BalanceInv'
  BY BalanceNext
<1> QED BY <1>1, <1>2, BalanceInit, PTL DEF Spec

-----------------------------------------------------------------------------
(* The operator's controls: the order of the events.                       *)

LEMMA BeforeFacts ==
  ASSUME NEW events \in Seq(ControlEvent(Times))
  PROVE  /\ \A i, j \in DOMAIN events : i = j \/ Before(events, i, j) \/ Before(events, j, i)
         /\ \A i, j \in DOMAIN events : ~(Before(events, i, j) /\ Before(events, j, i))
         /\ \A i \in DOMAIN events : ~Before(events, i, i)
         /\ \A i, j, k \in DOMAIN events :
              Before(events, i, j) /\ Before(events, j, k) => Before(events, i, k)
<1>1. ASSUME NEW i \in DOMAIN events PROVE i \in Nat /\ events[i].at \in Nat
  <2>1. events[i] \in ControlEvent(Times) /\ i \in Nat
    OBVIOUS
  <2>2. events[i].at \in Times
    BY <2>1 DEF ControlEvent
  <2> QED BY <2>1, <2>2, TimesAssumption
<1>2. ASSUME NEW i \in DOMAIN events, NEW j \in DOMAIN events
      PROVE  /\ i = j \/ Before(events, i, j) \/ Before(events, j, i)
             /\ ~(Before(events, i, j) /\ Before(events, j, i))
             /\ ~Before(events, i, i)
  BY <1>1 DEF Before
<1>3. ASSUME NEW i \in DOMAIN events, NEW j \in DOMAIN events, NEW k \in DOMAIN events,
             Before(events, i, j), Before(events, j, k)
      PROVE  Before(events, i, k)
  BY <1>1, <1>3 DEF Before
<1> QED BY <1>2, <1>3

LEMMA NewestFacts ==
  ASSUME NEW events \in Seq(ControlEvent(Times)), NEW T \in SUBSET DOMAIN events, T # {}
  PROVE  /\ Newest(events, T) \in T
         /\ \A j \in T : j = Newest(events, T) \/ Before(events, j, Newest(events, T))
<1> DEFINE R == {p \in T \X T : Before(events, p[1], p[2])}
<1>1. \A i, j \in T : <<i, j>> \in R <=> Before(events, i, j)
  OBVIOUS
<1>2. IsFiniteSet(T)
  <2>1. DOMAIN events = 1..Len(events) /\ Len(events) \in Nat
    OBVIOUS
  <2>2. IsFiniteSet(DOMAIN events)
    BY <2>1, FS_Interval
  <2> QED BY <2>2, FS_Subset
<1>3. \A i, j \in T : i = j \/ <<i, j>> \in R \/ <<j, i>> \in R
  BY <1>1, BeforeFacts
<1>4. \A i, j, k \in T : <<i, j>> \in R /\ <<j, k>> \in R => <<i, k>> \in R
  <2> SUFFICES ASSUME NEW i \in T, NEW j \in T, NEW k \in T, <<i, j>> \in R, <<j, k>> \in R
               PROVE  <<i, k>> \in R
    OBVIOUS
  <2>1. i \in DOMAIN events /\ j \in DOMAIN events /\ k \in DOMAIN events
    OBVIOUS
  <2>2. Before(events, i, j) /\ Before(events, j, k)
    BY <1>1
  <2>3. Before(events, i, k)
    BY <2>1, <2>2, BeforeFacts
  <2> QED BY <1>1, <2>3
<1> HIDE DEF R
<1>5. \E i \in T : \A j \in T : j = i \/ <<j, i>> \in R
  BY <1>2, <1>3, <1>4, LastElement, Zenon
<1>6. \E i \in T : \A j \in T : j = i \/ Before(events, j, i)
  BY <1>1, <1>5
<1> QED BY <1>6 DEF Newest

\* The newest event of a part is the newest of all if it is in it.
LEMMA NewestOfPart ==
  ASSUME NEW events \in Seq(ControlEvent(Times)), NEW T \in SUBSET DOMAIN events, NEW U \in SUBSET T,
         Newest(events, T) \in U
  PROVE  Newest(events, U) = Newest(events, T)
<1>1. /\ \A j \in T : j = Newest(events, T) \/ Before(events, j, Newest(events, T))
      /\ Newest(events, U) \in U
      /\ \A j \in U : j = Newest(events, U) \/ Before(events, j, Newest(events, U))
  BY NewestFacts
<1>2. Newest(events, U) \in DOMAIN events /\ Newest(events, T) \in DOMAIN events
  BY <1>1
<1> QED BY <1>1, <1>2, BeforeFacts

StateStep(events, g, T) ==
  IF T = {} THEN InitialState
  ELSE Apply(g[T \ {Newest(events, T)}], events[Newest(events, T)])
Folds(events, T, g) == g = [U \in SUBSET T |-> StateStep(events, g, U)]

\* The recursion by which the state is folded from the events has a solution.
LEMMA FoldExists ==
  ASSUME NEW events \in Seq(ControlEvent(Times)), NEW S \in SUBSET DOMAIN events
  PROVE  \E g : Folds(events, S, g)
<1> DEFINE Bad == {T \in SUBSET S : ~\E g : Folds(events, T, g)}
<1>1. ASSUME NEW T \in Bad, \A U \in Bad : ~(U \subseteq T /\ U # T) PROVE FALSE
  <2>0. T \in SUBSET S /\ ~\E g : Folds(events, T, g)
    BY <1>1
  <2>1. CASE T = {}
    <3> DEFINE g == [U \in SUBSET T |-> InitialState]
    <3>1. Folds(events, T, g)
      BY <2>1 DEF Folds, StateStep
    <3> QED BY <2>0, <3>1
  <2>2. CASE T # {}
    <3> DEFINE x == Newest(events, T)
    <3>1. x \in T
      BY <2>0, <2>2, NewestFacts
    <3>2. \A U \in SUBSET T : x \in U => Newest(events, U) = x
      BY <2>0, NewestOfPart
    <3> HIDE DEF x
    <3>3. PICK h : Folds(events, T \ {x}, h)
      <4>1. T \ {x} \in SUBSET S /\ T \ {x} \subseteq T /\ T \ {x} # T
        BY <2>0, <3>1
      <4>2. T \ {x} \notin Bad
        BY <1>1, <4>1
      <4> QED BY <4>1, <4>2
    <3> DEFINE g == [U \in SUBSET T |-> IF x \in U THEN Apply(h[U \ {x}], events[x]) ELSE h[U]]
    <3>4. ASSUME NEW U \in SUBSET T PROVE g[U] = StateStep(events, g, U)
      <4>1. CASE x \in U
        <5>1. U \ {x} \in SUBSET T /\ g[U \ {x}] = h[U \ {x}]
          OBVIOUS
        <5> QED BY <3>2, <4>1, <5>1 DEF StateStep
      <4>2. CASE x \notin U
        <5>1. U \in SUBSET (T \ {x}) /\ g[U] = h[U]
          BY <4>2
        <5>2. h[U] = StateStep(events, h, U)
          BY <3>3, <5>1 DEF Folds
        <5>3. CASE U = {}
          BY <5>1, <5>2, <5>3 DEF StateStep
        <5>4. CASE U # {}
          <6> DEFINE y == Newest(events, U)
          <6>1. U \ {y} \in SUBSET T /\ x \notin U \ {y}
            BY <4>2
          <6> HIDE DEF y
          <6>2. g[U \ {y}] = h[U \ {y}]
            BY <6>1
          <6> QED BY <5>1, <5>2, <5>4, <6>2 DEF StateStep, y
        <5> QED BY <5>3, <5>4
      <4> QED BY <4>1, <4>2
    <3>5. Folds(events, T, g)
      BY <3>4 DEF Folds
    <3> QED BY <2>0, <3>5
  <2> QED BY <2>1, <2>2
<1>2. Bad \in SUBSET (SUBSET S)
  OBVIOUS
<1>3. IsFiniteSet(S)
  <2>1. DOMAIN events = 1..Len(events) /\ Len(events) \in Nat
    OBVIOUS
  <2>2. IsFiniteSet(DOMAIN events)
    BY <2>1, FS_Interval
  <2> QED BY <2>2, FS_Subset
<1>4. Bad = {}
  <2> HIDE DEF Bad
  <2> QED BY <1>1, <1>2, <1>3, SmallestSubset
<1>5. S \in SUBSET S /\ S \notin Bad
  BY <1>4
<1> QED BY <1>5

\* CurrentState is the value of such a function at the events in scope.
LEMMA CurrentStateIs ==
  ASSUME NEW events \in Seq(ControlEvent(Times)), NEW s
  PROVE  \E g : Folds(events, InScope(events, s), g) /\ CurrentState(events, s) = g[InScope(events, s)]
<1> DEFINE S == InScope(events, s)
           g == CHOOSE g : Folds(events, S, g)
<1>1. S \in SUBSET DOMAIN events
  BY DEF InScope
<1>2. Folds(events, S, g)
  <2> HIDE DEF S
  <2>1. \E h : Folds(events, S, h)
    BY <1>1, FoldExists
  <2> QED BY <2>1
<1>3. CurrentState(events, s) = g[S]
  BY DEF CurrentState, MapThenFoldSet, Folds, StateStep
<1> QED BY <1>2, <1>3

-----------------------------------------------------------------------------
(* What the state means.                                                   *)

ControlState ==
  [paused : BOOLEAN, stop : BOOLEAN, reduce : BOOLEAN, emergency : BOOLEAN, cap : Levels \cup {NoCap}]
Stands(events, T, actions) ==
  \E i \in T : /\ events[i].action \in actions
               /\ \A j \in T : events[j].action = "RESUME" => ~Before(events, i, j)
Caps(events, T) == {i \in T : events[i].action = "SET_MAX_POSITION"}
Means(events, T, state) ==
  /\ state \in ControlState
  /\ state.emergency <=> Stands(events, T, {"EMERGENCY_STOP"})
  /\ state.paused <=> Stands(events, T, {"EMERGENCY_STOP", "PAUSE"})
  /\ state.reduce <=> Stands(events, T, {"EMERGENCY_STOP", "REDUCE_RISK"})
  /\ state.stop <=> Stands(events, T, {"EMERGENCY_STOP", "REDUCE_RISK", "STOP_NEW_ENTRIES"})
  /\ IF Caps(events, T) = {} THEN state.cap = NoCap
     ELSE \E i \in Caps(events, T) : /\ state.cap = events[i].cap
                                     /\ \A j \in Caps(events, T) : ~Before(events, i, j)

\* A control that is not a RESUME stands after the newest event if it did before,
\* or is that event; a RESUME leaves none standing.
LEMMA StandsStep ==
  ASSUME NEW events \in Seq(ControlEvent(Times)), NEW T \in SUBSET DOMAIN events, NEW x \in T,
         \A j \in T : j = x \/ Before(events, j, x),
         NEW actions, "RESUME" \notin actions
  PROVE  /\ events[x].action = "RESUME" => ~Stands(events, T, actions)
         /\ events[x].action # "RESUME" =>
              (Stands(events, T, actions) <=>
                 events[x].action \in actions \/ Stands(events, T \ {x}, actions))
<1>1. \A j \in T : j \in DOMAIN events
  OBVIOUS
<1>2. \A j \in T : ~Before(events, x, j)
  BY <1>1, BeforeFacts
<1> QED BY <1>1, <1>2 DEF Stands

LEMMA CapsStep ==
  ASSUME NEW events \in Seq(ControlEvent(Times)), NEW T \in SUBSET DOMAIN events, NEW x \in T,
         \A j \in T : j = x \/ Before(events, j, x)
  PROVE  /\ events[x].action # "SET_MAX_POSITION" => Caps(events, T) = Caps(events, T \ {x})
         /\ events[x].action = "SET_MAX_POSITION" =>
              x \in Caps(events, T) /\ \A j \in Caps(events, T) : ~Before(events, x, j)
<1>1. \A j \in T : j \in DOMAIN events
  OBVIOUS
<1>2. \A j \in T : ~Before(events, x, j)
  BY <1>1, BeforeFacts
<1> QED BY <1>2 DEF Caps

LEMMA ApplyMeans ==
  ASSUME NEW events \in Seq(ControlEvent(Times)), NEW T \in SUBSET DOMAIN events, NEW x \in T,
         \A j \in T : j = x \/ Before(events, j, x),
         NEW state, Means(events, T \ {x}, state)
  PROVE  Means(events, T, Apply(state, events[x]))
<1> DEFINE e == events[x]
           new == Apply(state, e)
           A == {"EMERGENCY_STOP"}
           B == {"EMERGENCY_STOP", "PAUSE"}
           C == {"EMERGENCY_STOP", "REDUCE_RISK"}
           D == {"EMERGENCY_STOP", "REDUCE_RISK", "STOP_NEW_ENTRIES"}
<1>1. e.action \in ControlActions /\ e.cap \in Levels
  <2>1. e \in ControlEvent(Times)
    OBVIOUS
  <2> HIDE DEF e
  <2> QED BY <2>1 DEF ControlEvent
<1>2. state \in ControlState
  BY DEF Means
<1>3. \A actions \in {A, B, C, D} :
        /\ e.action = "RESUME" => ~Stands(events, T, actions)
        /\ e.action # "RESUME" =>
             (Stands(events, T, actions) <=> e.action \in actions \/ Stands(events, T \ {x}, actions))
  BY StandsStep
<1>4. /\ e.action # "SET_MAX_POSITION" => Caps(events, T) = Caps(events, T \ {x})
      /\ e.action = "SET_MAX_POSITION" =>
           x \in Caps(events, T) /\ \A j \in Caps(events, T) : ~Before(events, x, j)
  BY CapsStep
<1>5. /\ new \in ControlState
      /\ new.emergency <=> (e.action = "EMERGENCY_STOP" \/ (e.action # "RESUME" /\ state.emergency))
      /\ new.paused <=> (e.action \in B \/ (e.action # "RESUME" /\ state.paused))
      /\ new.reduce <=> (e.action \in C \/ (e.action # "RESUME" /\ state.reduce))
      /\ new.stop <=> (e.action \in D \/ (e.action # "RESUME" /\ state.stop))
      /\ new.cap = IF e.action = "SET_MAX_POSITION" THEN e.cap ELSE state.cap
  <2> HIDE DEF e
  <2>1. CASE e.action = "PAUSE"
    BY <1>1, <1>2, <2>1 DEF Apply, ControlState
  <2>2. CASE e.action = "RESUME"
    BY <1>1, <1>2, <2>2 DEF Apply, ControlState, InitialState
  <2>3. CASE e.action = "STOP_NEW_ENTRIES"
    BY <1>1, <1>2, <2>3 DEF Apply, ControlState
  <2>4. CASE e.action = "REDUCE_RISK"
    BY <1>1, <1>2, <2>4 DEF Apply, ControlState
  <2>5. CASE e.action = "EMERGENCY_STOP"
    BY <1>1, <1>2, <2>5 DEF Apply, ControlState
  <2>6. CASE e.action = "SET_MAX_POSITION"
    BY <1>1, <1>2, <2>6 DEF Apply, ControlState
  <2> QED BY <1>1, <2>1, <2>2, <2>3, <2>4, <2>5, <2>6 DEF ControlActions
<1> HIDE DEF new
<1>6. /\ new.emergency <=> Stands(events, T, A)
      /\ new.paused <=> Stands(events, T, B)
      /\ new.reduce <=> Stands(events, T, C)
      /\ new.stop <=> Stands(events, T, D)
  BY <1>3, <1>5 DEF Means
<1>7. IF Caps(events, T) = {} THEN new.cap = NoCap
      ELSE \E i \in Caps(events, T) : /\ new.cap = events[i].cap
                                      /\ \A j \in Caps(events, T) : ~Before(events, i, j)
  <2>1. CASE e.action = "SET_MAX_POSITION"
    BY <1>4, <1>5, <2>1
  <2>2. CASE e.action # "SET_MAX_POSITION"
    BY <1>4, <1>5, <2>2 DEF Means
  <2> QED BY <2>1, <2>2
<1> QED BY <1>5, <1>6, <1>7 DEF Means, new

\* Whatever the events, their order in the file and their timestamps.
LEMMA FoldMeans ==
  ASSUME NEW events \in Seq(ControlEvent(Times)), NEW S \in SUBSET DOMAIN events, NEW g,
         Folds(events, S, g)
  PROVE  Means(events, S, g[S])
<1> DEFINE Bad == {T \in SUBSET S : ~Means(events, T, g[T])}
<1>1. ASSUME NEW T \in Bad, \A U \in Bad : ~(U \subseteq T /\ U # T) PROVE FALSE
  <2>0. T \in SUBSET S /\ ~Means(events, T, g[T]) /\ g[T] = StateStep(events, g, T)
    BY <1>1 DEF Folds
  <2>1. CASE T = {}
    BY <2>0, <2>1, MaxLevelAssumption
    DEF StateStep, Means, Stands, Caps, InitialState, ControlState, NoCap
  <2>2. CASE T # {}
    <3> DEFINE x == Newest(events, T)
    <3>1. x \in T /\ \A j \in T : j = x \/ Before(events, j, x)
      BY <2>0, <2>2, NewestFacts
    <3>2. g[T] = Apply(g[T \ {x}], events[x])
      BY <2>0, <2>2 DEF StateStep
    <3> HIDE DEF x
    <3>3. Means(events, T \ {x}, g[T \ {x}])
      <4>1. T \ {x} \in SUBSET S /\ T \ {x} \subseteq T /\ T \ {x} # T
        BY <2>0, <3>1
      <4>2. T \ {x} \notin Bad
        BY <1>1, <4>1
      <4> QED BY <4>1, <4>2
    <3> QED BY <2>0, <3>1, <3>2, <3>3, ApplyMeans
  <2> QED BY <2>1, <2>2
<1>2. Bad \in SUBSET (SUBSET S)
  OBVIOUS
<1>3. IsFiniteSet(S)
  <2>1. DOMAIN events = 1..Len(events) /\ Len(events) \in Nat
    OBVIOUS
  <2>2. IsFiniteSet(DOMAIN events)
    BY <2>1, FS_Interval
  <2> QED BY <2>2, FS_Subset
<1>4. Bad = {}
  <2> HIDE DEF Bad
  <2> QED BY <1>1, <1>2, <1>3, SmallestSubset
<1> QED BY <1>4

LEMMA CurrentStateMeans ==
  ASSUME NEW events \in Seq(ControlEvent(Times)), NEW s
  PROVE  Means(events, InScope(events, s), CurrentState(events, s))
<1>1. InScope(events, s) \in SUBSET DOMAIN events
  BY DEF InScope
<1> QED BY <1>1, CurrentStateIs, FoldMeans

\* What the folded state says of a symbol is what the operator's events mean,
\* for every file of events in any order of timestamps.
THEOREM ControlMeaningAlways == Spec => []ControlMeaning
<1>1. TypeOK => ControlMeaning
  <2> SUFFICES ASSUME TypeOK, NEW s \in Symbols
               PROVE  LET state == CurrentState(controls, s)
                          caps == {i \in InScope(controls, s) : controls[i].action = "SET_MAX_POSITION"}
                      IN  /\ state.emergency <=> StandingControl(s, {"EMERGENCY_STOP"})
                          /\ state.paused <=> StandingControl(s, {"EMERGENCY_STOP", "PAUSE"})
                          /\ state.reduce <=> StandingControl(s, {"EMERGENCY_STOP", "REDUCE_RISK"})
                          /\ state.stop <=>
                               StandingControl(s, {"EMERGENCY_STOP", "REDUCE_RISK", "STOP_NEW_ENTRIES"})
                          /\ IF caps = {} THEN state.cap = NoCap
                             ELSE \E i \in caps : /\ state.cap = controls[i].cap
                                                  /\ \A j \in caps : ~Before(controls, i, j)
    BY DEF ControlMeaning
  <2>1. Means(controls, InScope(controls, s), CurrentState(controls, s))
    BY CurrentStateMeans DEF TypeOK
  <2>2. \A actions : StandingControl(s, actions) <=> Stands(controls, InScope(controls, s), actions)
    BY DEF StandingControl, Stands
  <2> QED BY <2>1, <2>2 DEF Means, Caps
<1> QED BY <1>1, TypeCorrect, PTL

-----------------------------------------------------------------------------
(* One terminal: no order against a control that stands.                   *)

\* The controls that an order under way was checked against are still those on file.
CheckedInv ==
  /\ OrderInv
  /\ \A p \in Procs : pc[p] \in Ordering =>
       LET d == decisions[hand[p].order] IN
       ~Blocked(CurrentState(controls, d.sym), d.action, d.target)

LEMMA CheckedNext ==
  ASSUME NEW t, Procs = {t}
  PROVE  CheckedInv /\ [Next]_vars => CheckedInv'
<1> SUFFICES ASSUME CheckedInv, [Next]_vars PROVE CheckedInv'
  OBVIOUS
<1>order. OrderInv /\ OrderInv'
  BY OrderInvNext DEF CheckedInv
<1>pc. pc \in [{t} -> Steps] /\ hand \in [{t} -> Hand]
  BY <1>order DEF OrderInv, TypeInv, TypeOK
<1>other. ASSUME pc'[t] \notin Ordering PROVE CheckedInv'
  BY <1>order, <1>other DEF CheckedInv
<1>check. CASE CheckOrder(t)
  <2>1. PICK id \in DOMAIN decisions :
          /\ ~Blocked(CurrentState(controls, decisions[id].sym), decisions[id].action,
                      decisions[id].target)
          /\ hand' = [hand EXCEPT ![t].order = id]
    BY <1>check DEF CheckOrder
  <2>2. hand'[t].order = id
    BY <1>pc, <2>1 DEF Hand
  <2>3. controls' = controls /\ decisions' = decisions
    BY <1>check DEF CheckOrder
  <2>4. ~Blocked(CurrentState(controls', decisions'[id].sym), decisions'[id].action,
                 decisions'[id].target)
    BY <2>1, <2>3
  <2> QED BY <1>order, <2>2, <2>3, <2>4 DEF CheckedInv
\* The checked decision stays in hand, and nobody else runs.
<1>stay. ASSUME pc[t] \in Ordering, UNCHANGED <<controls, decisions, hand>> PROVE CheckedInv'
  <2> DEFINE Free(events, d) == ~Blocked(CurrentState(events, d.sym), d.action, d.target)
  <2>1. Free(controls, decisions[hand[t].order])
    BY <1>stay DEF CheckedInv
  <2>2. Free(controls', decisions'[hand'[t].order])
    <3> HIDE DEF Free
    <3> QED BY <1>stay, <2>1
  <2> QED BY <1>order, <2>2 DEF CheckedInv
<1>stutter. CASE UNCHANGED vars
  <2>1. CASE pc[t] \in Ordering
    BY <1>stutter, <1>stay, <2>1 DEF vars
  <2>2. CASE pc[t] \notin Ordering
    BY <1>stutter, <1>other, <2>2 DEF vars
  <2> QED BY <2>1, <2>2
<1>seek. CASE SeekOrder(t)
  <2>1. pc[t] \in Ordering /\ UNCHANGED <<controls, decisions>>
    BY <1>seek DEF SeekOrder, Ordering
  <2>2. pc'[t] \notin Ordering \/ UNCHANGED hand
    BY <1>seek, <1>pc DEF SeekOrder, Finish, Goto, Ordering
  <2> QED BY <1>stay, <1>other, <2>1, <2>2
<1>rest. CASE Next /\ ~CheckOrder(t) /\ ~SeekOrder(t)
  <2>1. pc'[t] \notin Ordering
    BY <1>rest, <1>pc DEF Next, Step, Decide, DecideFailClosed, RecordControl, AppendOrder, ReadFill,
       SkipFill, MarkFilled, SaveFill, SaveSnapshot, SavePoint, ReadMark, Crash, TornReplace, Goto,
       Finish, Idle, Ordering
  <2> QED BY <1>other, <2>1
<1> QED BY <1>check, <1>seek, <1>stutter, <1>rest

\* An order that the check lets pass has no standing control against it.
LEMMA NotBlocked ==
  ASSUME controls \in Seq(ControlEvent(Times)), NEW d \in Decision, NEW order \in Order,
         order.sym = d.sym, order.side = Side(d.action), order.target = d.target,
         ~Blocked(CurrentState(controls, d.sym), d.action, d.target),
         NEW i \in InScope(controls, d.sym)
  PROVE  /\ StandsAgainst(controls[i], order) => Lifted(i, order.sym)
         /\ CapInForce(i, order.sym) /\ order.side = "BUY" => order.target <= controls[i].cap
<1> DEFINE S == InScope(controls, d.sym)
           state == CurrentState(controls, d.sym)
<1>1. Means(controls, S, state)
  BY CurrentStateMeans
<1>2. /\ ~state.emergency /\ ~state.paused
      /\ d.action = "BUY" => ~state.stop /\ ~state.reduce
      /\ d.action = "BUY" => state.cap = NoCap \/ ~(d.target > state.cap)
  BY DEF Blocked
<1>3. order.side = "BUY" <=> d.action = "BUY"
  BY DEF Side
<1> HIDE DEF state
<1>4. StandsAgainst(controls[i], order) => Lifted(i, order.sym)
  <2>1. \A actions : i \in S /\ controls[i].action \in actions /\ ~Lifted(i, order.sym)
                     => Stands(controls, S, actions)
    BY DEF Lifted, Stands
  <2>2. CASE controls[i].action \in {"EMERGENCY_STOP", "PAUSE"}
    BY <1>1, <1>2, <2>1, <2>2 DEF Means
  <2>3. CASE controls[i].action \in {"STOP_NEW_ENTRIES", "REDUCE_RISK"} /\ order.side = "BUY"
    BY <1>1, <1>2, <1>3, <2>1, <2>3 DEF Means
  <2> QED BY <2>2, <2>3 DEF StandsAgainst
<1>5. ASSUME CapInForce(i, order.sym), order.side = "BUY" PROVE order.target <= controls[i].cap
  <2>1. i \in Caps(controls, S) /\ \A j \in Caps(controls, S) : ~Before(controls, i, j)
    BY <1>5 DEF CapInForce, Caps
  <2>2. PICK j \in Caps(controls, S) :
          state.cap = controls[j].cap /\ \A k \in Caps(controls, S) : ~Before(controls, j, k)
    BY <1>1, <2>1 DEF Means
  <2>3. i \in DOMAIN controls /\ j \in DOMAIN controls
    BY <2>1, <2>2 DEF Caps, InScope
  <2>4. i = j
    BY <2>1, <2>2, <2>3, BeforeFacts
  <2>5. controls[i] \in ControlEvent(Times)
    BY <2>3
  <2>6. controls[i].cap \in 0..MaxLevel
    BY <2>5 DEF ControlEvent, Levels
  <2>7. d.target \in 0..MaxLevel
    BY DEF Decision, Levels
  <2>8. ~(d.target > controls[i].cap)
    BY <1>2, <1>3, <1>5, <2>2, <2>4, <2>6 DEF NoCap
  <2> QED BY <2>6, <2>7, <2>8, MaxLevelAssumption
<1> QED BY <1>4, <1>5

LEMMA ControlsStopStep ==
  ASSUME NEW t, Procs = {t}, CheckedInv, [Next]_vars,
         NEW k \in DOMAIN orders' \ DOMAIN orders, NEW i \in InScope(controls, orders'[k].sym)
  PROVE  /\ StandsAgainst(controls[i], orders'[k]) => Lifted(i, orders'[k].sym)
         /\ CapInForce(i, orders'[k].sym) /\ orders'[k].side = "BUY"
              => orders'[k].target <= controls[i].cap
<1>type. TypeInv /\ orders \in Seq(Order) /\ controls \in Seq(ControlEvent(Times))
         /\ decisions \in Seq(Decision) /\ hand \in [{t} -> Hand]
  BY DEF CheckedInv, OrderInv, TypeInv, TypeOK
<1>save. CASE AppendOrder(t)
  <2> DEFINE d == decisions[hand[t].order]
             o == NewOrder(hand[t].order)
  <2>1. hand[t].order \in DOMAIN decisions /\ pc[t] \in Ordering
    BY <1>save, <1>type DEF AppendOrder, TypeInv, Ordering
  <2>2. d \in Decision /\ o \in Order
    BY <1>type, <2>1, NewOrderType
  <2>3. ~Blocked(CurrentState(controls, d.sym), d.action, d.target)
    BY <2>1 DEF CheckedInv
  <2>4. o.sym = d.sym /\ o.side = Side(d.action) /\ o.target = d.target
    BY DEF NewOrder
  <2>5. orders' = Append(orders, o)
    BY <1>save DEF AppendOrder
  <2> HIDE DEF o, d
  <2>6. orders'[k] = o
    BY <1>type, <2>2, <2>5
  <2> QED BY <1>type, <2>2, <2>3, <2>4, <2>6, NotBlocked
<1>mark. CASE MarkFilled(t) \/ TornReplace(t)
  <2>1. PICK n \in DOMAIN orders : hand[t].orders = Marked(n)
    BY <1>mark DEF CheckedInv, OrderInv, MarkFilled, TornReplace
  <2>2. hand[t].orders \in Seq(Order) /\ DOMAIN hand[t].orders = DOMAIN orders
    BY <1>type, <2>1, MarkedFacts
  <2>3. DOMAIN orders' \subseteq DOMAIN hand[t].orders
    <3>1. CASE MarkFilled(t)
      BY <3>1 DEF MarkFilled
    <3>2. CASE TornReplace(t)
      BY <2>2, <3>2 DEF TornReplace
    <3> QED BY <1>mark, <3>1, <3>2
  <2> QED BY <2>2, <2>3
<1>other. CASE UNCHANGED orders
  BY <1>other
<1> QED
  BY <1>save, <1>mark, <1>other
  DEF Next, Step, Decide, DecideFailClosed, RecordControl, CheckOrder, SeekOrder, ReadFill, SkipFill, SaveFill,
      SaveSnapshot, SavePoint, ReadMark, Crash, vars

\* No order is ever written against a control that stands or above the cap in
\* force, whatever crashes or torn rewrites happen, as long as one terminal runs
\* at a time.
THEOREM ControlsStopOrdersAlways ==
  ASSUME NEW t, Procs = {t}
  PROVE  Spec => ControlsStopOrders
<1>1. CheckedInv /\ [Next]_vars =>
        [\A k \in DOMAIN orders' \ DOMAIN orders :
           LET order == orders'[k] IN
           \A i \in InScope(controls, order.sym) :
             /\ StandsAgainst(controls[i], order) => Lifted(i, order.sym)
             /\ CapInForce(i, order.sym) /\ order.side = "BUY" => order.target <= controls[i].cap]_vars
  BY ControlsStopStep
<1>2. CheckedInv /\ [Next]_vars => CheckedInv'
  BY CheckedNext
<1>3. Init => CheckedInv
  <2>1. Init => OrderInv /\ \A p \in Procs : pc[p] \notin Ordering
    BY OrderInvInit DEF Init, Ordering
  <2> QED BY <2>1 DEF CheckedInv
<1> QED BY <1>1, <1>2, <1>3, PTL DEF Spec, ControlsStopOrders
=============================================================================
