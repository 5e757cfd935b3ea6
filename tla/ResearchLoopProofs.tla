--------------------------- MODULE ResearchLoopProofs ---------------------------
(***************************************************************************)
(* Theorems about decisions and the evidence they rest on, for any hours,  *)
(* moves, verdicts, losable files and number of incidents.                 *)
(*                                                                         *)
(* Every command but a decision hands its rows to the files at once, whole *)
(* or, if it dies, the first of them.  The rows are legal: what they name  *)
(* is on file or among them (Legal).  Files that are appended to only grow *)
(* so that what is said of them stays true; the four that are written anew *)
(* can be cut, and from then on their references are not vouched for.      *)
(***************************************************************************)
EXTENDS ResearchLoop, FiniteLemmas, SequenceTheorems

\* None is not a number, a kind of artifact, a row, which has a time, or the id of
\* a backtest or a validation.
NoneIsApart ==
  /\ None \notin Nat \cup Kinds
  /\ \A row : row.at \in Nat => row # None
  /\ \A id : id = [context |-> id.context, at |-> id.at] => id # None

Has(files, file, id) == \E r \in files[file] : r.id = id
\* A row with the id is on file, or written with the others.
Found(files, writes, file, id) ==
  Has(files, file, id) \/ \E w \in writes : w[1] = file /\ w[2].id = id
\* What a row of a file that is never cut names is found.
Lasting(files, writes, f, r) ==
  /\ f = "candles" => r.id \in Hours
  /\ f = "runs" =>
       /\ r.id = [context |-> r.id.context, at |-> r.at]
       /\ \A h \in r.hours : Found(files, writes, "candles", h)
  /\ f = "results" =>
       r.id = [context |-> r.id.context, at |-> r.at] /\ Found(files, writes, "runs", r.id)
  /\ f = "walks" =>
       r.id = [context |-> r.id.context, at |-> r.at] /\ Found(files, writes, "results", r.inner)
  /\ f = "edges" => r.id \in Nat
  /\ f = "decisions" =>
       /\ r = [id |-> r.id]
       /\ r.id.bt = None \/ Found(files, writes, "results", r.id.bt)
       /\ r.id.wf = None \/ Found(files, writes, "walks", r.id.wf)
\* What a row names in a file that may be cut is found.
Passing(files, writes, f, r) ==
  /\ f = "events" => Found(files, writes, "documents", r.id[1])
  /\ f = "reliability" => Found(files, writes, "events", r.id)
  /\ f = "reactions" => Found(files, writes, "events", r.id[1])
  /\ f = "edges" =>
       /\ \A id \in r.inputs.events : Found(files, writes, "events", id)
       /\ \A id \in r.inputs.checks : Found(files, writes, "reactions", id)
       /\ \A h \in r.inputs.hours : Found(files, writes, "candles", h)
  /\ f = "decisions" => r.id.ee = None \/ Found(files, writes, "edges", r.id.ee)

StateOK ==
  /\ clock \in Nat /\ torn \in BOOLEAN
  /\ lost \in LosableKinds \cup {None} /\ run \in Runs \cup {None}
FilesOK ==
  /\ DOMAIN store = Files
  /\ \A f \in Files : IsFiniteSet(store[f])
  /\ \A f \in Files : \A q, r \in store[f] : q.id = r.id => q = r
  /\ \A f \in Files \ {"decisions"} : \A r \in store[f] : r.at \in Nat /\ r.at <= clock
LinksOK ==
  \A f \in Files : \A r \in store[f] :
    Lasting(store, {}, f, r) /\ (~torn => Passing(store, {}, f, r))
\* A candle that a validation has not seen came later, or with an old import time.
WalksOK ==
  \A w \in store.walks : \A c \in store.candles : c.id \in w.hours \/ c.at = 0 \/ c.at > w.at
\* Of two backtests made for plans, the later saw what the earlier did.
RunsOK ==
  \A b, d \in store.runs :
    b.id.context = "blocker" /\ d.id.context = "blocker" /\ b.at <= d.at => b.hours \subseteq d.hours
Inv == StateOK /\ FilesOK /\ LinksOK /\ WalksOK /\ RunsOK


-----------------------------------------------------------------------------
(* Legal writes keep the invariant                                         *)

Legal(writes, time) ==
  /\ \A w \in writes : w = <<w[1], w[2]>> /\ w[1] \in Files \ {"decisions"}
  /\ \A w \in writes : w[2].at \in Nat /\ w[2].at <= time
  /\ IsFiniteSet(writes)
  /\ \A v, w \in writes : v[1] = w[1] /\ v[2].id = w[2].id => v = w
  /\ \A w \in writes :
       Lasting(store, writes, w[1], w[2]) /\ (~torn => Passing(store, writes, w[1], w[2]))
  /\ \A w \in writes : w[1] = "candles" => w[2].at = 0 \/ w[2].at > clock
  /\ \A w \in writes : w[1] = "walks" =>
       w[2].hours = CandleHours /\ \A v \in writes : v[1] # "candles"
  /\ \A w \in writes : w[1] = "runs" /\ w[2].id.context = "blocker" =>
       w[2].hours = CandleHours /\ w[2].at >= clock

LEMMA AppendedFacts ==
  ASSUME NEW W, \A w \in W : w = <<w[1], w[2]>>
  PROVE  /\ DOMAIN Appended(W) = Files
         /\ \A f \in Files : \A r \in store[f] : r \in Appended(W)[f]
         /\ \A f \in Files : \A r \in Appended(W)[f] :
              r \in store[f] \/ (<<f, r>> \in W /\ ~OnFile(f, r.id))
         /\ \A f \in Files : \A id : Found(store, W, f, id) => Has(Appended(W), f, id)
<1>1. \A f \in Files : Appended(W)[f] = store[f] \cup
        {w[2] : w \in {x \in W : x[1] = f /\ ~OnFile(f, x[2].id)}}
  BY DEF Appended
<1>2. DOMAIN Appended(W) = Files
  BY DEF Appended
<1>3. ASSUME NEW f \in Files, NEW r \in Appended(W)[f]
      PROVE  r \in store[f] \/ (<<f, r>> \in W /\ ~OnFile(f, r.id))
  BY <1>1, <1>3
<1>4. ASSUME NEW f \in Files, NEW id, Found(store, W, f, id)
      PROVE  Has(Appended(W), f, id)
  <2>1. CASE Has(store, f, id)
    BY <1>1, <2>1 DEF Has
  <2>2. CASE ~Has(store, f, id)
    <3>1. PICK w \in W : w[1] = f /\ w[2].id = id
      BY <1>4, <2>2 DEF Found
    <3>2. ~OnFile(f, w[2].id)
      BY <2>2, <3>1 DEF Has, OnFile
    <3>3. w[2] \in Appended(W)[f]
      BY <1>1, <3>1, <3>2
    <3> QED BY <3>1, <3>3 DEF Has
  <2> QED BY <2>1, <2>2
<1> QED BY <1>1, <1>2, <1>3, <1>4

\* What is found stays found.
LEMMA StaysFound ==
  ASSUME NEW W, NEW files, NEW more, NEW f, NEW r, NEW before,
         \A g \in Files : \A id : Found(files, before, g, id) => Found(more, W, g, id)
  PROVE  /\ Lasting(files, before, f, r) => Lasting(more, W, f, r)
         /\ Passing(files, before, f, r) => Passing(more, W, f, r)
<1>1. Lasting(files, before, f, r) => Lasting(more, W, f, r)
  BY DEF Lasting, Files
<1>2. Passing(files, before, f, r) => Passing(more, W, f, r)
  BY DEF Passing, Files
<1> QED BY <1>1, <1>2

LEMMA AppendKeeps ==
  ASSUME Inv, NEW W, NEW time \in Nat, clock <= time, Legal(W, time), store' = Appended(W),
         clock' = time, torn' = torn, lost' = lost, run' = run
  PROVE  Inv'
<1>1. /\ DOMAIN store' = Files
      /\ \A f \in Files : \A r \in store[f] : r \in store'[f]
      /\ \A f \in Files : \A r \in store'[f] :
           r \in store[f] \/ (<<f, r>> \in W /\ ~OnFile(f, r.id))
      /\ \A f \in Files : \A id : Found(store, W, f, id) => Has(store', f, id)
  BY AppendedFacts DEF Legal
<1>2. StateOK'
  BY DEF Inv, StateOK
<1>3. \A f \in Files : IsFiniteSet(store'[f])
  <2> SUFFICES ASSUME NEW f \in Files PROVE IsFiniteSet(store'[f])
    OBVIOUS
  <2> DEFINE g == [w \in W |-> w[2]]
             T == {g[w] : w \in DOMAIN g}
  <2>1. IsFiniteSet(DOMAIN g)
    BY DEF Legal
  <2>2. IsFiniteSet(T)
    <3> HIDE DEF g
    <3> QED BY <2>1, FiniteImage
  <2>3. store'[f] \subseteq store[f] \cup T
    <3>1. ASSUME NEW r, <<f, r>> \in W PROVE r \in T
      <4>1. g[<<f, r>>] = r /\ <<f, r>> \in DOMAIN g
        BY <3>1
      <4> QED BY <4>1
    <3> HIDE DEF T
    <3> QED BY <1>1, <3>1
  <2>4. IsFiniteSet(store[f])
    BY DEF Inv, FilesOK
  <2> HIDE DEF T
  <2> QED BY <2>2, <2>3, <2>4, FS_Union, FS_Subset
<1>4. \A f \in Files : \A q, r \in store'[f] : q.id = r.id => q = r
  <2> SUFFICES ASSUME NEW f \in Files, NEW q \in store'[f], NEW r \in store'[f], q.id = r.id
               PROVE  q = r
    OBVIOUS
  <2>1. CASE q \in store[f] /\ r \in store[f]
    BY <2>1 DEF Inv, FilesOK
  <2>2. CASE q \in store[f] /\ r \notin store[f]
    BY <1>1, <2>2 DEF OnFile
  <2>3. CASE q \notin store[f] /\ r \in store[f]
    BY <1>1, <2>3 DEF OnFile
  <2>4. CASE q \notin store[f] /\ r \notin store[f]
    <3>1. <<f, q>> \in W /\ <<f, r>> \in W
      BY <1>1, <2>4
    <3>2. <<f, q>> = <<f, r>>
      BY <3>1 DEF Legal
    <3> QED BY <3>2
  <2> QED BY <2>1, <2>2, <2>3, <2>4
<1>5. \A f \in Files \ {"decisions"} : \A r \in store'[f] : r.at \in Nat /\ r.at <= clock'
  <2> SUFFICES ASSUME NEW f \in Files \ {"decisions"}, NEW r \in store'[f]
               PROVE  r.at \in Nat /\ r.at <= time
    OBVIOUS
  <2>1. CASE r \in store[f]
    BY <2>1 DEF Inv, FilesOK, StateOK
  <2>2. CASE <<f, r>> \in W
    BY <2>2 DEF Legal
  <2> QED BY <1>1, <2>1, <2>2
<1>6. FilesOK'
  BY <1>1, <1>3, <1>4, <1>5 DEF FilesOK
<1>7. LinksOK'
  <2>1. \A g \in Files : \A id : Found(store, {}, g, id) => Found(store', {}, g, id)
    BY <1>1 DEF Found, Has
  <2>2. \A g \in Files : \A id : Found(store, W, g, id) => Found(store', {}, g, id)
    BY <1>1 DEF Found
  <2> SUFFICES ASSUME NEW f \in Files, NEW r \in store'[f]
               PROVE  Lasting(store', {}, f, r) /\ (~torn => Passing(store', {}, f, r))
    BY DEF LinksOK
  <2>3. CASE r \in store[f]
    <3>1. Lasting(store, {}, f, r) /\ (~torn => Passing(store, {}, f, r))
      BY <2>3 DEF Inv, LinksOK
    <3> QED BY <2>1, <3>1, StaysFound
  <2>4. CASE <<f, r>> \in W
    <3>1. Lasting(store, W, f, r) /\ (~torn => Passing(store, W, f, r))
      BY <2>4 DEF Legal
    <3> QED BY <2>2, <3>1, StaysFound
  <2> QED BY <1>1, <2>3, <2>4
<1>8. WalksOK'
  <2>0. "walks" \in Files /\ "candles" \in Files /\ "walks" # "decisions"
    BY DEF Files
  <2> SUFFICES ASSUME NEW w \in store'["walks"], NEW c \in store'["candles"]
               PROVE  c.id \in w.hours \/ c.at = 0 \/ c.at > w.at
    BY DEF WalksOK
  <2>1. CASE w \in store["walks"] /\ c \in store["candles"]
    BY <2>1 DEF Inv, WalksOK
  <2>2. CASE w \in store["walks"] /\ <<"candles", c>> \in W
    <3>1. c.at \in Nat /\ (c.at = 0 \/ c.at > clock)
      BY <2>2 DEF Legal
    <3>2. w.at \in Nat /\ w.at <= clock /\ clock \in Nat
      BY <2>0, <2>2 DEF Inv, FilesOK, StateOK
    <3> QED BY <3>1, <3>2
  <2>3. CASE <<"walks", w>> \in W /\ c \in store["candles"]
    <3>1. w.hours = CandleHours
      BY <2>3 DEF Legal
    <3> QED BY <2>3, <3>1 DEF CandleHours
  <2>4. CASE <<"walks", w>> \in W /\ <<"candles", c>> \in W
    BY <2>4 DEF Legal
  <2> QED BY <1>1, <2>0, <2>1, <2>2, <2>3, <2>4
<1>9. RunsOK'
  <2>0. "runs" \in Files /\ "candles" \in Files /\ "runs" # "decisions"
    BY DEF Files
  <2> SUFFICES ASSUME NEW b \in store'["runs"], NEW d \in store'["runs"],
                      b.id.context = "blocker", d.id.context = "blocker", b.at <= d.at
               PROVE  b.hours \subseteq d.hours
    BY DEF RunsOK
  <2>1. CASE b \in store["runs"] /\ d \in store["runs"]
    BY <2>1 DEF Inv, RunsOK
  <2>2. CASE b \in store["runs"] /\ <<"runs", d>> \in W
    <3>1. Lasting(store, {}, "runs", b)
      BY <2>0, <2>2 DEF Inv, LinksOK
    <3>2. b.hours \subseteq CandleHours
      BY <3>1 DEF Lasting, Found, Has, CandleHours
    <3> QED BY <2>2, <3>2 DEF Legal
  <2>3. CASE <<"runs", b>> \in W /\ ~OnFile("runs", b.id) /\ d \in store["runs"]
    <3>1. b.at \in Nat /\ b.at >= clock /\ Lasting(store, W, "runs", b)
      BY <2>3 DEF Legal
    <3>2. d.at \in Nat /\ d.at <= clock /\ clock \in Nat /\ Lasting(store, {}, "runs", d)
      BY <2>0, <2>3 DEF Inv, FilesOK, StateOK, LinksOK
    <3>3. b.at = d.at
      BY <3>1, <3>2
    <3>4. b.id = d.id
      BY <3>1, <3>2, <3>3 DEF Lasting
    <3> QED BY <2>3, <3>4 DEF OnFile
  <2>4. CASE <<"runs", b>> \in W /\ <<"runs", d>> \in W
    BY <2>4 DEF Legal
  <2> QED BY <1>1, <2>0, <2>1, <2>2, <2>3, <2>4
<1> QED BY <1>2, <1>6, <1>7, <1>8, <1>9 DEF Inv


-----------------------------------------------------------------------------
(* What a command reads                                                    *)

\* The latest of some rows of a file, or None when there are none.
LEMMA LatestOf ==
  ASSUME Inv, NoneIsApart, NEW f \in Files \ {"decisions"}, NEW rows \in SUBSET store[f]
  PROVE  /\ Latest(rows) = None <=> rows = {}
         /\ Latest(rows) # None =>
              /\ Latest(rows) \in rows /\ Latest(rows) \in store[f] /\ Latest(rows).at \in Nat
              /\ \A q \in rows : q.at <= Latest(rows).at
<1>1. IsFiniteSet(rows) /\ \A r \in rows : r.at \in Nat
  BY FS_Subset DEF Inv, FilesOK
<1>2. CASE rows = {}
  BY <1>2 DEF Latest
<1>3. CASE rows # {}
  <2> DEFINE time == [r \in rows |-> r.at]
             times == {time[r] : r \in DOMAIN time}
  <2>1. IsFiniteSet(times)
    <3>1. IsFiniteSet(DOMAIN time)
      BY <1>1
    <3> HIDE DEF time
    <3> QED BY <3>1, FiniteImage
  <2>2. times \in SUBSET Int /\ times # {}
    BY <1>1, <1>3
  <2>3. \A r \in rows : r.at \in times
    <3>1. \A r \in rows : r \in DOMAIN time /\ time[r] = r.at
      OBVIOUS
    <3> QED BY <3>1
  <2>4. \A t \in times : \E r \in rows : r.at = t
    OBVIOUS
  <2> HIDE DEF times
  <2>5. PICK t \in times : \A u \in times : t >= u
    BY <2>1, <2>2, Greatest
  <2>6. \E r \in rows : \A q \in rows : q.at <= r.at
    BY <2>3, <2>4, <2>5
  <2>7. Latest(rows) \in rows /\ \A q \in rows : q.at <= Latest(rows).at
    BY <1>3, <2>6 DEF Latest
  <2>8. Latest(rows).at \in Nat
    BY <1>1, <2>7
  <2>9. Latest(rows) # None
    BY <2>8 DEF NoneIsApart
  <2> QED BY <1>3, <2>7, <2>8, <2>9
<1> QED BY <1>2, <1>3

LEMMA FileNames ==
  /\ {"candles", "documents", "events", "reliability", "reactions", "edges", "runs", "results",
      "walks", "decisions"} = Files
  /\ {"candles", "documents", "events", "reliability", "reactions", "edges", "runs", "results",
      "walks"} = Files \ {"decisions"}
BY DEF Files

-----------------------------------------------------------------------------
(* Commands that append nothing, or only a decision                        *)

LEMMA UnchangedKeeps ==
  ASSUME Inv, UNCHANGED <<store, clock, torn>>,
         lost' \in LosableKinds \cup {None}, run' \in Runs \cup {None}
  PROVE  Inv'
BY DEF Inv, StateOK, FilesOK, LinksOK, WalksOK, RunsOK

LEMMA CutKeeps ==
  ASSUME Inv, RewriteDies
  PROVE  Inv'
<1>1. PICK file \in Rewritten : \E kept \in SUBSET store[file] :
        store' = [store EXCEPT ![file] = kept]
  BY DEF RewriteDies
<1>2. torn' = TRUE /\ clock' = clock + 2 /\ lost' = lost /\ run' = run
  BY DEF RewriteDies
<1>3. /\ DOMAIN store' = Files
      /\ \A f \in Files : store'[f] \subseteq store[f]
      /\ \A f \in Files \ Rewritten : store'[f] = store[f]
  BY <1>1 DEF Inv, FilesOK, Rewritten, Files
<1>4. StateOK'
  BY <1>2 DEF Inv, StateOK
<1>5. \A f \in Files : IsFiniteSet(store'[f])
  BY <1>3, FS_Subset DEF Inv, FilesOK
<1>6. FilesOK'
  <2>1. \A f \in Files \ {"decisions"} : \A r \in store'[f] : r.at \in Nat /\ r.at <= clock'
    BY <1>2, <1>3 DEF Inv, FilesOK, StateOK
  <2>2. \A f \in Files : \A q, r \in store'[f] : q.id = r.id => q = r
    BY <1>3 DEF Inv, FilesOK
  <2> QED BY <1>3, <1>5, <2>1, <2>2 DEF FilesOK
<1>7. LinksOK'
  <2> SUFFICES ASSUME NEW f \in Files, NEW r \in store'[f]
               PROVE  Lasting(store', {}, f, r)
    BY <1>2 DEF LinksOK
  <2>1. Lasting(store, {}, f, r)
    BY <1>3 DEF Inv, LinksOK
  <2>2. \A g \in Files \ Rewritten : \A id : Found(store, {}, g, id) => Found(store', {}, g, id)
    BY <1>3 DEF Found, Has
  <2>3. {"candles", "runs", "results", "walks"} \subseteq Files \ Rewritten
    BY DEF Files, Rewritten
  <2>4. \A g \in {"candles", "runs", "results", "walks"} :
          \A id : Found(store, {}, g, id) => Found(store', {}, g, id)
    BY <2>2, <2>3
  <2> QED BY <2>1, <2>4 DEF Lasting
<1>8. store'["walks"] = store["walks"] /\ store'["candles"] = store["candles"]
      /\ store'["runs"] = store["runs"]
  BY <1>3 DEF Files, Rewritten
<1>9. WalksOK' /\ RunsOK'
  BY <1>8 DEF Inv, WalksOK, RunsOK
<1> QED BY <1>4, <1>6, <1>7, <1>9 DEF Inv

\* What a decision cites is on file.
LEMMA Citations ==
  ASSUME Inv, NoneIsApart, NEW findings, Decides(findings)
  PROVE  /\ decision'.bt = None \/ Has(store, "results", decision'.bt)
         /\ decision'.wf = None \/ Has(store, "walks", decision'.wf)
         /\ decision'.ee = None \/ Has(store, "edges", decision'.ee)
<1>1. CASE findings # {}
  BY <1>1 DEF Decides, FailClosed
<1>2. CASE findings = {}
  <2>1. /\ decision'.bt = IdOf(LatestBacktest) /\ decision'.wf = IdOf(LatestWalkForward)
        /\ decision'.ee = IdOf(LatestEdge)
    BY <1>2 DEF Decides, Judged
  <2>2. LatestBacktest = None \/ LatestBacktest \in store["results"]
    <3> DEFINE marked == {r \in store.results : OnFile("runs", r.id) /\ r.id.context = "blocker"}
               rows == IF marked # {} THEN marked ELSE store.results
    <3>1. LatestBacktest = Latest(rows)
      BY DEF LatestBacktest
    <3>2. rows \in SUBSET store["results"]
      OBVIOUS
    <3> HIDE DEF rows
    <3> QED BY <3>1, <3>2, LatestOf, FileNames
  <2>3. LatestWalkForward = None \/ LatestWalkForward \in store["walks"]
    BY LatestOf, FileNames DEF LatestWalkForward
  <2>4. LatestEdge = None \/ LatestEdge \in store["edges"]
    BY LatestOf, FileNames DEF LatestEdge
  <2> QED BY <2>1, <2>2, <2>3, <2>4 DEF IdOf, Has
<1> QED BY <1>1, <1>2

LEMMA DecideKeeps ==
  ASSUME Inv, NoneIsApart, NEW findings, Decides(findings), UNCHANGED <<clock, lost, run, torn>>
  PROVE  Inv'
<1> DEFINE d == [id |-> Cites(decision')]
<1>1. /\ DOMAIN store' = Files
      /\ \A f \in Files \ {"decisions"} : store'[f] = store[f]
      /\ store'["decisions"] = store["decisions"] \cup {d}
  BY DEF Inv, FilesOK, Decides, Files
<1>2. d = [id |-> d.id] /\ d.id.bt = decision'.bt /\ d.id.wf = decision'.wf /\ d.id.ee = decision'.ee
  BY DEF Cites
<1>3. "decisions" \in Files
  BY FileNames
<1> HIDE DEF d
<1>4. StateOK'
  BY DEF Inv, StateOK
<1>5. \A f \in Files : IsFiniteSet(store'[f])
  <2>1. IsFiniteSet(store["decisions"] \cup {d})
    BY <1>3, FS_AddElement DEF Inv, FilesOK
  <2> QED BY <1>1, <2>1 DEF Inv, FilesOK
<1>6. FilesOK'
  <2>1. \A f \in Files \ {"decisions"} : \A r \in store'[f] : r.at \in Nat /\ r.at <= clock'
    BY <1>1 DEF Inv, FilesOK
  <2>2. ASSUME NEW f \in Files, NEW q \in store'[f], NEW r \in store'[f], q.id = r.id PROVE q = r
    <3>1. CASE f # "decisions"
      BY <1>1, <2>2, <3>1 DEF Inv, FilesOK
    <3>2. CASE f = "decisions"
      <4>1. \A x \in store'["decisions"] : x = [id |-> x.id]
        BY <1>1, <1>2, <1>3 DEF Inv, LinksOK, Lasting
      <4>2. q = [id |-> q.id] /\ r = [id |-> r.id]
        BY <3>2, <4>1
      <4> QED BY <2>2, <4>2
    <3> QED BY <3>1, <3>2
  <2> QED BY <1>1, <1>5, <2>1, <2>2 DEF FilesOK
<1>7. LinksOK'
  <2>1. \A g \in Files : \A id : Found(store, {}, g, id) => Found(store', {}, g, id)
    BY <1>1 DEF Found, Has
  <2> SUFFICES ASSUME NEW f \in Files, NEW r \in store'[f]
               PROVE  Lasting(store', {}, f, r) /\ (~torn => Passing(store', {}, f, r))
    BY DEF LinksOK
  <2>2. CASE r \in store[f]
    <3>1. Lasting(store, {}, f, r) /\ (~torn => Passing(store, {}, f, r))
      BY <2>2 DEF Inv, LinksOK
    <3> QED BY <2>1, <3>1, StaysFound
  <2>3. CASE f = "decisions" /\ r = d
    <3>1. /\ d.id.bt = None \/ Found(store, {}, "results", d.id.bt)
          /\ d.id.wf = None \/ Found(store, {}, "walks", d.id.wf)
          /\ d.id.ee = None \/ Found(store, {}, "edges", d.id.ee)
      BY <1>2, Citations DEF Found
    <3>2. /\ d.id.bt = None \/ Found(store', {}, "results", d.id.bt)
          /\ d.id.wf = None \/ Found(store', {}, "walks", d.id.wf)
          /\ d.id.ee = None \/ Found(store', {}, "edges", d.id.ee)
      BY <2>1, <3>1, FileNames
    <3> QED BY <1>2, <2>3, <3>2 DEF Lasting, Passing
  <2> QED BY <1>1, <2>2, <2>3
<1>8. store'["walks"] = store["walks"] /\ store'["candles"] = store["candles"]
      /\ store'["runs"] = store["runs"]
  BY <1>1, FileNames
<1>9. WalksOK' /\ RunsOK'
  BY <1>8 DEF Inv, WalksOK, RunsOK
<1> QED BY <1>4, <1>6, <1>7, <1>9 DEF Inv


-----------------------------------------------------------------------------
(* Commands that append                                                    *)

LEMMA BringKeeps ==
  ASSUME Inv, NEW W, Bring(W), Legal(W, clock + 2)
  PROVE  Inv'
<1>1. clock + 2 \in Nat /\ clock <= clock + 2
  BY DEF Inv, StateOK
<1> QED BY <1>1, AppendKeeps DEF Bring

LEMMA ImportKeeps ==
  ASSUME Inv, ImportCandle
  PROVE  Inv'
<1>1. PICK h \in Hours \ CandleHours : \E at \in ImportTimes : Bring({<<"candles", [id |-> h, at |-> at]>>})
  BY DEF ImportCandle
<1>2. PICK at \in ImportTimes : Bring({<<"candles", [id |-> h, at |-> at]>>})
  BY <1>1
<1> DEFINE c == [id |-> h, at |-> at]
           W == {<<"candles", c>>}
<1>3. c.id = h /\ c.at = at
  OBVIOUS
<1>4. at \in Nat /\ at <= clock + 2 /\ (at = 0 \/ at > clock)
  BY DEF ImportTimes, Stamp, Inv, StateOK
<1>5. IsFiniteSet(W)
  BY FS_Singleton
<1>6. "candles" \in Files \ {"decisions"}
  BY FileNames
<1>7. Lasting(store, W, "candles", c) /\ Passing(store, W, "candles", c)
  BY <1>3 DEF Lasting, Passing
<1>8. \A w \in W : w = <<"candles", c>> /\ w[1] = "candles" /\ w[2] = c
  OBVIOUS
<1> HIDE DEF c, W
<1>9. Legal(W, clock + 2)
  BY <1>3, <1>4, <1>5, <1>6, <1>7, <1>8 DEF Legal
<1> QED BY <1>2, <1>9, BringKeeps DEF W, c

LEMMA FirstOfTwo ==
  ASSUME NEW a, NEW b
  PROVE  First(<<a, b>>, 1) = {a} /\ First(<<a, b>>, 2) = {a, b}
<1>1. 1..1 = {1} /\ 1..2 = {1, 2}
  OBVIOUS
<1>2. /\ \A w : w \in First(<<a, b>>, 1) <=> w = a
      /\ \A w : w \in First(<<a, b>>, 2) <=> w = a \/ w = b
  BY <1>1 DEF First
<1> QED BY <1>2

LEMMA FirstOfThree ==
  ASSUME NEW a, NEW b, NEW c
  PROVE  /\ First(<<a, b, c>>, 1) = {a} /\ First(<<a, b, c>>, 2) = {a, b}
         /\ First(<<a, b, c>>, 3) = {a, b, c}
<1>1. 1..1 = {1} /\ 1..2 = {1, 2} /\ 1..3 = {1, 2, 3}
  OBVIOUS
<1>2. /\ \A w : w \in First(<<a, b, c>>, 1) <=> w = a
      /\ \A w : w \in First(<<a, b, c>>, 2) <=> w = a \/ w = b
      /\ \A w : w \in First(<<a, b, c>>, 3) <=> w = a \/ w = b \/ w = c
  BY <1>1 DEF First
<1> QED BY <1>2

LEMMA FiniteHours == ASSUME Inv PROVE IsFiniteSet(CandleHours)
<1> DEFINE g == [c \in store["candles"] |-> c.id]
<1>1. IsFiniteSet(DOMAIN g)
  BY FileNames DEF Inv, FilesOK
<1>2. CandleHours = {g[c] : c \in DOMAIN g}
  BY DEF CandleHours
<1> HIDE DEF g
<1> QED BY <1>1, <1>2, FiniteImage

LEMMA PassingOf ==
  ASSUME NEW files, NEW W, NEW r
  PROVE  /\ Passing(files, W, "documents", r)
         /\ Found(files, W, "documents", r.id[1]) => Passing(files, W, "events", r)
         /\ Found(files, W, "events", r.id) => Passing(files, W, "reliability", r)
         /\ Found(files, W, "events", r.id[1]) => Passing(files, W, "reactions", r)
         /\ Passing(files, W, "candles", r) /\ Passing(files, W, "runs", r)
         /\ Passing(files, W, "results", r) /\ Passing(files, W, "walks", r)
BY DEF Passing

\* The rows made for some items: documents, their events, and checks of these.
EventRows(W, items, documents, events, checks, g, by) ==
  /\ IsFiniteSet(items) /\ by \in Nat /\ g \in {"reactions", "reliability"}
  /\ \A m \in items : documents[m].id = m /\ documents[m].at = clock + 1
  /\ \A m \in items : events[m].id = <<m, by>> /\ events[m].at = clock + 1
  /\ \A m \in items : checks[m].at = clock + 1
  /\ g = "reactions" => \A m \in items : checks[m].id = <<<<m, by>>, 0>>
  /\ g = "reliability" => \A m \in items : checks[m].id = <<m, by>>
  /\ \A w \in W : \E m \in items :
       \/ w = <<"documents", documents[m]>>
       \/ /\ w = <<"events", events[m]>>
          /\ <<"documents", documents[m]>> \in W \/ Has(store, "documents", m)
       \/ w = <<g, checks[m]>> /\ <<"events", events[m]>> \in W

LEMMA EventsLegal ==
  ASSUME Inv, NEW W, NEW items, NEW documents, NEW events, NEW checks, NEW g, NEW by,
         EventRows(W, items, documents, events, checks, g, by)
  PROVE  Legal(W, clock + 2)
<1> USE DEF EventRows
<1> DEFINE D(m) == <<"documents", documents[m]>>
           E(m) == <<"events", events[m]>>
           C(m) == <<g, checks[m]>>
<1>1. \A w \in W : \E m \in items : w = D(m) \/ w = E(m) \/ w = C(m)
  OBVIOUS
<1>2. \A m \in items :
        /\ D(m) = <<D(m)[1], D(m)[2]>> /\ D(m)[1] = "documents" /\ D(m)[2].id = m
        /\ E(m) = <<E(m)[1], E(m)[2]>> /\ E(m)[1] = "events" /\ E(m)[2].id = <<m, by>>
        /\ C(m) = <<C(m)[1], C(m)[2]>> /\ C(m)[1] = g
        /\ D(m)[2].at = clock + 1 /\ E(m)[2].at = clock + 1 /\ C(m)[2].at = clock + 1
        /\ g = "reactions" => C(m)[2].id = <<<<m, by>>, 0>>
        /\ g = "reliability" => C(m)[2].id = <<m, by>>
  <2>1. \A m \in items :
          /\ D(m)[1] = "documents" /\ D(m)[2] = documents[m]
          /\ E(m)[1] = "events" /\ E(m)[2] = events[m]
          /\ C(m)[1] = g /\ C(m)[2] = checks[m]
    OBVIOUS
  <2>2. \A m \in items : documents[m].id = m /\ documents[m].at = clock + 1
    OBVIOUS
  <2> QED BY <2>1, <2>2
<1>3. clock + 1 \in Nat /\ clock + 1 <= clock + 2 /\ clock + 1 > clock
  BY DEF Inv, StateOK
<1>4. IsFiniteSet(W)
  <2> DEFINE d == [m \in items |-> D(m)]
             e == [m \in items |-> E(m)]
             c == [m \in items |-> C(m)]
             all == {d[m] : m \in DOMAIN d} \cup {e[m] : m \in DOMAIN e} \cup {c[m] : m \in DOMAIN c}
  <2>1. DOMAIN d = items /\ DOMAIN e = items /\ DOMAIN c = items
    OBVIOUS
  <2>2. W \subseteq all
    BY <1>1
  <2> HIDE DEF d, e, c
  <2>3. /\ IsFiniteSet({d[m] : m \in DOMAIN d}) /\ IsFiniteSet({e[m] : m \in DOMAIN e})
        /\ IsFiniteSet({c[m] : m \in DOMAIN c})
    BY <2>1, FiniteImage
  <2>4. IsFiniteSet(all)
    BY <2>3, FS_Union
  <2> QED BY <2>2, <2>4, FS_Subset
<1>5. \A w \in W : w[1] = "events" =>
        \E m \in items : w = E(m) /\ (D(m) \in W \/ Has(store, "documents", m))
  <2>1. \A m \in items : D(m)[1] # "events" /\ C(m)[1] # "events"
    BY <1>2
  <2> QED BY <2>1
<1>6. \A w \in W : w[1] = g => \E m \in items : w = C(m) /\ E(m) \in W
  <2>1. \A m \in items : D(m)[1] # g /\ E(m)[1] # g
    BY <1>2
  <2> QED BY <2>1
<1>7. \A w \in W : w[1] \in {"documents", "events", g}
  BY <1>1, <1>2
<1>8. {"documents", "events", g} \subseteq Files \ {"decisions"}
  BY FileNames
<1> HIDE DEF D, E, C
<1>9. ASSUME NEW v \in W, NEW w \in W, v[1] = w[1], v[2].id = w[2].id PROVE v = w
  <2>1. PICK m \in items : v = D(m) \/ v = E(m) \/ v = C(m)
    BY <1>1
  <2>2. PICK n \in items : w = D(n) \/ w = E(n) \/ w = C(n)
    BY <1>1
  <2>3. CASE v = D(m)
    BY <1>2, <1>9, <2>1, <2>2, <2>3
  <2>4. CASE v = E(m)
    BY <1>2, <1>9, <2>1, <2>2, <2>4
  <2>5. CASE v = C(m)
    <3>1. w = C(n)
      BY <1>2, <1>9, <2>2, <2>5
    <3>2. CASE g = "reactions"
      BY <1>2, <1>9, <2>5, <3>1, <3>2
    <3>3. CASE g = "reliability"
      BY <1>2, <1>9, <2>5, <3>1, <3>3
    <3> QED BY <3>2, <3>3
  <2> QED BY <2>1, <2>3, <2>4, <2>5
<1>10. ASSUME NEW w \in W PROVE Lasting(store, W, w[1], w[2]) /\ Passing(store, W, w[1], w[2])
  <2>1. Lasting(store, W, w[1], w[2])
    BY <1>7 DEF Lasting
  <2>2. CASE w[1] = "documents"
    BY <2>1, <2>2, PassingOf
  <2>3. CASE w[1] = "events"
    <3>1. PICK m \in items : w = E(m) /\ (D(m) \in W \/ Has(store, "documents", m))
      BY <1>5, <2>3
    <3>2. w[2].id[1] = m
      BY <1>2, <3>1
    <3>3. Found(store, W, "documents", m)
      BY <1>2, <3>1 DEF Found
    <3> QED BY <2>1, <2>3, <3>2, <3>3, PassingOf
  <2>4. CASE w[1] = g
    <3>1. PICK m \in items : w = C(m) /\ E(m) \in W
      BY <1>6, <2>4
    <3>2. Found(store, W, "events", <<m, by>>)
      BY <1>2, <3>1 DEF Found
    <3>3. CASE g = "reactions"
      <4>1. w[2].id[1] = <<m, by>>
        BY <1>2, <3>1, <3>3
      <4> QED BY <2>1, <2>4, <3>2, <3>3, <4>1, PassingOf
    <3>4. CASE g = "reliability"
      <4>1. w[2].id = <<m, by>>
        BY <1>2, <3>1, <3>4
      <4> QED BY <2>1, <2>4, <3>2, <3>4, <4>1, PassingOf
    <3> QED BY <3>3, <3>4
  <2> QED BY <1>7, <2>1, <2>2, <2>3, <2>4
<1>11. \A w \in W : w = <<w[1], w[2]>> /\ w[2].at = clock + 1
  BY <1>1, <1>2
<1>12. \A w \in W : w[1] \in Files \ {"decisions"} /\ w[1] \notin {"candles", "walks", "runs"}
  BY <1>7, <1>8
<1> QED BY <1>3, <1>4, <1>9, <1>10, <1>11, <1>12 DEF Legal


LEMMA MovesFacts ==
  ASSUME NEW last, NEW k
  PROVE  /\ First(DerivedWrites(last), k) \subseteq MovesUpTo(last, k)
         /\ \A w \in MovesUpTo(last, k) :
              \/ w \in First(DerivedWrites(last), k)
              \/ \E m \in Derivable : /\ w \in First(DerivedWrites(m), 3)
                                     /\ First(DerivedWrites(m), 3) \subseteq MovesUpTo(last, k)
<1>1. ASSUME NEW w
      PROVE  w \in MovesUpTo(last, k) <=>
               \/ w \in First(DerivedWrites(last), k)
               \/ \E m \in {n \in Derivable : n > last} : w \in First(DerivedWrites(m), 3)
  BY DEF MovesUpTo
<1> QED BY <1>1

LEMMA GroupsFacts ==
  ASSUME NEW done, NEW last, NEW k
  PROVE  /\ First(ReliableWrites(last), k) \subseteq GroupsUpTo(done, last, k)
         /\ \A w \in GroupsUpTo(done, last, k) :
              \/ w \in First(ReliableWrites(last), k)
              \/ \E d \in done : /\ w \in First(ReliableWrites(d), 2)
                                /\ First(ReliableWrites(d), 2) \subseteq GroupsUpTo(done, last, k)
<1>1. ASSUME NEW w
      PROVE  w \in GroupsUpTo(done, last, k) <=>
               \/ w \in First(ReliableWrites(last), k)
               \/ \E d \in done : w \in First(ReliableWrites(d), 2)
  BY DEF GroupsUpTo
<1> QED BY <1>1

LEMMA DeriveKeeps ==
  ASSUME Inv, DeriveEvents
  PROVE  Inv'
<1> DEFINE X(l, j) == First(DerivedWrites(l), j)
<1>1. PICK last \in Derivable, k \in 1..3 : Bring(MovesUpTo(last, k))
  BY DEF DeriveEvents
<1> DEFINE W == MovesUpTo(last, k)
           documents == [m \in Derivable |-> [id |-> m, at |-> Stamp]]
           events == [m \in Derivable |-> Event(m, 0)]
           checks == [m \in Derivable |-> Reaction(<<m, 0>>, 0, TRUE)]
           D(m) == <<"documents", documents[m]>>
           E(m) == <<"events", events[m]>>
           C(m) == <<"reactions", checks[m]>>
<1>0. Bring(W)
  BY <1>1
<1>2. /\ \A w \in W : w \in X(last, k) \/ \E m \in Derivable : w \in First(DerivedWrites(m), 3)
                                                           /\ First(DerivedWrites(m), 3) \subseteq W
      /\ X(last, k) \subseteq W
  BY MovesFacts
<1>3. IsFiniteSet(Derivable)
  <2>1. Derivable \subseteq CandleHours
    BY DEF Derivable
  <2> QED BY <2>1, FiniteHours, FS_Subset
<1>4. \A m \in Derivable :
        /\ First(DerivedWrites(m), 1) = {D(m)} /\ First(DerivedWrites(m), 2) = {D(m), E(m)}
        /\ First(DerivedWrites(m), 3) = {D(m), E(m), C(m)}
  <2> TAKE m \in Derivable
  <2> DEFINE d == D(m)  e == E(m)  c == C(m)
  <2>1. DerivedWrites(m) = <<d, e, c>>
    BY DEF DerivedWrites
  <2> HIDE DEF d, e, c
  <2>2. /\ First(<<d, e, c>>, 1) = {d} /\ First(<<d, e, c>>, 2) = {d, e}
        /\ First(<<d, e, c>>, 3) = {d, e, c}
    BY FirstOfThree
  <2> QED BY <2>1, <2>2 DEF d, e, c
<1>5. /\ \A m \in Derivable : documents[m].id = m /\ documents[m].at = clock + 1
      /\ \A m \in Derivable : events[m].id = <<m, 0>> /\ events[m].at = clock + 1
      /\ \A m \in Derivable : checks[m].id = <<<<m, 0>>, 0>> /\ checks[m].at = clock + 1
  BY DEF Event, Reaction, Stamp
<1> HIDE DEF documents, events, checks
<1>6. ASSUME NEW w \in W
      PROVE  \E m \in Derivable :
               \/ w = D(m)
               \/ w = E(m) /\ D(m) \in W
               \/ w = C(m) /\ E(m) \in W
  <2>1. CASE w \notin X(last, k)
    <3>1. PICK m \in Derivable : w \in First(DerivedWrites(m), 3) /\ First(DerivedWrites(m), 3) \subseteq W
      BY <1>2, <2>1
    <3>2. m \in Derivable /\ First(DerivedWrites(m), 3) = {D(m), E(m), C(m)}
      BY <1>4
    <3> DEFINE d == D(m)  e == E(m)  c == C(m)
    <3>4. First(DerivedWrites(m), 3) = {d, e, c}
      BY <3>2
    <3> HIDE DEF d, e, c, W
    <3>5. (w = d \/ w = e \/ w = c) /\ d \in W /\ e \in W
      BY <3>1, <3>4
    <3> QED BY <3>2, <3>5 DEF d, e, c
  <2>2. CASE w \in X(last, k)
    <3>1. k = 1 \/ k = 2 \/ k = 3
      OBVIOUS
    <3>2. X(last, k) \subseteq W
      BY <1>2
    <3>3. \/ w = D(last)
          \/ w = E(last) /\ D(last) \in W
          \/ w = C(last) /\ E(last) \in W
      <4> DEFINE d == D(last)  e == E(last)  c == C(last)
      <4>0. /\ First(DerivedWrites(last), 1) = {d} /\ First(DerivedWrites(last), 2) = {d, e}
            /\ First(DerivedWrites(last), 3) = {d, e, c}
        BY <1>4
      <4> HIDE DEF d, e, c, W
      <4> SUFFICES \/ w = d
                   \/ w = e /\ d \in W
                   \/ w = c /\ e \in W
        BY DEF d, e, c
      <4>1. CASE k = 1
        BY <2>2, <4>0, <4>1 DEF X
      <4>2. CASE k = 2
        BY <2>2, <3>2, <4>0, <4>2 DEF X
      <4>3. CASE k = 3
        BY <2>2, <3>2, <4>0, <4>3 DEF X
      <4> QED BY <3>1, <4>1, <4>2, <4>3
    <3> QED BY <3>3
  <2> QED BY <2>1, <2>2
<1> HIDE DEF W, X
<1>7. Legal(W, clock + 2)
  <2>1. \A w \in W : \E m \in Derivable :
          \/ w = <<"documents", documents[m]>>
          \/ /\ w = <<"events", events[m]>>
             /\ <<"documents", documents[m]>> \in W \/ Has(store, "documents", m)
          \/ w = <<"reactions", checks[m]>> /\ <<"events", events[m]>> \in W
    BY <1>6
  <2>2. EventRows(W, Derivable, documents, events, checks, "reactions", 0)
    BY <1>3, <1>5, <2>1 DEF EventRows
  <2> QED BY <2>2, EventsLegal
<1> QED BY <1>0, <1>7, BringKeeps

LEMMA BuildKeeps ==
  ASSUME Inv, BuildEvents
  PROVE  Inv'
<1> DEFINE X(l, j) == First(ReliableWrites(l), j)
<1>1. PICK done \in SUBSET store.documents, last \in store.documents, k \in 1..2 :
        Bring(GroupsUpTo(done, last, k))
  BY DEF BuildEvents
<1> DEFINE id == [d \in store["documents"] |-> d.id]
           items == {id[d] : d \in DOMAIN id}
           W == GroupsUpTo(done, last, k)
           documents == [m \in items |-> [id |-> m, at |-> Stamp]]
           events == [m \in items |-> Event(m, Stamp)]
           checks == [m \in items |-> [id |-> <<m, Stamp>>, at |-> Stamp]]
           E(m) == <<"events", events[m]>>
           C(m) == <<"reliability", checks[m]>>
<1>0. Bring(W)
  BY <1>1
<1>2. /\ \A w \in W : w \in X(last, k) \/ \E d \in done : w \in First(ReliableWrites(d), 2)
                                                      /\ First(ReliableWrites(d), 2) \subseteq W
      /\ X(last, k) \subseteq W
  BY GroupsFacts
<1>4. IsFiniteSet(items)
  <2>1. IsFiniteSet(DOMAIN id)
    BY FileNames DEF Inv, FilesOK
  <2> HIDE DEF id
  <2> QED BY <2>1, FiniteImage
<1>5. \A d \in store.documents : d.id \in items
  <2>1. \A d \in store.documents : d \in DOMAIN id /\ id[d] = d.id
    OBVIOUS
  <2> QED BY <2>1
<1>6. \A m \in items : Has(store, "documents", m)
  BY DEF Has
<1> HIDE DEF items
<1>7. \A d \in store.documents :
        /\ First(ReliableWrites(d), 1) = {E(d.id)}
        /\ First(ReliableWrites(d), 2) = {E(d.id), C(d.id)}
  <2> TAKE d \in store.documents
  <2>1. ReliableWrites(d) = <<E(d.id), C(d.id)>>
    BY <1>5 DEF ReliableWrites
  <2> HIDE DEF E, C
  <2> QED BY <2>1, FirstOfTwo, Zenon
<1>8. /\ \A m \in items : documents[m].id = m /\ documents[m].at = clock + 1
      /\ \A m \in items : events[m].id = <<m, clock + 1>> /\ events[m].at = clock + 1
      /\ \A m \in items : checks[m].id = <<m, clock + 1>> /\ checks[m].at = clock + 1
  BY DEF Event, Stamp
<1> HIDE DEF documents, events, checks
<1>9. ASSUME NEW w \in W
      PROVE  \E m \in items : w = E(m) \/ (w = C(m) /\ E(m) \in W)
  <2>1. CASE w \notin X(last, k)
    <3>1. PICK d \in done : w \in First(ReliableWrites(d), 2) /\ First(ReliableWrites(d), 2) \subseteq W
      BY <1>2, <2>1
    <3>2. d.id \in items /\ First(ReliableWrites(d), 2) = {E(d.id), C(d.id)}
      BY <1>5, <1>7
    <3> DEFINE e == E(d.id)  c == C(d.id)
    <3>4. First(ReliableWrites(d), 2) = {e, c}
      BY <3>2
    <3> HIDE DEF e, c, W
    <3>5. (w = e \/ w = c) /\ e \in W
      BY <3>1, <3>4
    <3> QED BY <3>2, <3>5 DEF e, c
  <2>2. CASE w \in X(last, k)
    <3>1. k = 1 \/ k = 2
      OBVIOUS
    <3>2. X(last, k) \subseteq W
      BY <1>2
    <3>3. w = E(last.id) \/ (w = C(last.id) /\ E(last.id) \in W)
      <4> HIDE DEF E, C, W
      <4>1. CASE k = 1
        BY <1>7, <2>2, <4>1 DEF X
      <4>2. CASE k = 2
        BY <1>7, <2>2, <3>2, <4>2 DEF X
      <4> QED BY <3>1, <4>1, <4>2
    <3>4. last.id \in items
      BY <1>5
    <3> HIDE DEF E, C, W
    <3> QED BY <3>3, <3>4
  <2> QED BY <2>1, <2>2
<1> HIDE DEF W, X
<1>10. Legal(W, clock + 2)
  <2>1. \A w \in W : \E m \in items :
          \/ w = <<"documents", documents[m]>>
          \/ /\ w = <<"events", events[m]>>
             /\ <<"documents", documents[m]>> \in W \/ Has(store, "documents", m)
          \/ w = <<"reliability", checks[m]>> /\ <<"events", events[m]>> \in W
    BY <1>6, <1>9
  <2>2. clock + 1 \in Nat
    BY DEF Inv, StateOK
  <2>3. EventRows(W, items, documents, events, checks, "reliability", clock + 1)
    BY <1>4, <1>8, <2>1, <2>2 DEF EventRows
  <2> QED BY <2>3, EventsLegal
<1> QED BY <1>0, <1>10, BringKeeps

LEMMA ReactKeeps ==
  ASSUME Inv, BuildReactions
  PROVE  Inv'
<1>1. PICK done \in SUBSET store.events : \E clean \in SUBSET done :
        Bring({ReactionWrite(v, v \in clean) : v \in done})
  BY DEF BuildReactions
<1>2. PICK clean \in SUBSET done : Bring({ReactionWrite(v, v \in clean) : v \in done})
  BY <1>1
<1> DEFINE passed(v) == v \in clean /\ OnFile("reliability", v.id)
           g == [v \in done |-> ReactionWrite(v, v \in clean)]
           W == {g[v] : v \in DOMAIN g}
<1>3. {ReactionWrite(v, v \in clean) : v \in done} = W
  OBVIOUS
<1>4. IsFiniteSet(W)
  <2>1. IsFiniteSet(done)
    BY FileNames, FS_Subset DEF Inv, FilesOK
  <2>2. IsFiniteSet(DOMAIN g)
    BY <2>1
  <2> HIDE DEF g
  <2> QED BY <2>2, FiniteImage
<1>5. \A w \in W : \E v \in done :
        /\ w = <<"reactions", w[2]>> /\ w[1] = "reactions"
        /\ w[2] = Reaction(v.id, Stamp, passed(v))
        /\ w[2].id = <<v.id, Stamp>> /\ w[2].at = clock + 1
  <2> SUFFICES ASSUME NEW v \in done, NEW w, w = ReactionWrite(v, v \in clean)
               PROVE  /\ w = <<"reactions", w[2]>> /\ w[1] = "reactions"
                      /\ w[2] = Reaction(v.id, Stamp, passed(v))
                      /\ w[2].id = <<v.id, Stamp>> /\ w[2].at = clock + 1
    OBVIOUS
  <2> DEFINE r == Reaction(v.id, Stamp, passed(v))
  <2>1. w = <<"reactions", r>>
    BY DEF ReactionWrite
  <2>2. r.id = <<v.id, Stamp>> /\ r.at = clock + 1
    BY DEF Reaction, Stamp
  <2> HIDE DEF r
  <2>3. w[1] = "reactions" /\ w[2] = r
    BY <2>1
  <2> QED BY <2>1, <2>2, <2>3 DEF r
<1> HIDE DEF W
<1>6. clock + 1 \in Nat /\ clock + 1 <= clock + 2
  BY DEF Inv, StateOK
<1>7. ASSUME NEW v \in W, NEW w \in W, v[2].id = w[2].id PROVE v = w
  <2>1. PICK x \in done : /\ v = <<"reactions", v[2]>>
                          /\ v[2] = Reaction(x.id, Stamp, passed(x))
                          /\ v[2].id = <<x.id, Stamp>>
    BY <1>5
  <2>2. PICK y \in done : /\ w = <<"reactions", w[2]>>
                          /\ w[2] = Reaction(y.id, Stamp, passed(y))
                          /\ w[2].id = <<y.id, Stamp>>
    BY <1>5
  <2>3. x.id = y.id
    BY <1>7, <2>1, <2>2
  <2>4. x = y
    BY <2>3, FileNames DEF Inv, FilesOK
  <2> QED BY <2>1, <2>2, <2>4
<1>8. ASSUME NEW w \in W PROVE Lasting(store, W, "reactions", w[2]) /\ Passing(store, W, "reactions", w[2])
  <2>1. PICK v \in done : w[2].id = <<v.id, Stamp>>
    BY <1>5
  <2>2. Found(store, W, "events", w[2].id[1])
    BY <2>1 DEF Found, Has
  <2> QED BY <2>2, PassingOf DEF Lasting
<1>9. "reactions" \in Files \ {"decisions"}
  BY FileNames
<1>10. Legal(W, clock + 2)
  BY <1>4, <1>5, <1>6, <1>7, <1>8, <1>9 DEF Legal
<1> QED BY <1>2, <1>3, <1>10, BringKeeps


\* A backtest, its result, and a validation made from it: from the candles on file,
\* and marked for a plan only if from all of them.
EvidenceRows(W, b, result, walk, time) ==
  /\ b.id = [context |-> b.id.context, at |-> b.at] /\ b.at \in Nat /\ b.at <= time
  /\ b.hours \subseteq CandleHours
  /\ b.id.context = "blocker" => b.hours = CandleHours /\ b.at >= clock
  /\ result.id = b.id /\ result.at = b.at
  /\ \A w \in W :
       \/ w = <<"runs", b>>
       \/ w = <<"results", result>> /\ <<"runs", b>> \in W
       \/ /\ w = <<"walks", walk>> /\ <<"results", result>> \in W
          /\ walk.id = [context |-> walk.id.context, at |-> walk.at]
          /\ walk.at \in Nat /\ walk.at <= time
          /\ walk.hours = CandleHours /\ walk.inner = result.id

LEMMA EvidenceLegal ==
  ASSUME Inv, NEW W, NEW b, NEW result, NEW walk, NEW time \in Nat,
         EvidenceRows(W, b, result, walk, time)
  PROVE  Legal(W, time)
<1> USE DEF EvidenceRows
<1> DEFINE B == <<"runs", b>>
           R == <<"results", result>>
           V == <<"walks", walk>>
<1>1. /\ B = <<B[1], B[2]>> /\ B[1] = "runs" /\ B[2] = b
      /\ R = <<R[1], R[2]>> /\ R[1] = "results" /\ R[2] = result
      /\ V = <<V[1], V[2]>> /\ V[1] = "walks" /\ V[2] = walk
  OBVIOUS
<1>2. \A w \in W :
        \/ w = B
        \/ w = R /\ B \in W
        \/ /\ w = V /\ R \in W
           /\ walk.id = [context |-> walk.id.context, at |-> walk.at]
           /\ walk.at \in Nat /\ walk.at <= time
           /\ walk.hours = CandleHours /\ walk.inner = result.id
  OBVIOUS
<1> HIDE DEF B, R, V
<1>3. IsFiniteSet(W)
  <2>1. W \subseteq {B, R} \cup {V}
    BY <1>2
  <2>2. IsFiniteSet({B, R} \cup {V})
    <3>1. IsFiniteSet({B}) /\ IsFiniteSet({B} \cup {R})
      BY FS_Singleton, FS_AddElement
    <3>2. {B} \cup {R} = {B, R}
      OBVIOUS
    <3> QED BY <3>1, <3>2, FS_AddElement
  <2> QED BY <2>1, <2>2, FS_Subset
<1>4. \A w \in W : Lasting(store, W, w[1], w[2]) /\ Passing(store, W, w[1], w[2])
  <2> TAKE w \in W
  <2>1. CASE w = B
    <3>1. \A h \in b.hours : Found(store, W, "candles", h)
      BY DEF Found, Has, CandleHours
    <3> QED BY <1>1, <2>1, <3>1, PassingOf DEF Lasting
  <2>2. CASE w = R /\ B \in W
    <3>1. Found(store, W, "runs", result.id)
      BY <1>1, <2>2 DEF Found
    <3> QED BY <1>1, <2>2, <3>1, PassingOf DEF Lasting
  <2>3. CASE w = V /\ R \in W
    <3>1. Found(store, W, "results", result.id)
      BY <1>1, <2>3 DEF Found
    <3>2. walk.id = [context |-> walk.id.context, at |-> walk.at] /\ walk.inner = result.id
      BY <1>1, <1>2, <2>3
    <3> QED BY <1>1, <2>3, <3>1, <3>2, PassingOf DEF Lasting
  <2> QED BY <1>2, <2>1, <2>2, <2>3
<1>5. {"runs", "results", "walks"} \subseteq Files \ {"decisions"}
  BY FileNames
<1>6. \A w \in W : w = <<w[1], w[2]>> /\ w[1] \in {"runs", "results", "walks"}
  BY <1>1, <1>2
<1>7. \A w \in W : w[2].at \in Nat /\ w[2].at <= time
  BY <1>1, <1>2
<1>8. \A v, w \in W : v[1] = w[1] => v = w
  BY <1>1, <1>2
<1>9. \A w \in W : w[1] = "walks" => w[2].hours = CandleHours
  BY <1>1, <1>2
<1>10. \A w \in W : w[1] = "runs" => w = B
  BY <1>1, <1>2
<1> QED BY <1>1, <1>3, <1>4, <1>5, <1>6, <1>7, <1>8, <1>9, <1>10 DEF Legal

LEMMA BacktestLegal ==
  ASSUME Inv, NEW context, NEW at \in Nat, NEW hours \in SUBSET CandleHours, NEW verdict,
         NEW k \in 1..2, NEW time \in Nat, at <= time,
         context = "blocker" => hours = CandleHours /\ at >= clock
  PROVE  Legal(First(BacktestWrites(context, at, hours, verdict), k), time)
<1> DEFINE id == [context |-> context, at |-> at]
           b == [id |-> id, at |-> at, hours |-> hours]
           result == [id |-> id, at |-> at, verdict |-> verdict]
           W == First(BacktestWrites(context, at, hours, verdict), k)
<1>1. BacktestWrites(context, at, hours, verdict) = <<<<"runs", b>>, <<"results", result>>>>
  BY DEF BacktestWrites
<1>2. /\ b.id = id /\ b.at = at /\ b.hours = hours /\ id.context = context /\ id.at = at
      /\ result.id = id /\ result.at = at
  OBVIOUS
<1>3. id = [context |-> b.id.context, at |-> b.at]
  BY <1>2
<1> HIDE DEF id, b, result
<1>4. W = {<<"runs", b>>} \/ W = {<<"runs", b>>, <<"results", result>>}
  <2>1. k = 1 \/ k = 2
    OBVIOUS
  <2> QED BY <1>1, <2>1, FirstOfTwo
<1> HIDE DEF W
<1>5. \A w \in W : w = <<"runs", b>> \/ (w = <<"results", result>> /\ <<"runs", b>> \in W)
  BY <1>4
<1>6. EvidenceRows(W, b, result, b, time)
  BY <1>2, <1>3, <1>5 DEF EvidenceRows
<1> QED BY <1>6, EvidenceLegal DEF W

LEMMA LastAppended ==
  ASSUME NEW S, NEW t \in Seq(S), NEW c \in S
  PROVE  (\A i \in 1..Len(t) : Append(t, c)[i] = t[i]) /\ Append(t, c)[Len(t) + 1] = c
BY AppendProperties

LEMMA FirstOfAppended ==
  ASSUME NEW a, NEW b, NEW c
  PROVE  /\ First(Append(<<a, b>>, c), 1) = {a} /\ First(Append(<<a, b>>, c), 2) = {a, b}
         /\ First(Append(<<a, b>>, c), 3) = {a, b, c}
<1> DEFINE s == Append(<<a, b>>, c)
<1>1. s[1] = a /\ s[2] = b /\ s[3] = c
  <2> DEFINE t == <<a, b>>
             S == {a, b, c}
  <2>1. t \in Seq(S) /\ c \in S
    OBVIOUS
  <2>2. Len(t) = 2 /\ t[1] = a /\ t[2] = b
    OBVIOUS
  <2> HIDE DEF t, S
  <2>3. (\A i \in 1..Len(t) : Append(t, c)[i] = t[i]) /\ Append(t, c)[Len(t) + 1] = c
    BY <2>1, LastAppended
  <2>4. 1 \in 1..Len(t) /\ 2 \in 1..Len(t) /\ Len(t) + 1 = 3
    BY <2>2
  <2>5. Append(t, c)[1] = t[1] /\ Append(t, c)[2] = t[2] /\ Append(t, c)[3] = c
    BY <2>3, <2>4, Zenon
  <2> QED BY <2>2, <2>5 DEF t
<1> HIDE DEF s
<1>2. 1..1 = {1} /\ 1..2 = {1, 2} /\ 1..3 = {1, 2, 3}
  OBVIOUS
<1>3. /\ \A w : w \in First(s, 1) <=> w = a
      /\ \A w : w \in First(s, 2) <=> w = a \/ w = b
      /\ \A w : w \in First(s, 3) <=> w = a \/ w = b \/ w = c
  BY <1>1, <1>2 DEF First
<1> QED BY <1>3 DEF s

LEMMA WalkForwardLegal ==
  ASSUME Inv, NEW context \in {"blocker", "other"}, NEW at \in Nat, NEW verdict,
         NEW k \in 1..3, NEW time \in Nat, at <= time
  PROVE  Legal(First(WalkForwardWrites(context, at, verdict), k), time)
<1> DEFINE id == [context |-> context, at |-> at]
           inner == [context |-> WindowOf(context), at |-> at]
           hours == CandleHours \ {Lowest(CandleHours)}
           b == [id |-> inner, at |-> at, hours |-> hours]
           result == [id |-> inner, at |-> at, verdict |-> verdict]
           walk == [id |-> id, at |-> at, first |-> Lowest(CandleHours),
                    last |-> Highest(CandleHours), hours |-> CandleHours, inner |-> inner,
                    verdict |-> verdict]
           W == First(WalkForwardWrites(context, at, verdict), k)
<1>1. WalkForwardWrites(context, at, verdict)
        = Append(<<<<"runs", b>>, <<"results", result>>>>, <<"walks", walk>>)
  <2>1. BacktestWrites(inner.context, at, hours, verdict) = <<<<"runs", b>>, <<"results", result>>>>
    BY DEF BacktestWrites
  <2>2. WalkForwardWrites(context, at, verdict)
          = Append(BacktestWrites(inner.context, at, hours, verdict), <<"walks", walk>>)
    BY DEF WalkForwardWrites
  <2> HIDE DEF b, result, walk
  <2> QED BY <2>1, <2>2, Zenon
<1>2. /\ b.id = inner /\ b.at = at /\ b.hours = hours /\ inner.context # "blocker"
      /\ inner = [context |-> inner.context, at |-> at] /\ id = [context |-> id.context, at |-> at]
      /\ result.id = inner /\ result.at = at
      /\ walk.id = id /\ walk.at = at /\ walk.hours = CandleHours /\ walk.inner = inner
  <2>1. WindowOf(context) # "blocker"
    BY DEF WindowOf
  <2>2. inner.context = WindowOf(context) /\ id.context = context
    OBVIOUS
  <2> HIDE DEF hours
  <2>3. /\ b.id = inner /\ b.at = at /\ b.hours = hours
        /\ result.id = inner /\ result.at = at
        /\ walk.id = id /\ walk.at = at /\ walk.hours = CandleHours /\ walk.inner = inner
    <3> HIDE DEF id, inner
    <3> QED OBVIOUS
  <2> QED BY <2>1, <2>2, <2>3
<1>3. hours \subseteq CandleHours
  OBVIOUS
<1> HIDE DEF id, inner, hours, b, result, walk
<1>4. \/ W = {<<"runs", b>>}
      \/ W = {<<"runs", b>>, <<"results", result>>}
      \/ W = {<<"runs", b>>, <<"results", result>>, <<"walks", walk>>}
  <2>1. k = 1 \/ k = 2 \/ k = 3
    OBVIOUS
  <2> QED BY <1>1, <2>1, FirstOfAppended
<1> HIDE DEF W
<1>5. \A w \in W :
        \/ w = <<"runs", b>>
        \/ w = <<"results", result>> /\ <<"runs", b>> \in W
        \/ w = <<"walks", walk>> /\ <<"results", result>> \in W
  BY <1>4
<1>6. EvidenceRows(W, b, result, walk, time)
  BY <1>2, <1>3, <1>5 DEF EvidenceRows
<1> QED BY <1>6, EvidenceLegal DEF W

LEMMA WalkForwardLength ==
  ASSUME NEW context, NEW at, NEW verdict
  PROVE  Len(WalkForwardWrites(context, at, verdict)) = 3
<1> DEFINE inner == [context |-> WindowOf(context), at |-> at]
           s == BacktestWrites(inner.context, at, CandleHours \ {Lowest(CandleHours)}, verdict)
<1>1. PICK v : WalkForwardWrites(context, at, verdict) = Append(s, v)
  BY DEF WalkForwardWrites
<1>2. \E a, b : s = <<a, b>>
  BY DEF BacktestWrites
<1>3. \A a, b : Len(Append(<<a, b>>, v)) = 3
  <2> TAKE a, b
  <2>1. <<a, b>> \in Seq({a, b, v}) /\ v \in {a, b, v}
    OBVIOUS
  <2>2. Len(Append(<<a, b>>, v)) = Len(<<a, b>>) + 1
    BY <2>1, AppendProperties
  <2> QED BY <2>2
<1> QED BY <1>1, <1>2, <1>3

LEMMA ByHandKeeps ==
  ASSUME Inv, EvidenceByHand
  PROVE  Inv'
<1>1. Stamp \in Nat /\ clock + 2 \in Nat /\ Stamp <= clock + 2
  BY DEF Stamp, Inv, StateOK
<1>2. PICK verdict \in Verdicts :
        \/ \E k \in 1..2 : Bring(First(BacktestWrites("other", Stamp, CandleHours, verdict), k))
        \/ \E k \in 1..3 : Bring(First(WalkForwardWrites("other", Stamp, verdict), k))
  BY DEF EvidenceByHand
<1>3. ASSUME NEW k \in 1..2, Bring(First(BacktestWrites("other", Stamp, CandleHours, verdict), k))
      PROVE  Inv'
  <2>1. Legal(First(BacktestWrites("other", Stamp, CandleHours, verdict), k), clock + 2)
    <3>1. "other" # "blocker" /\ CandleHours \in SUBSET CandleHours
      OBVIOUS
    <3> QED BY <1>1, <3>1, BacktestLegal
  <2> QED BY <1>3, <2>1, BringKeeps
<1>4. ASSUME NEW k \in 1..3, Bring(First(WalkForwardWrites("other", Stamp, verdict), k))
      PROVE  Inv'
  <2>1. Legal(First(WalkForwardWrites("other", Stamp, verdict), k), clock + 2)
    BY <1>1, WalkForwardLegal
  <2> QED BY <1>4, <2>1, BringKeeps
<1> QED BY <1>2, <1>3, <1>4


\* What an event edge is made from is on file.
LEMMA InputsFound ==
  ASSUME Inv, NoneIsApart
  PROVE  /\ \A id \in EdgeInputs.events : Has(store, "events", id)
         /\ \A id \in EdgeInputs.checks : Has(store, "reactions", id)
         /\ EdgeInputs.hours \subseteq CandleHours
<1> DEFINE samples == {v \in store.events : Sampled(v)}
<1>1. /\ EdgeInputs.events = {v.id : v \in samples}
      /\ EdgeInputs.checks = {LatestReaction(v).id : v \in samples}
      /\ EdgeInputs.hours = UNION {Between(v) : v \in samples}
  BY DEF EdgeInputs
<1>2. \A v \in samples : LatestReaction(v) \in store["reactions"]
  <2> TAKE v \in samples
  <2> DEFINE rows == {r \in store.reactions : r.id[1] = v.id}
  <2>1. LatestReaction(v) = Latest(rows) /\ LatestReaction(v) # None
    BY DEF Sampled, LatestReaction
  <2>2. rows \in SUBSET store["reactions"]
    OBVIOUS
  <2> HIDE DEF rows
  <2> QED BY <2>1, <2>2, LatestOf, FileNames
<1>3. \A v : Between(v) \subseteq CandleHours
  BY DEF Between
<1> QED BY <1>1, <1>2, <1>3 DEF Has

LEMMA EdgeLegal ==
  ASSUME Inv, NoneIsApart, NEW verdict, NEW time \in Nat, clock <= time
  PROVE  Legal(First(EdgeWrites(EdgeInputs, verdict), 1), time)
<1> DEFINE e == [id |-> clock, at |-> clock, inputs |-> EdgeInputs, mark |-> InputsAt(EdgeInputs),
                 verdict |-> verdict]
           W == First(EdgeWrites(EdgeInputs, verdict), 1)
<1>1. EdgeWrites(EdgeInputs, verdict) = <<<<"edges", e>>>>
  BY DEF EdgeWrites
<1>2. e.id = clock /\ e.at = clock /\ e.inputs = EdgeInputs
  OBVIOUS
<1> HIDE DEF e
<1>3. W = {<<"edges", e>>}
  <2>1. 1..1 = {1}
    OBVIOUS
  <2> QED BY <1>1, <2>1 DEF First
<1> HIDE DEF W
<1>4. \A w \in W : w = <<w[1], w[2]>> /\ w[1] = "edges" /\ w[2] = e
  BY <1>3
<1>5. clock \in Nat
  BY DEF Inv, StateOK
<1>6. IsFiniteSet(W)
  BY <1>3, FS_Singleton
<1>7. /\ \A id \in e.inputs.events : Found(store, W, "events", id)
      /\ \A id \in e.inputs.checks : Found(store, W, "reactions", id)
      /\ \A h \in e.inputs.hours : Found(store, W, "candles", h)
  BY <1>2, InputsFound DEF Found, Has, CandleHours
<1>8. Lasting(store, W, "edges", e) /\ Passing(store, W, "edges", e)
  BY <1>2, <1>5, <1>7 DEF Lasting, Passing
<1>9. "edges" \in Files \ {"decisions"}
  BY FileNames
<1>10. \A v, w \in W : v = w
  BY <1>3
<1> HIDE DEF NoneIsApart
<1> QED BY <1>2, <1>4, <1>5, <1>6, <1>8, <1>9, <1>10 DEF Legal, W

\* Whatever is left of an executor's writes.
LEMMA TaskLegal ==
  ASSUME Inv, NoneIsApart, NEW plan \in Plans, NEW task, Ready(plan, task), NEW verdict,
         NEW k \in 1..Len(TaskWrites(plan, task, verdict)), NEW time \in Nat, clock <= time
  PROVE  Legal(First(TaskWrites(plan, task, verdict), k), time)
<1> DEFINE writes == TaskWrites(plan, task, verdict)
<1>0. clock \in Nat /\ clock >= clock
  BY DEF Inv, StateOK
<1>1. task = "event_edge" \/ task = "backtest" \/ task = "walk_forward"
  BY DEF Ready
<1>2. CASE task = "event_edge"
  <2>1. plan.inputs = EdgeInputs
    BY DEF Plans
  <2>2. writes = EdgeWrites(EdgeInputs, verdict)
    BY <1>2, <2>1 DEF TaskWrites
  <2>3. Len(EdgeWrites(EdgeInputs, verdict)) = 1
    BY DEF EdgeWrites
  <2>4. k = 1
    BY <2>2, <2>3
  <2> QED BY <2>2, <2>4, EdgeLegal
<1>3. CASE task = "backtest"
  <2>1. writes = BacktestWrites("blocker", clock, CandleHours, verdict)
    BY <1>3 DEF TaskWrites
  <2>2. Len(BacktestWrites("blocker", clock, CandleHours, verdict)) = 2
    BY DEF BacktestWrites
  <2>3. k \in 1..2 /\ CandleHours \in SUBSET CandleHours
    BY <2>1, <2>2
  <2>4. Legal(First(BacktestWrites("blocker", clock, CandleHours, verdict), k), time)
    BY <1>0, <2>3, BacktestLegal
  <2> QED BY <2>1, <2>4
<1>4. CASE task = "walk_forward"
  <2>1. writes = WalkForwardWrites("blocker", clock, verdict)
    BY <1>4 DEF TaskWrites
  <2>2. k \in 1..3
    BY <2>1, WalkForwardLength
  <2>3. Legal(First(WalkForwardWrites("blocker", clock, verdict), k), time)
    BY <1>0, <2>2, WalkForwardLegal
  <2> QED BY <2>1, <2>3
<1> QED BY <1>1, <1>2, <1>3, <1>4

LEMMA ExecuteKeeps ==
  ASSUME Inv, NoneIsApart, ExecuteNext
  PROVE  Inv'
<1>1. PICK plan \in Plans : \E task \in {NextTask(plan)} :
        /\ Ready(plan, task)
        /\ \E verdict \in Verdicts : \E writes \in {TaskWrites(plan, task, verdict)} :
             \/ store' = Appended(First(writes, Len(writes))) /\ UNCHANGED <<clock, left>>
             \/ /\ Spend("here") /\ clock' = clock + 2
                /\ \E k \in 1..Len(writes) - 1 : store' = Appended(First(writes, k))
  BY DEF ExecuteNext
<1>2. PICK task, verdict :
        /\ Ready(plan, task)
        /\ \/ /\ store' = Appended(First(TaskWrites(plan, task, verdict),
                                        Len(TaskWrites(plan, task, verdict))))
              /\ clock' = clock
           \/ /\ clock' = clock + 2
              /\ \E k \in 1..Len(TaskWrites(plan, task, verdict)) - 1 :
                   store' = Appended(First(TaskWrites(plan, task, verdict), k))
  BY <1>1
<1> DEFINE writes == TaskWrites(plan, task, verdict)
<1>3. Len(writes) \in Nat \ {0}
  <2>1. task = "event_edge" \/ task = "backtest" \/ task = "walk_forward"
    BY <1>2 DEF Ready
  <2>2. CASE task = "event_edge"
    BY <2>2 DEF TaskWrites, EdgeWrites
  <2>3. CASE task = "backtest"
    BY <2>3 DEF TaskWrites, BacktestWrites
  <2>4. CASE task = "walk_forward"
    <3>1. writes = WalkForwardWrites("blocker", clock, verdict)
      BY <2>4 DEF TaskWrites
    <3> QED BY <3>1, WalkForwardLength
  <2> QED BY <2>1, <2>2, <2>3, <2>4
<1>4. torn' = torn /\ lost' = lost /\ run' = run
  BY DEF ExecuteNext
<1>5. clock \in Nat /\ clock + 2 \in Nat /\ clock <= clock + 2 /\ clock <= clock
  BY DEF Inv, StateOK
<1> HIDE DEF writes
<1>6. CASE store' = Appended(First(writes, Len(writes))) /\ clock' = clock
  <2>1. Len(writes) \in 1..Len(writes)
    BY <1>3
  <2>2. Legal(First(writes, Len(writes)), clock)
    BY <1>2, <1>5, <2>1, TaskLegal DEF writes
  <2> QED BY <1>4, <1>5, <1>6, <2>2, AppendKeeps
<1>7. ASSUME clock' = clock + 2, NEW k \in 1..Len(writes) - 1, store' = Appended(First(writes, k))
      PROVE  Inv'
  <2>1. k \in 1..Len(writes)
    BY <1>3
  <2>2. Legal(First(writes, k), clock + 2)
    BY <1>2, <1>5, <2>1, TaskLegal DEF writes
  <2> QED BY <1>4, <1>5, <1>7, <2>2, AppendKeeps
<1> QED BY <1>2, <1>6, <1>7 DEF writes


-----------------------------------------------------------------------------
(* The invariant                                                           *)

LEMMA InvNext ==
  ASSUME Inv, NoneIsApart, [Next]_vars
  PROVE  Inv'
<1>0. lost \in LosableKinds \cup {None} /\ run \in Runs \cup {None}
  BY DEF Inv, StateOK
<1>1. CASE ImportCandle
  BY <1>1, ImportKeeps
<1>2. CASE DeriveEvents
  BY <1>2, DeriveKeeps
<1>3. CASE BuildEvents
  BY <1>3, BuildKeeps
<1>4. CASE BuildReactions
  BY <1>4, ReactKeeps
<1>5. CASE EvidenceByHand
  BY <1>5, ByHandKeeps
<1>6. CASE NewScores
  BY <1>0, <1>6, UnchangedKeeps DEF NewScores
<1>7. CASE RewriteDies
  BY <1>7, CutKeeps
<1>8. CASE ExecuteNext
  BY <1>8, ExecuteKeeps
<1>9. CASE Close
  BY <1>0, <1>9, UnchangedKeeps DEF Close
<1>10. ASSUME NEW findings, HealthCheck(findings)
       PROVE  Inv'
  BY <1>0, <1>10, UnchangedKeeps DEF HealthCheck
<1>11. ASSUME NEW findings, Decide(findings)
       PROVE  Inv'
  BY <1>11, DecideKeeps DEF Decide
<1>12. ASSUME NEW findings, RunOnce(findings)
       PROVE  Inv'
  BY <1>12, DecideKeeps DEF RunOnce
<1>13. CASE LoseFile
  BY <1>0, <1>13, UnchangedKeeps DEF LoseFile
<1>14. CASE RestoreFile
  BY <1>0, <1>14, UnchangedKeeps DEF RestoreFile
<1>15. CASE RecordRun
  BY <1>0, <1>15, UnchangedKeeps DEF RecordRun
<1>16. CASE UNCHANGED vars
  BY <1>0, <1>16, UnchangedKeeps DEF vars
<1> QED BY <1>1, <1>2, <1>3, <1>4, <1>5, <1>6, <1>7, <1>8, <1>9, <1>10, <1>11, <1>12, <1>13,
           <1>14, <1>15, <1>16 DEF Next


LEMMA StartKeeps ==
  ASSUME clock = 0, lost = None, run = None, torn = FALSE,
         NEW start \in Starts, store = [Empty EXCEPT !.candles = Candles(start)]
  PROVE  Inv
<1>1. /\ DOMAIN store = Files
      /\ store["candles"] = Candles(start)
      /\ \A f \in Files \ {"candles"} : store[f] = {}
  BY DEF Empty, Files
<1>2. \A c \in Candles(start) : c.id \in start /\ c.at = 0 /\ c = [id |-> c.id, at |-> 0]
  BY DEF Candles
<1>3. start \subseteq Hours /\ IsFiniteSet(start)
  BY StoresAssumption
<1>4. IsFiniteSet(Candles(start))
  <2> DEFINE g == [h \in start |-> [id |-> h, at |-> 0]]
  <2>1. IsFiniteSet(DOMAIN g) /\ Candles(start) = {g[h] : h \in DOMAIN g}
    BY <1>3 DEF Candles
  <2> HIDE DEF g
  <2> QED BY <2>1, FiniteImage
<1> HIDE DEF Candles
<1>5. \A f \in Files : \A r \in store[f] : f = "candles" /\ r \in Candles(start)
  BY <1>1
<1>6. "candles" \in Files
  BY FileNames
<1>7. StateOK
  BY DEF StateOK
<1>8. FilesOK
  <2>1. \A f \in Files : IsFiniteSet(store[f])
    BY <1>1, <1>4, FS_EmptySet
  <2>2. \A f \in Files : \A q, r \in store[f] : q.id = r.id => q = r
    BY <1>2, <1>5
  <2>3. \A f \in Files \ {"decisions"} : \A r \in store[f] : r.at \in Nat /\ r.at <= clock
    BY <1>2, <1>5
  <2> QED BY <1>1, <2>1, <2>2, <2>3 DEF FilesOK
<1>9. LinksOK
  <2>1. \A r \in Candles(start) : Lasting(store, {}, "candles", r) /\ Passing(store, {}, "candles", r)
    BY <1>2, <1>3 DEF Lasting, Passing
  <2> QED BY <1>5, <2>1 DEF LinksOK
<1>10. WalksOK /\ RunsOK
  <2>1. store["walks"] = {} /\ store["runs"] = {}
    BY <1>1, FileNames
  <2> QED BY <2>1 DEF WalksOK, RunsOK
<1> QED BY <1>7, <1>8, <1>9, <1>10 DEF Inv

LEMMA FullKeeps ==
  ASSUME clock = 0, lost = None, run = None, torn = FALSE,
         NEW m \in Moves, {m - 1, m, m + Horizon} \subseteq Full, store = MadeFrom(Full, m)
  PROVE  Inv
<1> DEFINE id == [context |-> "blocker", at |-> 0]
           inner == [context |-> "window of blocker", at |-> 0]
           hours == {h \in Full : m <= h /\ h <= m + Horizon}
           inputs == [events |-> {<<m, 0>>}, checks |-> {<<<<m, 0>>, 0>>}, hours |-> hours]
           document == [id |-> m, at |-> 0]
           event == [id |-> <<m, 0>>, at |-> 0]
           reaction == [id |-> <<<<m, 0>>, 0>>, at |-> 0, passed |-> TRUE]
           edge == [id |-> 0, at |-> 0, inputs |-> inputs, mark |-> 0, verdict |-> "good"]
           b == [id |-> id, at |-> 0, hours |-> Full]
           bInner == [id |-> inner, at |-> 0, hours |-> Full]
           result == [id |-> id, at |-> 0, verdict |-> "good"]
           rInner == [id |-> inner, at |-> 0, verdict |-> "good"]
           walk == [id |-> id, at |-> 0, first |-> Lowest(Full), last |-> Highest(Full),
                    hours |-> Full, inner |-> inner, verdict |-> "good"]
<1>1. store = [candles |-> Candles(Full), documents |-> {document}, events |-> {event},
               reliability |-> {}, reactions |-> {reaction}, edges |-> {edge},
               runs |-> {b, bInner}, results |-> {result, rInner}, walks |-> {walk},
               decisions |-> {}]
  BY DEF MadeFrom
<1>2. /\ id = [context |-> id.context, at |-> 0] /\ inner = [context |-> inner.context, at |-> 0]
      /\ id.context = "blocker" /\ inner.context # "blocker" /\ id # inner
  <2>1. id.context = "blocker" /\ inner.context = "window of blocker"
    OBVIOUS
  <2> QED BY <2>1
<1>3. /\ document.id = m /\ document.at = 0
      /\ event.id = <<m, 0>> /\ event.at = 0
      /\ reaction.id = <<<<m, 0>>, 0>> /\ reaction.at = 0
  OBVIOUS
<1> HIDE DEF document, event, reaction
<1>4. /\ inputs.events = {<<m, 0>>} /\ inputs.checks = {<<<<m, 0>>, 0>>} /\ inputs.hours = hours
      /\ edge.id = 0 /\ edge.at = 0 /\ edge.inputs = inputs
  OBVIOUS
<1> HIDE DEF inputs, edge, id, inner
<1>5. /\ b.id = id /\ b.at = 0 /\ b.hours = Full
      /\ bInner.id = inner /\ bInner.at = 0 /\ bInner.hours = Full
      /\ result.id = id /\ result.at = 0 /\ rInner.id = inner /\ rInner.at = 0
      /\ walk.id = id /\ walk.at = 0 /\ walk.hours = Full /\ walk.inner = inner
  OBVIOUS
<1> HIDE DEF b, bInner, result, rInner, walk
<1>6. /\ DOMAIN store = Files
      /\ store["candles"] = Candles(Full) /\ store["documents"] = {document}
      /\ store["events"] = {event} /\ store["reliability"] = {} /\ store["reactions"] = {reaction}
      /\ store["edges"] = {edge} /\ store["runs"] = {b, bInner}
      /\ store["results"] = {result, rInner} /\ store["walks"] = {walk}
      /\ store["decisions"] = {}
  <2> DEFINE candles == Candles(Full)
  <2> HIDE DEF candles
  <2>1. store = [candles |-> candles, documents |-> {document}, events |-> {event},
                 reliability |-> {}, reactions |-> {reaction}, edges |-> {edge},
                 runs |-> {b, bInner}, results |-> {result, rInner}, walks |-> {walk},
                 decisions |-> {}]
    BY <1>1 DEF candles
  <2> QED BY <2>1 DEF candles, Files
<1>7. Full \subseteq Hours /\ IsFiniteSet(Full)
  BY StoresAssumption
<1>8. \A c \in Candles(Full) : c.id \in Full /\ c.at = 0 /\ c = [id |-> c.id, at |-> 0]
  BY DEF Candles
<1>9. \A h \in Full : \E c \in Candles(Full) : c.id = h
  <2> TAKE h \in Full
  <2>1. [id |-> h, at |-> 0] \in Candles(Full) /\ [id |-> h, at |-> 0].id = h
    BY DEF Candles
  <2> QED BY <2>1
<1>10. IsFiniteSet(Candles(Full))
  <2> DEFINE g == [h \in Full |-> [id |-> h, at |-> 0]]
  <2>1. IsFiniteSet(DOMAIN g) /\ Candles(Full) = {g[h] : h \in DOMAIN g}
    BY <1>7 DEF Candles
  <2> HIDE DEF g
  <2> QED BY <2>1, FiniteImage
<1>11. \A f \in Files :
         f \in {"candles", "documents", "events", "reliability", "reactions", "edges", "runs",
                "results", "walks", "decisions"}
  BY FileNames
<1>12. StateOK
  BY DEF StateOK
<1>13. FilesOK
  <2>1. \A f \in Files : IsFiniteSet(store[f])
    <3>1. \A x, y : IsFiniteSet({x, y})
      <4> TAKE x, y
      <4>1. IsFiniteSet({x}) /\ {x, y} = {x} \cup {y}
        BY FS_Singleton
      <4> QED BY <4>1, FS_AddElement
    <3> TAKE f \in Files
    <3>2. CASE f \in {"reliability", "decisions"}
      BY <1>6, <3>2, FS_EmptySet
    <3>3. CASE f = "candles"
      BY <1>6, <1>10, <3>3
    <3>4. CASE f \in {"runs", "results"}
      <4>1. IsFiniteSet({b, bInner}) /\ IsFiniteSet({result, rInner})
        BY <3>1
      <4>2. store["runs"] = {b, bInner} /\ store["results"] = {result, rInner}
        BY <1>6
      <4>3. IsFiniteSet(store["runs"]) /\ IsFiniteSet(store["results"])
        BY <4>1, <4>2, Zenon
      <4> QED BY <3>4, <4>3
    <3>5. CASE f \in {"documents", "events", "reactions", "edges", "walks"}
      <4>1. \E x : store[f] = {x}
        BY <1>6, <3>5
      <4> QED BY <4>1, FS_Singleton
    <3> QED BY <1>11, <3>2, <3>3, <3>4, <3>5
  <2>2. \A f \in Files : \A q, r \in store[f] : q.id = r.id => q = r
    <3>1. ASSUME NEW q \in store["candles"], NEW r \in store["candles"], q.id = r.id PROVE q = r
      BY <1>6, <1>8, <3>1
    <3>2. ASSUME NEW q \in store["runs"], NEW r \in store["runs"], q.id = r.id PROVE q = r
      BY <1>2, <1>5, <1>6, <3>2
    <3>3. ASSUME NEW q \in store["results"], NEW r \in store["results"], q.id = r.id PROVE q = r
      BY <1>2, <1>5, <1>6, <3>3
    <3>4. ASSUME NEW f \in {"documents", "events", "reliability", "reactions", "edges", "walks", "decisions"},
                 NEW q \in store[f], NEW r \in store[f]
          PROVE  q = r
      BY <1>6
    <3> QED BY <1>11, <3>1, <3>2, <3>3, <3>4
  <2>3. \A f \in Files \ {"decisions"} : \A r \in store[f] : r.at \in Nat /\ r.at <= clock
    BY <1>3, <1>4, <1>5, <1>6, <1>8, <1>11
  <2> QED BY <1>6, <2>1, <2>2, <2>3 DEF FilesOK
<1>14. LinksOK
  <2>1. \A r \in store["candles"] : Lasting(store, {}, "candles", r) /\ Passing(store, {}, "candles", r)
    BY <1>6, <1>7, <1>8 DEF Lasting, Passing
  <2>2. Lasting(store, {}, "documents", document) /\ Passing(store, {}, "documents", document)
    BY DEF Lasting, Passing
  <2>3. Lasting(store, {}, "events", event) /\ Passing(store, {}, "events", event)
    <3>1. event.id[1] = m
      BY <1>3
    <3>2. Found(store, {}, "documents", event.id[1])
      BY <1>3, <1>6, <3>1 DEF Found, Has
    <3> QED BY <3>2, PassingOf DEF Lasting
  <2>4. Lasting(store, {}, "reactions", reaction) /\ Passing(store, {}, "reactions", reaction)
    <3>1. reaction.id[1] = <<m, 0>>
      BY <1>3
    <3>2. Found(store, {}, "events", reaction.id[1])
      BY <1>3, <1>6, <3>1 DEF Found, Has
    <3> QED BY <3>2, PassingOf DEF Lasting
  <2>5. \A h \in Full : Found(store, {}, "candles", h)
    BY <1>6, <1>9 DEF Found, Has
  <2>6. Lasting(store, {}, "edges", edge) /\ Passing(store, {}, "edges", edge)
    <3>1. \A x \in edge.inputs.events : Found(store, {}, "events", x)
      BY <1>3, <1>4, <1>6 DEF Found, Has
    <3>2. \A x \in edge.inputs.checks : Found(store, {}, "reactions", x)
      BY <1>3, <1>4, <1>6 DEF Found, Has
    <3>3. \A h \in edge.inputs.hours : Found(store, {}, "candles", h)
      BY <1>4, <2>5
    <3> QED BY <1>4, <3>1, <3>2, <3>3 DEF Lasting, Passing
  <2>7. Lasting(store, {}, "runs", b) /\ Lasting(store, {}, "runs", bInner)
    BY <1>2, <1>5, <2>5 DEF Lasting
  <2>8. Lasting(store, {}, "results", result) /\ Lasting(store, {}, "results", rInner)
    <3>1. Found(store, {}, "runs", id) /\ Found(store, {}, "runs", inner)
      BY <1>5, <1>6 DEF Found, Has
    <3> QED BY <1>2, <1>5, <3>1 DEF Lasting
  <2>9. Lasting(store, {}, "walks", walk)
    <3>1. Found(store, {}, "results", inner)
      BY <1>5, <1>6 DEF Found, Has
    <3> QED BY <1>2, <1>5, <3>1 DEF Lasting
  <2>10. \A f \in {"runs", "results", "walks"} : \A r : Passing(store, {}, f, r)
    BY PassingOf
  <2> QED BY <1>6, <1>11, <2>1, <2>2, <2>3, <2>4, <2>6, <2>7, <2>8, <2>9, <2>10 DEF LinksOK
<1>15. WalksOK
  BY <1>6, <1>8 DEF WalksOK
<1>16. RunsOK
  BY <1>5, <1>6 DEF RunsOK
<1> QED BY <1>12, <1>13, <1>14, <1>15, <1>16 DEF Inv

LEMMA InitInv == Init => Inv
<1> SUFFICES ASSUME Init PROVE Inv
  OBVIOUS
<1>1. clock = 0 /\ lost = None /\ run = None /\ torn = FALSE
  BY DEF Init
<1>2. \/ \E start \in Starts : store = [Empty EXCEPT !.candles = Candles(start)]
      \/ \E m \in Moves : {m - 1, m, m + Horizon} \subseteq Full /\ store = MadeFrom(Full, m)
  BY DEF Init
<1> QED BY <1>1, <1>2, StartKeeps, FullKeeps

LEMMA InvAlways == NoneIsApart => (Spec => []Inv)
<1>1. NoneIsApart /\ Inv /\ [Next]_vars => Inv'
  BY InvNext
<1> SUFFICES ASSUME NoneIsApart PROVE Spec => []Inv
  OBVIOUS
<1> HIDE DEF NoneIsApart
<1>2. Inv /\ [Next]_vars => Inv'
  BY <1>1
<1> QED BY InitInv, <1>2, PTL DEF Spec



-----------------------------------------------------------------------------
(* The plan and the decision                                               *)

\* The last candle came at the highest of the candles' times.
LEMMA CandleTimes ==
  ASSUME Inv
  PROVE  /\ \A c \in store.candles : c.at <= CandlesAt
         /\ store.candles # {} => \E c \in store.candles : c.at = CandlesAt
<1> DEFINE time == [c \in store["candles"] |-> c.at]
           times == {time[c] : c \in DOMAIN time}
<1>1. \A c \in store["candles"] : c.at \in Nat
  BY FileNames DEF Inv, FilesOK
<1>2. IsFiniteSet(times)
  <2>1. IsFiniteSet(DOMAIN time)
    BY FileNames DEF Inv, FilesOK
  <2> HIDE DEF time
  <2> QED BY <2>1, FiniteImage
<1>3. times \in SUBSET Int
  <2>1. \A c \in DOMAIN time : time[c] \in Int
    BY <1>1
  <2> HIDE DEF time
  <2> QED BY <2>1
<1>4. CandlesAt = Highest(times)
  BY DEF CandlesAt
<1>5. \A c \in store["candles"] : c.at \in times
  <2>1. \A c \in store["candles"] : c \in DOMAIN time /\ time[c] = c.at
    OBVIOUS
  <2> QED BY <2>1
<1>9. \A t \in times : \E c \in store["candles"] : c.at = t
  OBVIOUS
<1> HIDE DEF times
<1> SUFFICES ASSUME NEW c \in store["candles"]
             PROVE  c.at <= CandlesAt /\ \E d \in store["candles"] : d.at = CandlesAt
  OBVIOUS
<1>6. PICK t \in times : \A u \in times : t >= u
  BY <1>2, <1>3, <1>5, Greatest
<1>7. \E s \in times : \A u \in times : u <= s
  BY <1>3, <1>6
<1>8. Highest(times) \in times /\ \A u \in times : u <= Highest(times)
  BY <1>7 DEF Highest
<1> QED BY <1>4, <1>5, <1>9, <1>8

\* The row of an id is the one that has it.
LEMMA RowOf ==
  ASSUME Inv, NEW f \in Files, NEW id, OnFile(f, id)
  PROVE  /\ Row(f, id) \in store[f] /\ Row(f, id).id = id
         /\ \A r \in store[f] : r.id = id => r = Row(f, id)
<1>1. Row(f, id) \in store[f] /\ Row(f, id).id = id
  BY DEF OnFile, Row
<1> QED BY <1>1 DEF Inv, FilesOK

\* What a plan calls complete is current.
LEMMA PlanFacts ==
  ASSUME Inv, NoneIsApart, NEW plan \in Plans
  PROVE  /\ plan.backtest # None =>
              /\ plan.backtest \in store.results /\ BacktestCurrent(plan.backtest)
              /\ \A r \in store.results : BacktestCurrent(r) => r.at <= plan.backtest.at
         /\ plan.walk_forward # None =>
              plan.walk_forward \in store.walks /\ WalkForwardCurrent(plan.walk_forward)
         /\ plan.event_edge # None =>
              plan.event_edge \in store.edges /\ plan.event_edge.inputs = EdgeInputs
<1>1. /\ plan.event_edge = CurrentEdge(EdgeInputs)
      /\ plan.backtest = CurrentBacktest /\ plan.walk_forward = CurrentWalkForward
  BY DEF Plans
<1>2. ASSUME plan.backtest # None
      PROVE  /\ plan.backtest \in store.results /\ BacktestCurrent(plan.backtest)
             /\ \A r \in store.results : BacktestCurrent(r) => r.at <= plan.backtest.at
  <2> DEFINE rows == {r \in store.results : BacktestCurrent(r)}
  <2>1. plan.backtest = Latest(rows)
    BY <1>1, <1>2 DEF CurrentBacktest
  <2>2. rows \in SUBSET store["results"]
    OBVIOUS
  <2>3. \A r : r \in rows <=> r \in store.results /\ BacktestCurrent(r)
    OBVIOUS
  <2> HIDE DEF rows
  <2>4. plan.backtest \in rows /\ \A q \in rows : q.at <= plan.backtest.at
    BY <1>2, <2>1, <2>2, LatestOf, FileNames
  <2> QED BY <2>3, <2>4
<1>3. ASSUME plan.walk_forward # None
      PROVE  plan.walk_forward \in store.walks /\ WalkForwardCurrent(plan.walk_forward)
  <2> DEFINE rows == {w \in store.walks : WalkForwardCurrent(w)}
  <2>1. plan.walk_forward = Latest(rows)
    BY <1>1, <1>3 DEF CurrentWalkForward
  <2>2. rows \in SUBSET store["walks"]
    OBVIOUS
  <2>3. \A w \in rows : w \in store.walks /\ WalkForwardCurrent(w)
    OBVIOUS
  <2> HIDE DEF rows
  <2>4. plan.walk_forward \in rows
    BY <1>3, <2>1, <2>2, LatestOf, FileNames
  <2> QED BY <2>3, <2>4
<1>4. ASSUME plan.event_edge # None
      PROVE  plan.event_edge \in store.edges /\ plan.event_edge.inputs = EdgeInputs
  <2> DEFINE rows == {e \in store.edges : EdgeCurrent(e, EdgeInputs)}
  <2>1. plan.event_edge = Latest(rows)
    BY <1>1, <1>4 DEF CurrentEdge
  <2>2. rows \in SUBSET store["edges"]
    OBVIOUS
  <2>3. \A e \in rows : e \in store.edges /\ e.inputs = EdgeInputs
    BY DEF EdgeCurrent
  <2> HIDE DEF rows
  <2>4. plan.event_edge \in rows
    BY <1>4, <2>1, <2>2, LatestOf, FileNames
  <2> QED BY <2>3, <2>4
<1> QED BY <1>2, <1>3, <1>4

LEMMA CompleteIsCurrent ==
  ASSUME Inv, NoneIsApart
  PROVE  CompletedIsCurrent
<1> SUFFICES ASSUME NEW plan \in Plans
             PROVE  /\ plan.backtest # None => Row("runs", plan.backtest.id).hours = CandleHours
                    /\ plan.walk_forward # None /\ plan.walk_forward.hours # CandleHours
                       => \A h \in CandleHours \ plan.walk_forward.hours : Row("candles", h).at = 0
                    /\ plan.event_edge # None
                       => \A v \in store.events : Sampled(v) <=> v.id \in plan.event_edge.inputs.events
  BY DEF CompletedIsCurrent
<1>1. plan.backtest # None => Row("runs", plan.backtest.id).hours = CandleHours
  BY PlanFacts DEF BacktestCurrent
<1>2. ASSUME plan.walk_forward # None, NEW h \in CandleHours \ plan.walk_forward.hours
      PROVE  Row("candles", h).at = 0
  <2> DEFINE w == plan.walk_forward
             c == Row("candles", h)
  <2>1. w \in store["walks"] /\ w.at >= CandlesAt
    BY <1>2, PlanFacts DEF WalkForwardCurrent
  <2>2. OnFile("candles", h)
    BY DEF CandleHours, OnFile
  <2>3. c \in store["candles"] /\ c.id = h
    BY <2>2, RowOf, FileNames
  <2>4. h \in w.hours \/ c.at = 0 \/ c.at > w.at
    BY <2>1, <2>3 DEF Inv, WalksOK
  <2>5. c.at <= CandlesAt
    BY <2>3, CandleTimes
  <2>6. c.at \in Nat /\ w.at \in Nat
    BY <2>1, <2>3, FileNames DEF Inv, FilesOK
  <2>7. \E u \in store["candles"] : u.at = CandlesAt
    BY <2>3, CandleTimes
  <2>8. CandlesAt \in Nat
    BY <2>7, FileNames DEF Inv, FilesOK
  <2> HIDE DEF w, c
  <2>9. h \notin w.hours
    BY <1>2 DEF w
  <2> QED BY <2>1, <2>4, <2>5, <2>6, <2>8, <2>9 DEF c
<1>3. ASSUME plan.event_edge # None, NEW v \in store.events
      PROVE  Sampled(v) <=> v.id \in plan.event_edge.inputs.events
  <2>1. plan.event_edge.inputs.events = {u.id : u \in {x \in store.events : Sampled(x)}}
    <3>1. plan.event_edge.inputs = EdgeInputs
      BY <1>3, PlanFacts
    <3>2. EdgeInputs.events = {u.id : u \in {x \in store.events : Sampled(x)}}
      BY DEF EdgeInputs
    <3> QED BY <3>1, <3>2
  <2>2. \A u \in store["events"] : u.id = v.id => u = v
    BY FileNames DEF Inv, FilesOK
  <2> QED BY <2>1, <2>2
<1> QED BY <1>1, <1>2, <1>3

\* Evidence that the plan calls complete was made from the candles now on file and
\* from the events whose latest reaction passed; candles that a validation has not
\* seen came with an old import time (CompletedIsCurrent; _latest_matching_* of
\* decision_research_plan.py).
THEOREM CompletedIsCurrentAlways == NoneIsApart => (Spec => []CompletedIsCurrent)
<1> SUFFICES ASSUME NoneIsApart PROVE Spec => []CompletedIsCurrent
  OBVIOUS
<1>1. Inv => CompletedIsCurrent
  BY CompleteIsCurrent
<1>2. Spec => []Inv
  BY InvAlways
<1> QED BY <1>1, <1>2, PTL


\* Only a decision changes the latest decision.
LEMMA DecidersOnly ==
  ASSUME [Next]_vars, decision' # decision
  PROVE  \E findings \in {Findings} : Decides(findings)
BY DEF Next, vars, ImportCandle, DeriveEvents, BuildEvents, BuildReactions, EvidenceByHand, Bring,
       NewScores, RewriteDies, ExecuteNext, Close, HealthCheck, Decide, RunOnce, LoseFile,
       RestoreFile, RecordRun

\* What a decision reads when the store is whole.
LEMMA Reads ==
  ASSUME Inv, NoneIsApart, NEW plan \in Plans
  PROVE  /\ plan.backtest # None => IdOf(LatestBacktest) = plan.backtest.id
         /\ plan.walk_forward # None => At("walks", IdOf(LatestWalkForward)) >= plan.walk_forward.at
         /\ plan.event_edge # None => At("edges", IdOf(LatestEdge)) >= plan.event_edge.at
<1>1. ASSUME plan.backtest # None
      PROVE  IdOf(LatestBacktest) = plan.backtest.id
  <2> DEFINE marked == {r \in store.results : OnFile("runs", r.id) /\ r.id.context = "blocker"}
             p == plan.backtest
             l == LatestBacktest
             b == Row("runs", p.id)
             d == Row("runs", l.id)
  <2>1. /\ p \in store["results"] /\ BacktestCurrent(p)
        /\ \A r \in store.results : BacktestCurrent(r) => r.at <= p.at
    BY <1>1, PlanFacts
  <2>2. p \in marked
    BY <2>1 DEF BacktestCurrent
  <2>3. l \in marked /\ l.at \in Nat /\ p.at <= l.at /\ l # None
    <3>1. l = Latest(marked)
      BY <2>2 DEF LatestBacktest
    <3>2. marked \in SUBSET store["results"]
      OBVIOUS
    <3> HIDE DEF marked, l
    <3> QED BY <2>2, <3>1, <3>2, LatestOf, FileNames
  <2>4. /\ l \in store["results"] /\ OnFile("runs", l.id) /\ l.id.context = "blocker"
        /\ OnFile("runs", p.id) /\ p.id.context = "blocker"
    BY <2>2, <2>3
  <2> HIDE DEF marked, p, l
  <2>5. /\ b \in store["runs"] /\ b.id = p.id /\ d \in store["runs"] /\ d.id = l.id
    BY <2>4, RowOf, FileNames
  <2>6. /\ b.id = [context |-> b.id.context, at |-> b.at] /\ d.id = [context |-> d.id.context, at |-> d.at]
        /\ \A h \in d.hours : Found(store, {}, "candles", h)
    BY <2>5, FileNames DEF Inv, LinksOK, Lasting
  <2>7. p.id = [context |-> p.id.context, at |-> p.at] /\ l.id = [context |-> l.id.context, at |-> l.at]
    BY <2>1, <2>4, FileNames DEF Inv, LinksOK, Lasting
  <2> HIDE DEF b, d
  <2>8. b.at = p.at /\ d.at = l.at
    <3>1. b.id.at = b.at /\ p.id.at = p.at /\ d.id.at = d.at /\ l.id.at = l.at
      BY <2>6, <2>7
    <3> QED BY <2>5, <3>1
  <2>9. b.hours = CandleHours /\ p.at >= CandlesAt
    BY <2>1 DEF BacktestCurrent, b
  <2>10. b.hours \subseteq d.hours
    BY <2>3, <2>4, <2>5, <2>8 DEF Inv, RunsOK
  <2>11. d.hours = CandleHours
    <3>1. d.hours \subseteq CandleHours
      BY <2>6 DEF Found, Has, CandleHours
    <3> QED BY <2>9, <2>10, <3>1
  <2>12. p.at \in Nat /\ CandlesAt \in Nat => l.at >= CandlesAt
    BY <2>3, <2>9
  <2>13. p.at \in Nat
    BY <2>1, FileNames DEF Inv, FilesOK
  <2>14. BacktestCurrent(l)
    <3>1. CandlesAt \in Nat \/ store["candles"] = {}
      <4>1. store.candles # {} => \E c \in store.candles : c.at = CandlesAt
        BY CandleTimes
      <4> QED BY <4>1, FileNames DEF Inv, FilesOK
    <3>2. store["candles"] # {}
      <4>1. EnoughCandles
        BY <1>1 DEF Plans, CurrentBacktest
      <4>2. CandleHours # {}
        BY <4>1, CandlesAssumption, FS_EmptySet DEF EnoughCandles
      <4> QED BY <4>2 DEF CandleHours
    <3> QED BY <2>4, <2>11, <2>12, <2>13, <3>1, <3>2 DEF BacktestCurrent, d
  <2>15. l.at = p.at
    BY <2>1, <2>3, <2>4, <2>13, <2>14
  <2>16. l.id = p.id
    BY <2>4, <2>7, <2>15
  <2> QED BY <2>3, <2>16 DEF IdOf, l, p
<1>2. ASSUME plan.walk_forward # None
      PROVE  At("walks", IdOf(LatestWalkForward)) >= plan.walk_forward.at
  <2> DEFINE l == LatestWalkForward
  <2>1. plan.walk_forward \in store["walks"]
    BY <1>2, PlanFacts
  <2>2. l \in store["walks"] /\ l # None /\ l.at >= plan.walk_forward.at
    <3>1. l = Latest(store["walks"])
      BY DEF LatestWalkForward
    <3>2. store["walks"] \in SUBSET store["walks"] /\ store["walks"] # {}
      BY <2>1
    <3> HIDE DEF l
    <3>3. l \in store["walks"] /\ l # None /\ plan.walk_forward.at <= l.at
      BY <2>1, <3>1, <3>2, LatestOf, FileNames
    <3>4. l.at \in Nat /\ plan.walk_forward.at \in Nat
      BY <2>1, <3>3, FileNames DEF Inv, FilesOK
    <3> QED BY <3>3, <3>4
  <2> HIDE DEF l
  <2>3. l.id = [context |-> l.id.context, at |-> l.at]
    BY <2>2, FileNames DEF Inv, LinksOK, Lasting
  <2>4. l.id # None
    <3>1. l.id = [context |-> l.id.context, at |-> l.id.at]
      BY <2>3
    <3> QED BY <3>1 DEF NoneIsApart
  <2>5. Row("walks", l.id) = l
    <3>1. OnFile("walks", l.id)
      BY <2>2 DEF OnFile
    <3> QED BY <2>2, <3>1, RowOf, FileNames
  <2>6. IdOf(LatestWalkForward) = l.id
    BY <2>2 DEF IdOf, l
  <2> QED BY <2>2, <2>4, <2>5, <2>6 DEF At
<1>3. ASSUME plan.event_edge # None
      PROVE  At("edges", IdOf(LatestEdge)) >= plan.event_edge.at
  <2> DEFINE l == LatestEdge
  <2>1. plan.event_edge \in store["edges"]
    BY <1>3, PlanFacts
  <2>2. l \in store["edges"] /\ l # None /\ l.at >= plan.event_edge.at
    <3>1. l = Latest(store["edges"])
      BY DEF LatestEdge
    <3>2. store["edges"] \in SUBSET store["edges"] /\ store["edges"] # {}
      BY <2>1
    <3> HIDE DEF l
    <3>3. l \in store["edges"] /\ l # None /\ plan.event_edge.at <= l.at
      BY <2>1, <3>1, <3>2, LatestOf, FileNames
    <3>4. l.at \in Nat /\ plan.event_edge.at \in Nat
      BY <2>1, <3>3, FileNames DEF Inv, FilesOK
    <3> QED BY <3>3, <3>4
  <2> HIDE DEF l
  <2>3. l.id \in Nat
    BY <2>2, FileNames DEF Inv, LinksOK, Lasting
  <2>4. l.id # None
    BY <2>3 DEF NoneIsApart
  <2>5. Row("edges", l.id) = l
    <3>1. OnFile("edges", l.id)
      BY <2>2 DEF OnFile
    <3> QED BY <2>2, <3>1, RowOf, FileNames
  <2>6. IdOf(LatestEdge) = l.id
    BY <2>2 DEF IdOf, l
  <2> QED BY <2>2, <2>4, <2>5, <2>6 DEF At
<1> QED BY <1>1, <1>2, <1>3

\* A decision made on a whole store rests on the evidence that the plan calls complete
\* (DecisionReadsThePlan; _latest_* of decision.py beside those of
\* decision_research_plan.py).
THEOREM DecisionReadsThePlanAlways == NoneIsApart => (Spec => DecisionReadsThePlan)
<1> SUFFICES ASSUME NoneIsApart PROVE Spec => DecisionReadsThePlan
  OBVIOUS
<1> DEFINE Reading ==
      decision' # decision /\ ~decision'.closed
      => \A plan \in Plans :
           /\ plan.backtest # None => decision'.bt = plan.backtest.id
           /\ plan.walk_forward # None => At("walks", decision'.wf) >= plan.walk_forward.at
           /\ plan.event_edge # None => At("edges", decision'.ee) >= plan.event_edge.at
<1>1. Inv /\ [Next]_vars => [Reading]_vars
  <2> SUFFICES ASSUME Inv, [Next]_vars, decision' # decision, ~decision'.closed, NEW plan \in Plans
               PROVE  /\ plan.backtest # None => decision'.bt = plan.backtest.id
                      /\ plan.walk_forward # None => At("walks", decision'.wf) >= plan.walk_forward.at
                      /\ plan.event_edge # None => At("edges", decision'.ee) >= plan.event_edge.at
    OBVIOUS
  <2>1. \E findings : Decides(findings)
    BY DecidersOnly
  <2>2. PICK findings : Decides(findings)
    BY <2>1
  <2>3. findings = {}
    BY <2>2 DEF Decides, FailClosed
  <2>4. /\ decision'.bt = IdOf(LatestBacktest) /\ decision'.wf = IdOf(LatestWalkForward)
        /\ decision'.ee = IdOf(LatestEdge)
    BY <2>2, <2>3 DEF Decides, Judged
  <2> QED BY <2>4, Reads
<1>2. Spec => []Inv
  BY InvAlways
<1>3. DecisionReadsThePlan <=> [][Reading]_vars
  BY DEF DecisionReadsThePlan
<1> HIDE DEF Reading
<1> QED BY <1>1, <1>2, <1>3, PTL DEF Spec



-----------------------------------------------------------------------------
(* The artifacts' fields                                                   *)

\* What holds of every field of an artifact: the health check follows it or is known
\* not to; it names artifacts that there are, no digest, and, if it is followed, an
\* autopilot run only if it is a digest's.
Sound(kind, field, names) ==
  /\ <<kind, field>> \in Links \cup Unwatched
  /\ names \subseteq Kinds \ {"strategy_research_digest"}
  /\ "research_autopilot_run" \in names =>
       kind = "strategy_research_digest" \/ <<kind, field>> \notin Links

LEMMA KindNames ==
  {"forecast", "forecast_score", "review", "proposal", "evaluation_summary", "baseline_evaluation",
   "strategy_decision", "research_dataset", "market_candle", "backtest_run", "backtest_result",
   "walk_forward_validation", "strategy_card", "experiment_budget", "experiment_trial",
   "split_manifest", "cost_model_snapshot", "locked_evaluation_result", "leaderboard_entry",
   "paper_shadow_outcome", "research_agenda", "research_autopilot_run", "strategy_research_digest",
   "source_registry_entry", "source_document", "source_ingestion_run", "canonical_event",
   "event_reliability_check", "market_reaction_check", "event_edge_evaluation",
   "feature_snapshot", "replay_summary", "superseded_digest"} \subseteq Kinds
BY DEF Kinds, Tables, ForecastSchema, SummarySchema, DecisionSchema, DatasetSchema, BacktestSchema,
       WalkForwardSchema, CardSchema, TrialSchema, SplitSchema, EvaluationSchema, EntrySchema,
       AgendaSchema, DigestSchema, DocumentSchema, EventSchema, EdgeSchema

\* A digest that another supersedes is not looked at.
LEMMA SupersededPassedOver ==
  ASSUME NEW field
  PROVE  <<"superseded_digest", field>> \notin Links
BY DEF Links, ForecastLinks, DecisionLinks, DecisionBasisLinks, DigestLinks, SummaryLinks, DatasetLinks,
       DocumentLinks, EventLinks, EdgeLinks, BacktestLinks, CardLinks, TrialLinks, EvaluationLinks,
       EntryLinks, OutcomeLinks, AgendaLinks, AutopilotLinks

LEMMA FieldsSound ==
  \A table \in Tables : \A kind \in DOMAIN table : \A field \in DOMAIN table[kind] :
    Sound(kind, field, table[kind][field])
<1> DEFINE All(table) ==
      \A kind \in DOMAIN table : \A field \in DOMAIN table[kind] :
        Sound(kind, field, table[kind][field])
<1> USE KindNames DEF Links, Unwatched, Sound
<1>1. All(ForecastSchema)
  BY DEF ForecastSchema, ForecastLinks
<1>2. All(SummarySchema)
  BY DEF SummarySchema, SummaryFields, SummaryLinks, ForecastLinks
<1>3. All(DecisionSchema)
  BY DEF DecisionSchema, DecisionLinks, DecisionBasisLinks
<1>4. All(DatasetSchema)
  BY DEF DatasetSchema, DatasetLinks
<1>5. All(BacktestSchema)
  BY DEF BacktestSchema, BacktestLinks
<1>6. All(WalkForwardSchema)
  BY DEF WalkForwardSchema, BacktestLinks
<1>7. All(CardSchema)
  BY DEF CardSchema, CardLinks
<1>8. All(TrialSchema)
  BY DEF TrialSchema, TrialLinks
<1>9. All(SplitSchema)
  BY DEF SplitSchema, TrialLinks
<1>10. All(EvaluationSchema)
  BY DEF EvaluationSchema, EvaluationLinks
<1>11. All(EntrySchema)
  BY DEF EntrySchema, EntryLinks, OutcomeLinks
<1>12. All(AgendaSchema)
  BY DEF AgendaSchema, AgendaLinks, AutopilotLinks
<1>13. All(DigestSchema)
  BY SupersededPassedOver DEF DigestSchema, DigestFields, DigestLinks
<1>14. All(DocumentSchema)
  BY DEF DocumentSchema, DocumentLinks
<1>15. All(EventSchema)
  BY DEF EventSchema, EventLinks
<1>16. All(EdgeSchema)
  BY DEF EdgeSchema, EdgeLinks
<1> HIDE DEF All
<1>17. \A table \in Tables : All(table)
  BY <1>1, <1>2, <1>3, <1>4, <1>5, <1>6, <1>7, <1>8, <1>9, <1>10, <1>11, <1>12, <1>13, <1>14,
         <1>15, <1>16 DEF Tables
<1> QED BY <1>17 DEF All

LEMMA SchemaOf ==
  ASSUME NEW kind \in Kinds
  PROVE  \E table \in Tables : kind \in DOMAIN table /\ Schema[kind] = table[kind]
BY DEF Schema, Kinds

LEMMA SchemaSound ==
  ASSUME NEW kind \in Kinds, NEW field \in DOMAIN Schema[kind]
  PROVE  Sound(kind, field, Schema[kind][field])
BY SchemaOf, FieldsSound

\* The kinds whose rows are compared with others, and their fields.
LEMMA ComparedSchemas ==
  /\ Schema["experiment_trial"] = TrialSchema["experiment_trial"]
  /\ Schema["locked_evaluation_result"] = EvaluationSchema["locked_evaluation_result"]
  /\ Schema["leaderboard_entry"] = EntrySchema["leaderboard_entry"]
  /\ Schema["paper_shadow_outcome"] = EntrySchema["paper_shadow_outcome"]
  /\ Schema["research_agenda"] = AgendaSchema["research_agenda"]
  /\ Schema["research_autopilot_run"] = AgendaSchema["research_autopilot_run"]
  /\ Schema["strategy_research_digest"] = DigestFields
<1>1. \A table \in Tables :
        /\ "experiment_trial" \in DOMAIN table => table = TrialSchema
        /\ "locked_evaluation_result" \in DOMAIN table => table = EvaluationSchema
        /\ "leaderboard_entry" \in DOMAIN table => table = EntrySchema
        /\ "paper_shadow_outcome" \in DOMAIN table => table = EntrySchema
        /\ "research_agenda" \in DOMAIN table => table = AgendaSchema
        /\ "research_autopilot_run" \in DOMAIN table => table = AgendaSchema
        /\ "strategy_research_digest" \in DOMAIN table => table = DigestSchema
  BY DEF Tables, ForecastSchema, SummarySchema, DecisionSchema, DatasetSchema, BacktestSchema,
         WalkForwardSchema, CardSchema, TrialSchema, SplitSchema, EvaluationSchema, EntrySchema,
         AgendaSchema, DigestSchema, DocumentSchema, EventSchema, EdgeSchema
<1>2. {"experiment_trial", "locked_evaluation_result", "leaderboard_entry", "paper_shadow_outcome",
       "research_agenda", "research_autopilot_run", "strategy_research_digest"} \subseteq Kinds
  BY KindNames
<1> QED BY <1>1, <1>2, SchemaOf DEF DigestSchema

\* What a row and a row it names say of a third is the same.
LEMMA SchemasAgree ==
  ASSUME NEW a \in OutcomeAgreements \cup AutopilotAgreements
  PROVE  /\ a.kind \in {"paper_shadow_outcome", "research_autopilot_run"}
         /\ a.via \in DOMAIN Schema[a.kind] /\ a.own \in DOMAIN Schema[a.kind]
         /\ a.via # "agenda_id" /\ a.own # "agenda_id"
         /\ \A k \in Schema[a.kind][a.via] :
              /\ k \in {"experiment_trial", "locked_evaluation_result", "leaderboard_entry",
                        "paper_shadow_outcome"}
              /\ a.theirs \in DOMAIN Schema[k]
              /\ Schema[a.kind][a.own] \subseteq Schema[k][a.theirs]
<1> USE ComparedSchemas DEF TrialSchema, EvaluationSchema, EntrySchema, AgendaSchema, Agreement
<1>1. CASE a \in OutcomeAgreements
  BY <1>1 DEF OutcomeAgreements
<1>2. CASE a \in AutopilotAgreements
  BY <1>2 DEF AutopilotAgreements
<1> QED BY <1>1, <1>2

-----------------------------------------------------------------------------
(* The other symbol's chain                                                *)

\* A field of a row names one row of each of its kinds: the first, but for the agendas
\* that name the second card.
Exact(row, field) ==
  \A id : id \in row.refs[field] <=>
            \E k \in Schema[row.kind][field] : id = <<k, Named(row.kind, row.id[2])>>

LEMMA BackdropRowFacts ==
  ASSUME NEW kind \in Kinds, NEW key \in 0..2
  PROVE  /\ BackdropRow(kind, key).kind = kind /\ BackdropRow(kind, key).id = <<kind, key>>
         /\ key = 0 => BackdropRow(kind, key).refusals = {}
         /\ key = 1 => BackdropRow(kind, key).refusals = {"not_tradeable", "blocked"}
         /\ key = 2 => BackdropRow(kind, key).refusals = {"fail_closed"}
         /\ BackdropRow(kind, key).lineage = (key = 1)
         /\ key = 0 => BackdropRow(kind, key).root = {<<"strategy_card", 1>>}
         /\ DOMAIN BackdropRow(kind, key).refs = DOMAIN Schema[kind]
         /\ \A field \in DOMAIN Schema[kind] : Exact(BackdropRow(kind, key), field)
<1> DEFINE refs == [field \in DOMAIN Schema[kind] |-> {<<k, Named(kind, key)>> : k \in Schema[kind][field]}]
           refusals ==
             CASE key = 0 -> {} [] key = 1 -> {"not_tradeable", "blocked"} [] key = 2 -> {"fail_closed"}
           root == IF key = 0 THEN {<<"strategy_card", 1>>} ELSE {}
<1>1. BackdropRow(kind, key) = [kind |-> kind, id |-> <<kind, key>>, refs |-> refs, refusals |-> refusals,
                                lineage |-> key = 1, root |-> root]
  BY DEF BackdropRow
<1>2. /\ DOMAIN refs = DOMAIN Schema[kind]
      /\ \A field \in DOMAIN Schema[kind] :
           \A id : id \in refs[field] <=> \E k \in Schema[kind][field] : id = <<k, Named(kind, key)>>
  OBVIOUS
<1>3. /\ key = 0 => refusals = {}
      /\ key = 1 => refusals = {"not_tradeable", "blocked"}
      /\ key = 2 => refusals = {"fail_closed"}
      /\ key = 0 => root = {<<"strategy_card", 1>>}
  OBVIOUS
<1> HIDE DEF refs, refusals, root
<1>4. /\ BackdropRow(kind, key).kind = kind /\ BackdropRow(kind, key).id = <<kind, key>>
      /\ BackdropRow(kind, key).refusals = refusals /\ BackdropRow(kind, key).root = root
      /\ BackdropRow(kind, key).lineage = (key = 1) /\ BackdropRow(kind, key).refs = refs
  BY <1>1
<1>5. \A field \in DOMAIN Schema[kind] : Exact(BackdropRow(kind, key), field)
  BY <1>2, <1>4 DEF Exact
<1> QED BY <1>2, <1>3, <1>4, <1>5

LEMMA RunRowFacts ==
  ASSUME NEW r
  PROVE  /\ RunRow(r).kind = "research_autopilot_run"
         /\ RunRow(r).id = <<"research_autopilot_run", 0>>
         /\ RunRow(r).refusals = {}
         /\ DOMAIN RunRow(r).refs = DOMAIN Schema["research_autopilot_run"]
         /\ {"agenda_id", "strategy_card_id", "experiment_trial_id", "strategy_decision_id",
             "locked_evaluation_id"} \subseteq DOMAIN Schema["research_autopilot_run"]
         /\ RunRow(r).refs["agenda_id"] = {<<"research_agenda", r.agenda>>}
         /\ RunRow(r).refs["experiment_trial_id"] = {<<"experiment_trial", r.trial>>}
         /\ RunRow(r).refs["strategy_decision_id"]
              = IF r.decision = None THEN {} ELSE {<<"strategy_decision", r.decision>>}
         /\ \A field \in DOMAIN Schema["research_autopilot_run"]
                          \ {"agenda_id", "experiment_trial_id", "strategy_decision_id"} :
              Exact(RunRow(r), field)
<1> DEFINE kind == "research_autopilot_run"
           row == BackdropRow(kind, 0)
           agendas == {<<"research_agenda", r.agenda>>}
           trials == {<<"experiment_trial", r.trial>>}
           decisions == IF r.decision = None THEN {} ELSE {<<"strategy_decision", r.decision>>}
           given == {"agenda_id", "experiment_trial_id", "strategy_decision_id"}
<1>1. kind \in Kinds
  BY KindNames
<1>2. /\ row.kind = kind /\ row.id = <<kind, 0>> /\ row.refusals = {}
      /\ DOMAIN row.refs = DOMAIN Schema[kind]
      /\ \A field \in DOMAIN Schema[kind] : Exact(row, field)
  BY <1>1, BackdropRowFacts
<1>3. {"agenda_id", "strategy_card_id", "experiment_trial_id", "strategy_decision_id",
       "locked_evaluation_id"} \subseteq DOMAIN Schema[kind]
  BY ComparedSchemas DEF AgendaSchema
<1>4. RunRow(r) = [row EXCEPT !.refs.agenda_id = agendas, !.refs.experiment_trial_id = trials,
                              !.refs.strategy_decision_id = decisions]
  BY DEF RunRow
<1>5. DOMAIN row = {"kind", "id", "refs", "refusals", "lineage", "root"}
  BY DEF BackdropRow
<1> HIDE DEF row, agendas, trials, decisions
<1>6. /\ RunRow(r).kind = row.kind /\ RunRow(r).id = row.id /\ RunRow(r).refusals = row.refusals
      /\ RunRow(r).refs = [row.refs EXCEPT !["agenda_id"] = agendas, !["experiment_trial_id"] = trials,
                                           !["strategy_decision_id"] = decisions]
  BY <1>4, <1>5
<1>7. /\ DOMAIN RunRow(r).refs = DOMAIN Schema[kind]
      /\ RunRow(r).refs["agenda_id"] = agendas
      /\ RunRow(r).refs["experiment_trial_id"] = trials
      /\ RunRow(r).refs["strategy_decision_id"] = decisions
      /\ \A field \in DOMAIN Schema[kind] \ given : RunRow(r).refs[field] = row.refs[field]
  BY <1>2, <1>3, <1>6
<1>8. \A field \in DOMAIN Schema[kind] \ given : Exact(RunRow(r), field)
  BY <1>2, <1>6, <1>7 DEF Exact
<1> QED BY <1>2, <1>3, <1>6, <1>7, <1>8 DEF agendas, trials, decisions

LEMMA OthersFacts ==
  ASSUME NEW other \in Others
  PROVE  /\ other[1] \in Kinds \ {"research_autopilot_run", "strategy_research_digest"}
         /\ other[2] \in 1..2 /\ other # <<"experiment_trial", 2>>
BY KindNames DEF Others

\* The rows, but the run's, and with them the run's.
LEMMA BackdropOf ==
  ASSUME NEW l, NEW r, NEW row
  PROVE  row \in BackdropRows(l, r) <=>
           /\ row.kind # l
           /\ \/ \E kind \in Kinds \ {"research_autopilot_run", "strategy_research_digest"} :
                   row = BackdropRow(kind, 0)
              \/ \E other \in Others : row = BackdropRow(other[1], other[2])
              \/ r # None /\ (row = RunRow(r) \/ row = BackdropRow("strategy_research_digest", 0))
BY DEF BackdropRows, Backdrop

\* A row of the chain, whatever is lost and whatever its run.
Shaped(row, l, r) ==
  /\ row.kind \in Kinds /\ row.kind # l /\ DOMAIN row.refs = DOMAIN Schema[row.kind]
  /\ row.kind = "research_autopilot_run" => r # None /\ row = RunRow(r)
  /\ row.kind = "strategy_research_digest" => r # None
  /\ row.kind # "research_autopilot_run" => row = BackdropRow(row.kind, row.id[2])
  /\ row.id = <<row.kind, row.id[2]>> /\ row.id[2] \in 0..2
  /\ row.id # <<"experiment_trial", 2>>

LEMMA RowShape ==
  ASSUME NEW l, NEW r, NEW row \in BackdropRows(l, r)
  PROVE  Shaped(row, l, r)
<1>0. {"research_autopilot_run", "strategy_research_digest"} \subseteq Kinds
  BY KindNames
<1>1. row.kind # l
  BY BackdropOf
<1>2. ASSUME NEW kind \in Kinds \ {"research_autopilot_run"}, NEW key \in 0..2, row = BackdropRow(kind, key),
             kind = "strategy_research_digest" => r # None, <<kind, key>> # <<"experiment_trial", 2>>
      PROVE  Shaped(row, l, r)
  <2>1. row.kind = kind /\ row.id = <<kind, key>> /\ DOMAIN row.refs = DOMAIN Schema[kind]
    BY <1>2, BackdropRowFacts
  <2>2. row.id[2] = key
    BY <2>1
  <2> QED BY <1>1, <1>2, <2>1, <2>2 DEF Shaped
<1>3. CASE row = RunRow(r) /\ r # None
  <2>1. /\ row.kind = "research_autopilot_run" /\ row.id = <<"research_autopilot_run", 0>>
        /\ DOMAIN row.refs = DOMAIN Schema["research_autopilot_run"]
    BY <1>3, RunRowFacts
  <2>2. row.id[2] = 0
    BY <2>1
  <2> QED BY <1>0, <1>1, <1>3, <2>1, <2>2 DEF Shaped
<1>4. CASE \E kind \in Kinds \ {"research_autopilot_run", "strategy_research_digest"} :
             row = BackdropRow(kind, 0)
  <2>1. PICK kind \in Kinds \ {"research_autopilot_run", "strategy_research_digest"} :
          row = BackdropRow(kind, 0)
    BY <1>4
  <2>2. 0 \in 0..2 /\ <<kind, 0>> # <<"experiment_trial", 2>>
    OBVIOUS
  <2> QED BY <1>2, <2>1, <2>2
<1>5. CASE \E other \in Others : row = BackdropRow(other[1], other[2])
  <2>1. PICK other \in Others : row = BackdropRow(other[1], other[2])
    BY <1>5
  <2> DEFINE kind == other[1]
             key == other[2]
  <2>2. /\ kind \in Kinds \ {"research_autopilot_run", "strategy_research_digest"}
        /\ key \in 0..2 /\ <<kind, key>> # <<"experiment_trial", 2>>
    <3>1. other = <<kind, key>>
      BY DEF Others
    <3> QED BY <3>1, OthersFacts
  <2> HIDE DEF kind, key
  <2>3. row = BackdropRow(kind, key)
    BY <2>1 DEF kind, key
  <2> QED BY <1>2, <2>2, <2>3
<1>6. CASE row = BackdropRow("strategy_research_digest", 0) /\ r # None
  <2>1. 0 \in 0..2 /\ <<"strategy_research_digest", 0>> # <<"experiment_trial", 2>>
    OBVIOUS
  <2> QED BY <1>0, <1>2, <1>6, <2>1
<1> QED BY <1>3, <1>4, <1>5, <1>6, BackdropOf

\* What a row of the chain names, unless it is the run's.
LEMMA RowNames ==
  ASSUME NEW l, NEW r, NEW row, Shaped(row, l, r), row.kind # "research_autopilot_run",
         NEW field \in DOMAIN Schema[row.kind]
  PROVE  Exact(row, field)
<1>1. row.kind \in Kinds /\ row.id[2] \in 0..2 /\ row = BackdropRow(row.kind, row.id[2])
  BY DEF Shaped
<1> QED BY <1>1, BackdropRowFacts

\* With no run, or one that was not blocked, all rows name those of the chain.
LEMMA WholeRows ==
  ASSUME NoneIsApart, NEW l, NEW r \in Runs \cup {None}, r # None => ~RunBlocked(r),
         NEW row \in BackdropRows(l, r), NEW field \in DOMAIN Schema[row.kind]
  PROVE  /\ <<row.kind, field>> # <<"research_autopilot_run", "agenda_id">> /\ row.kind # "research_agenda" =>
              \A id \in row.refs[field] : \E k \in Schema[row.kind][field] : id = <<k, 0>>
         /\ row.kind \notin {"research_autopilot_run", "research_agenda"} =>
              \A k \in Schema[row.kind][field] : <<k, 0>> \in row.refs[field]
         /\ <<row.kind, field>> = <<"research_autopilot_run", "agenda_id">> =>
              row.refs[field] \subseteq {<<"research_agenda", 0>>, <<"research_agenda", 1>>}
         /\ row.kind = "research_agenda" =>
              row.refs[field] \subseteq {<<"strategy_card", 0>>, <<"strategy_card", 1>>}
<1>0. Shaped(row, l, r)
  BY RowShape
<1>1. CASE row.kind \notin {"research_autopilot_run", "research_agenda"}
  <2>1. Exact(row, field) /\ Named(row.kind, row.id[2]) = 0
    BY <1>0, <1>1, RowNames DEF Named
  <2> QED BY <1>1, <2>1 DEF Exact
<1>2. CASE row.kind = "research_agenda"
  <2>1. Exact(row, field) /\ Named(row.kind, row.id[2]) \in {0, 1}
    BY <1>0, <1>2, RowNames DEF Named
  <2>2. Schema[row.kind][field] = {"strategy_card"}
    BY <1>2, ComparedSchemas DEF AgendaSchema
  <2> QED BY <1>2, <2>1, <2>2 DEF Exact
<1>3. CASE row.kind = "research_autopilot_run"
  <2>1. r \in Runs /\ row = RunRow(r)
    BY <1>0, <1>3 DEF Shaped
  <2>2. r.agenda \in {0, 1} /\ r.trial = 0 /\ (r.decision = 0 \/ r.decision = None)
    <3>1. ~RunBlocked(r)
      BY <1>0, <1>3 DEF Shaped
    <3> QED BY <2>1, <3>1 DEF RunBlocked, Runs
  <2>3. /\ Schema[row.kind]["experiment_trial_id"] = {"experiment_trial"}
        /\ Schema[row.kind]["strategy_decision_id"] = {"strategy_decision"}
    BY <1>3, ComparedSchemas DEF AgendaSchema
  <2>4. /\ row.refs["agenda_id"] = {<<"research_agenda", r.agenda>>}
        /\ row.refs["experiment_trial_id"] = {<<"experiment_trial", 0>>}
        /\ row.refs["strategy_decision_id"] \subseteq {<<"strategy_decision", 0>>}
    BY <2>1, <2>2, RunRowFacts
  <2>5. CASE field = "experiment_trial_id"
    BY <1>3, <2>3, <2>4, <2>5
  <2>6. CASE field = "strategy_decision_id"
    BY <1>3, <2>3, <2>4, <2>6
  <2>7. CASE field = "agenda_id"
    BY <1>3, <2>2, <2>4, <2>7
  <2>8. CASE field \notin {"agenda_id", "experiment_trial_id", "strategy_decision_id"}
    <3>1. Exact(row, field)
      BY <1>3, <2>1, <2>8, RunRowFacts
    <3>2. Named(row.kind, row.id[2]) = 0
      BY <1>3 DEF Named
    <3> QED BY <1>3, <2>8, <3>1, <3>2 DEF Exact
  <2> QED BY <2>5, <2>6, <2>7, <2>8
<1> QED BY <1>1, <1>2, <1>3

LEMMA WholeChain ==
  ASSUME NoneIsApart, NEW r \in Runs \cup {None}, r # None => ~RunBlocked(r)
  PROVE  FindingsOf(BackdropRows(None, r)) = {}
<1> DEFINE rows == BackdropRows(None, r)
<1>1. \A row \in rows : Shaped(row, None, r)
  BY RowShape
<1>2. \A row \in rows : \A field \in DOMAIN Schema[row.kind] :
        /\ <<row.kind, field>> # <<"research_autopilot_run", "agenda_id">> /\ row.kind # "research_agenda" =>
             \A id \in row.refs[field] : \E k \in Schema[row.kind][field] : id = <<k, 0>>
        /\ row.kind \notin {"research_autopilot_run", "research_agenda"} =>
             \A k \in Schema[row.kind][field] : <<k, 0>> \in row.refs[field]
        /\ <<row.kind, field>> = <<"research_autopilot_run", "agenda_id">> =>
             row.refs[field] \subseteq {<<"research_agenda", 0>>, <<"research_agenda", 1>>}
        /\ row.kind = "research_agenda" =>
             row.refs[field] \subseteq {<<"strategy_card", 0>>, <<"strategy_card", 1>>}
  BY WholeRows
<1>card. BackdropRow("strategy_card", 0) \in rows
  <2>1. "strategy_card" \in Kinds /\ "strategy_card" # None /\ 0 \in 0..2
    BY KindNames DEF NoneIsApart
  <2>2. BackdropRow("strategy_card", 0).kind # None
    BY <2>1, BackdropRowFacts
  <2> QED BY <2>1, <2>2, BackdropOf
<1>3. ASSUME NEW k \in Kinds \ {"strategy_research_digest"}, k = "research_autopilot_run" => r # None
      PROVE  <<k, 0>> \in Ids(rows)
  <2> SUFFICES \E row \in rows : row.id = <<k, 0>>
    BY DEF Ids
  <2>1. CASE k = "research_autopilot_run"
    <3>1. RunRow(r).kind = k /\ RunRow(r).id = <<k, 0>>
      BY <2>1, RunRowFacts
    <3>2. RunRow(r).kind # None
      BY <3>1 DEF NoneIsApart
    <3>3. RunRow(r) \in rows
      BY <1>3, <2>1, <3>2, BackdropOf
    <3> QED BY <3>1, <3>3
  <2>2. CASE k # "research_autopilot_run"
    <3>1. BackdropRow(k, 0).kind = k /\ BackdropRow(k, 0).id = <<k, 0>>
      BY BackdropRowFacts
    <3>2. BackdropRow(k, 0).kind # None
      BY <3>1 DEF NoneIsApart
    <3>3. BackdropRow(k, 0) \in rows
      BY <2>2, <3>2, BackdropOf
    <3> QED BY <3>1, <3>3
  <2> QED BY <2>1, <2>2
<1>4. ASSUME NEW k \in {"strategy_card", "research_agenda"}
      PROVE  <<k, 1>> \in Ids(rows)
  <2> DEFINE other == <<k, 1>>
  <2>1. k \in Kinds /\ k # None /\ other \in Others /\ other[1] = k /\ other[2] = 1
    BY KindNames DEF NoneIsApart, Others
  <2>2. BackdropRow(k, 1).kind = k /\ BackdropRow(k, 1).id = <<k, 1>>
    BY <2>1, BackdropRowFacts
  <2>3. BackdropRow(k, 1) \in rows
    BY <2>1, <2>2, BackdropOf
  <2> HIDE DEF rows
  <2> QED BY <2>2, <2>3 DEF Ids
<1> HIDE DEF rows
<1>5. ASSUME NEW row \in rows, NEW field \in DOMAIN row.refs, <<row.kind, field>> \in Links
      PROVE  row.refs[field] \subseteq Ids(rows)
  <2>1. row.kind \in Kinds /\ field \in DOMAIN Schema[row.kind]
    BY <1>1 DEF Shaped
  <2>2. Sound(row.kind, field, Schema[row.kind][field])
    BY <2>1, SchemaSound
  <2>3. \A k \in Schema[row.kind][field] :
          k \in Kinds \ {"strategy_research_digest"} /\ (k = "research_autopilot_run" => r # None)
    BY <1>1, <1>5, <2>2 DEF Sound, Shaped
  <2>4. {<<"research_agenda", 0>>, <<"research_agenda", 1>>, <<"strategy_card", 0>>, <<"strategy_card", 1>>}
          \subseteq Ids(rows)
    <3>1. {"research_agenda", "strategy_card"} \subseteq Kinds
      BY KindNames
    <3> QED BY <1>3, <1>4, <3>1
  <2>5. CASE <<row.kind, field>> = <<"research_autopilot_run", "agenda_id">> \/ row.kind = "research_agenda"
    BY <1>2, <2>1, <2>4, <2>5
  <2>6. CASE <<row.kind, field>> # <<"research_autopilot_run", "agenda_id">> /\ row.kind # "research_agenda"
    BY <1>2, <1>3, <2>1, <2>3, <2>6
  <2> QED BY <2>5, <2>6
<1>6. Missing(rows) = {}
  <2>1. \A row \in rows : Dangling(row, Ids(rows)) = {}
    BY <1>5 DEF Dangling
  <2> QED BY <2>1 DEF Missing
<1>7. Mismatched(rows) = {}
  <2> SUFFICES ASSUME NEW a \in OutcomeAgreements \cup AutopilotAgreements, Disagree(rows, a)
               PROVE  FALSE
    BY DEF Mismatched
  <2>1. PICK row \in rows, q \in rows :
          row.kind = a.kind /\ q.id \in row.refs[a.via] /\ ~(row.refs[a.own] \subseteq q.refs[a.theirs])
    BY DEF Disagree
  <2>2. /\ row.kind # "research_agenda"
        /\ a.via \in DOMAIN Schema[row.kind] /\ a.own \in DOMAIN Schema[row.kind]
        /\ a.via # "agenda_id" /\ a.own # "agenda_id"
        /\ \A k \in Schema[row.kind][a.via] :
             /\ k \notin {"research_autopilot_run", "research_agenda"} /\ a.theirs \in DOMAIN Schema[k]
             /\ Schema[row.kind][a.own] \subseteq Schema[k][a.theirs]
    BY <2>1, SchemasAgree
  <2>3. PICK k \in Schema[row.kind][a.via] : q.id = <<k, 0>>
    BY <1>2, <2>1, <2>2
  <2>4. q.kind = k
    <3>1. q.id = <<q.kind, q.id[2]>>
      BY <1>1 DEF Shaped
    <3> QED BY <2>3, <3>1
  <2>5. \A j \in Schema[k][a.theirs] : <<j, 0>> \in q.refs[a.theirs]
    BY <1>2, <2>2, <2>4
  <2>6. \A id \in row.refs[a.own] : \E j \in Schema[row.kind][a.own] : id = <<j, 0>>
    BY <1>2, <2>2
  <2> QED BY <2>1, <2>2, <2>5, <2>6
<1>8. Misplaced(rows) = {}
  <2> SUFFICES ASSUME NEW row \in rows, OutsideAgenda(rows, row)
               PROVE  FALSE
    BY DEF Misplaced
  <2>1. PICK a \in rows : /\ a.id \in row.refs.agenda_id
                          /\ \E card \in row.refs.strategy_card_id : ~InAgenda(rows, card, a)
    BY DEF OutsideAgenda
  <2>2. PICK card \in row.refs["strategy_card_id"] : ~InAgenda(rows, card, a)
    BY <2>1
  <2>3. /\ row.kind = "research_autopilot_run"
        /\ {"agenda_id", "strategy_card_id"} \subseteq DOMAIN Schema[row.kind]
        /\ Schema[row.kind]["strategy_card_id"] = {"strategy_card"}
    BY ComparedSchemas DEF OutsideAgenda, AgendaSchema
  <2>4. card = <<"strategy_card", 0>>
    BY <1>2, <2>2, <2>3
  <2>5. a.id = <<"research_agenda", 0>> \/ a.id = <<"research_agenda", 1>>
    BY <1>2, <2>1, <2>3
  <2>6. a.kind = "research_agenda" /\ a = BackdropRow(a.kind, a.id[2])
    <3>1. /\ a.id = <<a.kind, a.id[2]>>
          /\ a.kind # "research_autopilot_run" => a = BackdropRow(a.kind, a.id[2])
      BY <1>1 DEF Shaped
    <3> QED BY <2>5, <3>1
  <2>7. /\ "strategy_card_ids" \in DOMAIN Schema[a.kind]
        /\ Schema[a.kind]["strategy_card_ids"] = {"strategy_card"}
    BY <2>6, ComparedSchemas DEF AgendaSchema
  <2>8. Exact(a, "strategy_card_ids")
    BY <1>1, <2>6, <2>7, RowNames
  <2>9. CASE a.id = <<"research_agenda", 0>>
    <3>1. Named(a.kind, a.id[2]) = 0
      BY <2>9 DEF Named
    <3>2. card \in a.refs["strategy_card_ids"]
      BY <2>4, <2>7, <2>8, <3>1 DEF Exact
    <3> QED BY <2>2, <3>2 DEF InAgenda
  <2>10. CASE a.id = <<"research_agenda", 1>>
    <3>1. Named(a.kind, a.id[2]) = 1 /\ a.id[2] = 1
      BY <2>6, <2>10 DEF Named
    <3>2. <<"strategy_card", 1>> \in a.refs["strategy_card_ids"]
      BY <2>7, <2>8, <3>1 DEF Exact
    <3>3. a.lineage
      <4>1. "research_agenda" \in Kinds /\ 1 \in 0..2
        BY KindNames
      <4>2. BackdropRow("research_agenda", 1).lineage = (1 = 1)
        BY <4>1, BackdropRowFacts
      <4>3. a = BackdropRow("research_agenda", 1)
        BY <2>6, <3>1
      <4> QED BY <4>2, <4>3, Zenon
    <3> DEFINE c == BackdropRow("strategy_card", 0)
    <3>4. c.id = card /\ <<"strategy_card", 1>> \in c.root
      <4>1. "strategy_card" \in Kinds /\ 0 \in 0..2
        BY KindNames
      <4> QED BY <2>4, <4>1, BackdropRowFacts
    <3>5. c \in rows
      BY <1>card
    <3> HIDE DEF c
    <3> QED BY <2>2, <3>2, <3>3, <3>4, <3>5 DEF InAgenda
  <2> QED BY <2>5, <2>9, <2>10
<1>9. Refused(rows) = {}
  <2> SUFFICES ASSUME NEW q \in rows, NEW row \in rows, row.kind = "research_autopilot_run",
                      q.id \in row.refs.strategy_decision_id, NEW refusal \in q.refusals
               PROVE  FALSE
    BY DEF Refused
  <2>1. /\ "strategy_decision_id" \in DOMAIN Schema[row.kind]
        /\ Schema[row.kind]["strategy_decision_id"] = {"strategy_decision"}
    BY ComparedSchemas DEF AgendaSchema
  <2>2. q.id = <<"strategy_decision", 0>>
    BY <1>2, <2>1
  <2>3. q = BackdropRow("strategy_decision", 0)
    <3>1. /\ q.id = <<q.kind, q.id[2]>>
          /\ q.kind # "research_autopilot_run" => q = BackdropRow(q.kind, q.id[2])
      BY <1>1 DEF Shaped
    <3>2. q.kind = "strategy_decision" /\ q.id[2] = 0
      BY <2>2, <3>1
    <3> QED BY <3>1, <3>2
  <2>4. "strategy_decision" \in Kinds /\ 0 \in 0..2
    BY KindNames
  <2> QED BY <2>3, <2>4, BackdropRowFacts
<1> QED BY <1>6, <1>7, <1>8, <1>9 DEF FindingsOf, rows

-----------------------------------------------------------------------------
(* The symbol's own rows                                                   *)

\* The fields of the rows of the symbol's files, and the ids they hold.
LoopField(kind, field, ids) ==
  \/ kind = "source_document" /\ field = "source_id" /\ ids = {}
  \/ /\ kind = "canonical_event" /\ field \in {"source_document_ids", "primary_document_id"}
     /\ \E v \in store.events : ids = Refer("source_document", {v.id[1]})
  \/ /\ kind = "event_reliability_check" /\ field = "event_id"
     /\ \E v \in store.reliability : ids = Refer("canonical_event", {v.id})
  \/ /\ kind = "market_reaction_check" /\ field = "event_id"
     /\ \E r \in store.reactions : ids = Refer("canonical_event", {r.id[1]})
  \/ /\ kind = "event_edge_evaluation" /\ field = "input_event_ids"
     /\ \E e \in store.edges : ids = Refer("canonical_event", e.inputs.events)
  \/ /\ kind = "event_edge_evaluation" /\ field = "input_reaction_check_ids"
     /\ \E e \in store.edges : ids = Refer("market_reaction_check", e.inputs.checks)
  \/ /\ kind = "event_edge_evaluation" /\ field = "input_candle_ids"
     /\ \E e \in store.edges : ids = Refer("market_candle", e.inputs.hours)
  \/ /\ kind = "backtest_run" /\ field = "candle_ids"
     /\ \E b \in store.runs : ids = Refer("market_candle", b.hours)
  \/ /\ kind = "backtest_result" /\ field = "backtest_id"
     /\ \E b \in store.results : ids = Refer("backtest_run", {b.id})
  \/ /\ kind = "walk_forward_validation"
     /\ field \in {"backtest_result_ids", "window_backtest_result_ids"}
     /\ \E w \in store.walks : ids = Refer("backtest_result", {w.inner})
  \/ /\ kind = "strategy_decision" /\ field = "backtest_result"
     /\ \E d \in store.decisions : ids = Refer("backtest_result", {d.id.bt})
  \/ /\ kind = "strategy_decision" /\ field = "walk_forward"
     /\ \E d \in store.decisions : ids = Refer("walk_forward_validation", {d.id.wf})
  \/ /\ kind = "strategy_decision" /\ field = "event_edge"
     /\ \E d \in store.decisions : ids = Refer("event_edge_evaluation", {d.id.ee})

LEMMA LoopFields ==
  ASSUME NEW row \in LoopRows, NEW field \in DOMAIN row.refs
  PROVE  LoopField(row.kind, field, row.refs[field])
<1>1. ASSUME NEW c \in store.candles,
             row = LoopRow("market_candle", c.id,
                     <<>>)
      PROVE  LoopField(row.kind, field, row.refs[field])
  BY <1>1 DEF LoopRow
<1>2. ASSUME NEW d \in store.documents,
             row = LoopRow("source_document", d.id,
                     [source_id |-> {}])
      PROVE  LoopField(row.kind, field, row.refs[field])
  <2> DEFINE ids == {}
             refs == [source_id |-> ids]
  <2>1. row.kind = "source_document" /\ row.refs = refs
    BY <1>2 DEF LoopRow
  <2> HIDE DEF ids
  <2>2. DOMAIN refs = {"source_id"} /\ refs["source_id"] = ids
    OBVIOUS
  <2> HIDE DEF refs
  <2> QED BY <2>1, <2>2 DEF LoopField, ids
<1>3. ASSUME NEW v \in store.events,
             row = LoopRow("canonical_event", v.id,
                     [source_document_ids |-> Refer("source_document", {v.id[1]}),
                     primary_document_id |-> Refer("source_document", {v.id[1]})])
      PROVE  LoopField(row.kind, field, row.refs[field])
  <2> DEFINE ids == Refer("source_document", {v.id[1]})
             refs == [source_document_ids |-> ids, primary_document_id |-> ids]
  <2>1. row.kind = "canonical_event" /\ row.refs = refs
    BY <1>3 DEF LoopRow
  <2> HIDE DEF ids
  <2>2. /\ DOMAIN refs = {"source_document_ids", "primary_document_id"}
        /\ refs["source_document_ids"] = ids /\ refs["primary_document_id"] = ids
    OBVIOUS
  <2> HIDE DEF refs
  <2> QED BY <2>1, <2>2 DEF LoopField, ids
<1>4. ASSUME NEW v \in store.reliability,
             row = LoopRow("event_reliability_check", v.id,
                     [event_id |-> Refer("canonical_event", {v.id})])
      PROVE  LoopField(row.kind, field, row.refs[field])
  <2> DEFINE ids == Refer("canonical_event", {v.id})
             refs == [event_id |-> ids]
  <2>1. row.kind = "event_reliability_check" /\ row.refs = refs
    BY <1>4 DEF LoopRow
  <2> HIDE DEF ids
  <2>2. DOMAIN refs = {"event_id"} /\ refs["event_id"] = ids
    OBVIOUS
  <2> HIDE DEF refs
  <2> QED BY <2>1, <2>2 DEF LoopField, ids
<1>5. ASSUME NEW r \in store.reactions,
             row = LoopRow("market_reaction_check", r.id,
                     [event_id |-> Refer("canonical_event", {r.id[1]})])
      PROVE  LoopField(row.kind, field, row.refs[field])
  <2> DEFINE ids == Refer("canonical_event", {r.id[1]})
             refs == [event_id |-> ids]
  <2>1. row.kind = "market_reaction_check" /\ row.refs = refs
    BY <1>5 DEF LoopRow
  <2> HIDE DEF ids
  <2>2. DOMAIN refs = {"event_id"} /\ refs["event_id"] = ids
    OBVIOUS
  <2> HIDE DEF refs
  <2> QED BY <2>1, <2>2 DEF LoopField, ids
<1>6. ASSUME NEW e \in store.edges,
             row = LoopRow("event_edge_evaluation", e.id,
                     [input_event_ids |-> Refer("canonical_event", e.inputs.events),
                     input_reaction_check_ids |-> Refer("market_reaction_check", e.inputs.checks),
                     input_candle_ids |-> Refer("market_candle", e.inputs.hours)])
      PROVE  LoopField(row.kind, field, row.refs[field])
  <2> DEFINE ids1 == Refer("canonical_event", e.inputs.events)
             ids2 == Refer("market_reaction_check", e.inputs.checks)
             ids3 == Refer("market_candle", e.inputs.hours)
             refs == [input_event_ids |-> ids1, input_reaction_check_ids |-> ids2, input_candle_ids |-> ids3]
  <2>1. row.kind = "event_edge_evaluation" /\ row.refs = refs
    BY <1>6 DEF LoopRow
  <2> HIDE DEF ids1, ids2, ids3
  <2>2. /\ DOMAIN refs = {"input_event_ids", "input_reaction_check_ids", "input_candle_ids"}
        /\ refs["input_event_ids"] = ids1 /\ refs["input_reaction_check_ids"] = ids2
        /\ refs["input_candle_ids"] = ids3
    OBVIOUS
  <2> HIDE DEF refs
  <2> QED BY <2>1, <2>2 DEF LoopField, ids1, ids2, ids3
<1>7. ASSUME NEW b \in store.runs,
             row = LoopRow("backtest_run", b.id,
                     [candle_ids |-> Refer("market_candle", b.hours)])
      PROVE  LoopField(row.kind, field, row.refs[field])
  <2> DEFINE ids == Refer("market_candle", b.hours)
             refs == [candle_ids |-> ids]
  <2>1. row.kind = "backtest_run" /\ row.refs = refs
    BY <1>7 DEF LoopRow
  <2> HIDE DEF ids
  <2>2. DOMAIN refs = {"candle_ids"} /\ refs["candle_ids"] = ids
    OBVIOUS
  <2> HIDE DEF refs
  <2> QED BY <2>1, <2>2 DEF LoopField, ids
<1>8. ASSUME NEW b \in store.results,
             row = LoopRow("backtest_result", b.id,
                     [backtest_id |-> Refer("backtest_run", {b.id})])
      PROVE  LoopField(row.kind, field, row.refs[field])
  <2> DEFINE ids == Refer("backtest_run", {b.id})
             refs == [backtest_id |-> ids]
  <2>1. row.kind = "backtest_result" /\ row.refs = refs
    BY <1>8 DEF LoopRow
  <2> HIDE DEF ids
  <2>2. DOMAIN refs = {"backtest_id"} /\ refs["backtest_id"] = ids
    OBVIOUS
  <2> HIDE DEF refs
  <2> QED BY <2>1, <2>2 DEF LoopField, ids
<1>9. ASSUME NEW w \in store.walks,
             row = LoopRow("walk_forward_validation", w.id,
                     [backtest_result_ids |-> Refer("backtest_result", {w.inner}),
                     window_backtest_result_ids |-> Refer("backtest_result", {w.inner})])
      PROVE  LoopField(row.kind, field, row.refs[field])
  <2> DEFINE ids == Refer("backtest_result", {w.inner})
             refs == [backtest_result_ids |-> ids, window_backtest_result_ids |-> ids]
  <2>1. row.kind = "walk_forward_validation" /\ row.refs = refs
    BY <1>9 DEF LoopRow
  <2> HIDE DEF ids
  <2>2. /\ DOMAIN refs = {"backtest_result_ids", "window_backtest_result_ids"}
        /\ refs["backtest_result_ids"] = ids /\ refs["window_backtest_result_ids"] = ids
    OBVIOUS
  <2> HIDE DEF refs
  <2> QED BY <2>1, <2>2 DEF LoopField, ids
<1>10. ASSUME NEW d \in store.decisions,
             row = LoopRow("strategy_decision", d.id,
                     [backtest_result |-> Refer("backtest_result", {d.id.bt}),
                     walk_forward |-> Refer("walk_forward_validation", {d.id.wf}),
                     event_edge |-> Refer("event_edge_evaluation", {d.id.ee})])
      PROVE  LoopField(row.kind, field, row.refs[field])
  <2> DEFINE ids1 == Refer("backtest_result", {d.id.bt})
             ids2 == Refer("walk_forward_validation", {d.id.wf})
             ids3 == Refer("event_edge_evaluation", {d.id.ee})
             refs == [backtest_result |-> ids1, walk_forward |-> ids2, event_edge |-> ids3]
  <2>1. row.kind = "strategy_decision" /\ row.refs = refs
    BY <1>10 DEF LoopRow
  <2> HIDE DEF ids1, ids2, ids3
  <2>2. /\ DOMAIN refs = {"backtest_result", "walk_forward", "event_edge"}
        /\ refs["backtest_result"] = ids1 /\ refs["walk_forward"] = ids2
        /\ refs["event_edge"] = ids3
    OBVIOUS
  <2> HIDE DEF refs
  <2> QED BY <2>1, <2>2 DEF LoopField, ids1, ids2, ids3
<1> QED BY <1>1, <1>2, <1>3, <1>4, <1>5, <1>6, <1>7, <1>8, <1>9, <1>10 DEF LoopRows

\* The health check follows all of them.
LEMMA LoopWatched ==
  ASSUME NEW kind, NEW field, NEW ids, LoopField(kind, field, ids)
  PROVE  <<kind, field>> \in Links
BY DEF LoopField, Links, DocumentLinks, EventLinks, EdgeLinks, BacktestLinks, DecisionBasisLinks

LEMMA LoopIds ==
  ASSUME NEW id
  PROVE  /\ Has(store, "candles", id) => <<"market_candle", id>> \in Ids(LoopRows)
         /\ Has(store, "documents", id) => <<"source_document", id>> \in Ids(LoopRows)
         /\ Has(store, "events", id) => <<"canonical_event", id>> \in Ids(LoopRows)
         /\ Has(store, "reactions", id) => <<"market_reaction_check", id>> \in Ids(LoopRows)
         /\ Has(store, "edges", id) => <<"event_edge_evaluation", id>> \in Ids(LoopRows)
         /\ Has(store, "runs", id) => <<"backtest_run", id>> \in Ids(LoopRows)
         /\ Has(store, "results", id) => <<"backtest_result", id>> \in Ids(LoopRows)
         /\ Has(store, "walks", id) => <<"walk_forward_validation", id>> \in Ids(LoopRows)
<1>1. \A kind, key, refs : LoopRow(kind, key, refs).id = <<kind, key>>
  BY DEF LoopRow
<1>2. ASSUME NEW c \in store.candles PROVE <<"market_candle", c.id>> \in Ids(LoopRows)
  <2> DEFINE refs == <<>>
  <2>1. LoopRow("market_candle", c.id, refs) \in LoopRows
    BY DEF LoopRows
  <2> QED BY <1>1, <2>1 DEF Ids
<1>3. ASSUME NEW d \in store.documents PROVE <<"source_document", d.id>> \in Ids(LoopRows)
  <2> DEFINE refs == [source_id |-> {}]
  <2>1. LoopRow("source_document", d.id, refs) \in LoopRows
    BY DEF LoopRows
  <2> QED BY <1>1, <2>1 DEF Ids
<1>4. ASSUME NEW v \in store.events PROVE <<"canonical_event", v.id>> \in Ids(LoopRows)
  <2> DEFINE refs == [source_document_ids |-> Refer("source_document", {v.id[1]}),
                      primary_document_id |-> Refer("source_document", {v.id[1]})]
  <2>1. LoopRow("canonical_event", v.id, refs) \in LoopRows
    BY DEF LoopRows
  <2> QED BY <1>1, <2>1 DEF Ids
<1>5. ASSUME NEW r \in store.reactions PROVE <<"market_reaction_check", r.id>> \in Ids(LoopRows)
  <2> DEFINE refs == [event_id |-> Refer("canonical_event", {r.id[1]})]
  <2>1. LoopRow("market_reaction_check", r.id, refs) \in LoopRows
    BY DEF LoopRows
  <2> QED BY <1>1, <2>1 DEF Ids
<1>6. ASSUME NEW e \in store.edges PROVE <<"event_edge_evaluation", e.id>> \in Ids(LoopRows)
  <2> DEFINE refs == [input_event_ids |-> Refer("canonical_event", e.inputs.events),
                      input_reaction_check_ids |-> Refer("market_reaction_check", e.inputs.checks),
                      input_candle_ids |-> Refer("market_candle", e.inputs.hours)]
  <2>1. LoopRow("event_edge_evaluation", e.id, refs) \in LoopRows
    BY DEF LoopRows
  <2> QED BY <1>1, <2>1 DEF Ids
<1>7. ASSUME NEW b \in store.runs PROVE <<"backtest_run", b.id>> \in Ids(LoopRows)
  <2> DEFINE refs == [candle_ids |-> Refer("market_candle", b.hours)]
  <2>1. LoopRow("backtest_run", b.id, refs) \in LoopRows
    BY DEF LoopRows
  <2> QED BY <1>1, <2>1 DEF Ids
<1>8. ASSUME NEW b \in store.results PROVE <<"backtest_result", b.id>> \in Ids(LoopRows)
  <2> DEFINE refs == [backtest_id |-> Refer("backtest_run", {b.id})]
  <2>1. LoopRow("backtest_result", b.id, refs) \in LoopRows
    BY DEF LoopRows
  <2> QED BY <1>1, <2>1 DEF Ids
<1>9. ASSUME NEW w \in store.walks PROVE <<"walk_forward_validation", w.id>> \in Ids(LoopRows)
  <2> DEFINE refs == [backtest_result_ids |-> Refer("backtest_result", {w.inner}),
                      window_backtest_result_ids |-> Refer("backtest_result", {w.inner})]
  <2>1. LoopRow("walk_forward_validation", w.id, refs) \in LoopRows
    BY DEF LoopRows
  <2> QED BY <1>1, <2>1 DEF Ids
<1> QED BY <1>2, <1>3, <1>4, <1>5, <1>6, <1>7, <1>8, <1>9 DEF Has

LEMMA ReferSubset ==
  ASSUME NEW kind, NEW keys, NEW S, \A key \in keys : key = None \/ <<kind, key>> \in S
  PROVE  Refer(kind, keys) \subseteq S
BY DEF Refer

\* Unless a rewritten file was cut, all that the rows name is on file.
LEMMA LoopWhole ==
  ASSUME Inv, ~torn, NEW kind, NEW field, NEW ids, LoopField(kind, field, ids)
  PROVE  ids \subseteq Ids(LoopRows)
<1> DEFINE S == Ids(LoopRows)
<1>1. \A id :
        /\ Found(store, {}, "candles", id) => <<"market_candle", id>> \in S
        /\ Found(store, {}, "documents", id) => <<"source_document", id>> \in S
        /\ Found(store, {}, "events", id) => <<"canonical_event", id>> \in S
        /\ Found(store, {}, "reactions", id) => <<"market_reaction_check", id>> \in S
        /\ Found(store, {}, "edges", id) => <<"event_edge_evaluation", id>> \in S
        /\ Found(store, {}, "runs", id) => <<"backtest_run", id>> \in S
        /\ Found(store, {}, "results", id) => <<"backtest_result", id>> \in S
        /\ Found(store, {}, "walks", id) => <<"walk_forward_validation", id>> \in S
  BY LoopIds DEF Found
<1>2. /\ \A v \in store["events"] : Passing(store, {}, "events", v)
      /\ \A v \in store["reliability"] : Passing(store, {}, "reliability", v)
      /\ \A r \in store["reactions"] : Passing(store, {}, "reactions", r)
      /\ \A e \in store["edges"] : Passing(store, {}, "edges", e)
      /\ \A b \in store["runs"] : Lasting(store, {}, "runs", b)
      /\ \A b \in store["results"] : Lasting(store, {}, "results", b)
      /\ \A w \in store["walks"] : Lasting(store, {}, "walks", w)
      /\ \A d \in store["decisions"] : Lasting(store, {}, "decisions", d) /\ Passing(store, {}, "decisions", d)
  BY FileNames DEF Inv, LinksOK
<1> HIDE DEF S
<1>3. ASSUME NEW v \in store["events"] PROVE Refer("source_document", {v.id[1]}) \subseteq S
  BY <1>1, <1>2, ReferSubset DEF Passing
<1>4. ASSUME NEW v \in store["reliability"] PROVE Refer("canonical_event", {v.id}) \subseteq S
  BY <1>1, <1>2, ReferSubset DEF Passing
<1>5. ASSUME NEW r \in store["reactions"] PROVE Refer("canonical_event", {r.id[1]}) \subseteq S
  BY <1>1, <1>2, ReferSubset DEF Passing
<1>6. ASSUME NEW e \in store["edges"]
      PROVE  /\ Refer("canonical_event", e.inputs.events) \subseteq S
             /\ Refer("market_reaction_check", e.inputs.checks) \subseteq S
             /\ Refer("market_candle", e.inputs.hours) \subseteq S
  BY <1>1, <1>2, ReferSubset DEF Passing
<1>7. ASSUME NEW b \in store["runs"] PROVE Refer("market_candle", b.hours) \subseteq S
  BY <1>1, <1>2, ReferSubset DEF Lasting
<1>8. ASSUME NEW b \in store["results"] PROVE Refer("backtest_run", {b.id}) \subseteq S
  BY <1>1, <1>2, ReferSubset DEF Lasting
<1>9. ASSUME NEW w \in store["walks"] PROVE Refer("backtest_result", {w.inner}) \subseteq S
  BY <1>1, <1>2, ReferSubset DEF Lasting
<1>10. ASSUME NEW d \in store["decisions"]
       PROVE  /\ Refer("backtest_result", {d.id.bt}) \subseteq S
              /\ Refer("walk_forward_validation", {d.id.wf}) \subseteq S
              /\ Refer("event_edge_evaluation", {d.id.ee}) \subseteq S
  BY <1>1, <1>2, ReferSubset DEF Lasting, Passing
<1>11. ids \subseteq S
  BY <1>3, <1>4, <1>5, <1>6, <1>7, <1>8, <1>9, <1>10 DEF LoopField
<1> QED BY <1>11 DEF S

LEMMA NoneMissing ==
  ASSUME Inv, ~torn
  PROVE  Missing(LoopRows) = {}
<1> DEFINE rows == LoopRows
<1>1. \A row \in rows : \A field \in DOMAIN row.refs : row.refs[field] \subseteq Ids(rows)
  BY LoopFields, LoopWhole
<1> HIDE DEF rows
<1>2. \A row \in rows : Dangling(row, Ids(rows)) = {}
  BY <1>1 DEF Dangling
<1> QED BY <1>2 DEF Missing, rows

-----------------------------------------------------------------------------
(* What the health check finds                                             *)

LEMMA FindingsSplit ==
  ASSUME StateOK
  PROVE  Findings = FindingsOf(BackdropRows(lost, run)) \cup Missing(LoopRows)
<1>1. \A f : f \in Findings <=>
        \/ \E b \in BackdropFindings : b.lost = lost /\ b.run = run /\ f \in b.found
        \/ f \in Missing(LoopRows)
  BY DEF Findings
<1>2. \A b \in BackdropFindings : b.found = FindingsOf(BackdropRows(b.lost, b.run))
  BY DEF BackdropFindings
<1>3. \E b \in BackdropFindings : b.lost = lost /\ b.run = run
  <2> DEFINE b == [lost |-> lost, run |-> run, found |-> FindingsOf(BackdropRows(lost, run))]
  <2>1. b \in BackdropFindings
    BY DEF BackdropFindings, StateOK
  <2> QED BY <2>1
<1> QED BY <1>1, <1>2, <1>3

\* When nothing is missing, what a followed field names is there.
LEMMA FollowedHeld ==
  ASSUME NEW rows, Missing(rows) = {}, NEW row \in rows, NEW field \in DOMAIN row.refs,
         <<row.kind, field>> \in Links
  PROVE  row.refs[field] \subseteq Ids(rows)
<1>1. Dangling(row, Ids(rows)) = {}
  BY DEF Missing
<1> QED BY <1>1 DEF Dangling

LEMMA NotBroken ==
  ASSUME NEW rows, Missing(rows) = {},
         \A row \in rows : \A field \in DOMAIN row.refs : <<row.kind, field>> \in Links \cup Unwatched
  PROVE  ~Broken(rows)
<1>1. \A row \in rows : \A field \in DOMAIN row.refs :
        <<row.kind, field>> \notin Unwatched => row.refs[field] \subseteq Ids(rows)
  BY FollowedHeld
<1> QED BY <1>1 DEF Broken, Ids

\* A run that was blocked is found, whatever file is lost.
LEMMA BlockedFound ==
  ASSUME NoneIsApart, NEW l, NEW r \in Runs, r # None, FindingsOf(BackdropRows(l, r)) = {}
  PROVE  ~RunBlocked(r)
<1> DEFINE rows == BackdropRows(l, r)
           kind == "research_autopilot_run"
<1>0. r # None /\ r.agenda \in 0..2 /\ r.trial \in 0..2 /\ (r.decision \in 0..2 \/ r.decision = None)
  BY DEF Runs
<1>1. Missing(rows) = {} /\ Mismatched(rows) = {} /\ Misplaced(rows) = {} /\ Refused(rows) = {}
  BY DEF FindingsOf
<1>2. \A row \in rows : Shaped(row, l, r)
  BY RowShape
<1>3. ASSUME NEW k, NEW key, <<k, key>> \in Ids(rows)
      PROVE  \E row \in rows : /\ row.id = <<k, key>> /\ row.kind = k /\ key \in 0..2 /\ Shaped(row, l, r)
                               /\ k # kind => row = BackdropRow(k, key)
  <2>1. PICK row \in rows : row.id = <<k, key>>
    BY <1>3 DEF Ids
  <2>2. row.id = <<row.kind, row.id[2]>> /\ row.id[2] \in 0..2 /\ Shaped(row, l, r)
    BY <1>2 DEF Shaped
  <2>3. row.kind = k /\ row.id[2] = key
    BY <2>1, <2>2
  <2>4. k # kind => row = BackdropRow(k, key)
    BY <2>2, <2>3 DEF Shaped
  <2> QED BY <2>1, <2>2, <2>3, <2>4
<1>4. \A row \in rows : \A field \in DOMAIN row.refs :
        <<row.kind, field>> \in Links => row.refs[field] \subseteq Ids(rows)
  BY <1>1, FollowedHeld
<1>5. l # kind
  <2> SUFFICES ASSUME l = kind PROVE FALSE
    OBVIOUS
  <2> DEFINE digest == BackdropRow("strategy_research_digest", 0)
  <2>1. "strategy_research_digest" \in Kinds /\ 0 \in 0..2
    BY KindNames
  <2>2. /\ digest.kind = "strategy_research_digest" /\ digest.id = <<"strategy_research_digest", 0>>
        /\ DOMAIN digest.refs = DOMAIN Schema["strategy_research_digest"]
        /\ \A field \in DOMAIN Schema["strategy_research_digest"] : Exact(digest, field)
    BY <2>1, BackdropRowFacts
  <2>3. digest \in rows
    BY <1>0, <2>2, BackdropOf
  <2> HIDE DEF digest, rows
  <2>4. /\ "autopilot_run_id" \in DOMAIN Schema["strategy_research_digest"]
        /\ Schema["strategy_research_digest"]["autopilot_run_id"] = {kind}
    BY ComparedSchemas DEF DigestFields
  <2>5. <<kind, 0>> \in digest.refs["autopilot_run_id"]
    <3>1. Named(digest.kind, digest.id[2]) = 0
      BY <2>2 DEF Named
    <3> QED BY <2>2, <2>4, <3>1 DEF Exact
  <2>6. <<"strategy_research_digest", "autopilot_run_id">> \in Links
    BY DEF Links, DigestLinks
  <2>7. <<kind, 0>> \in Ids(rows)
    BY <1>4, <2>2, <2>3, <2>4, <2>5, <2>6
  <2>8. PICK row \in rows : row.kind = kind
    BY <1>3, <2>7
  <2> QED BY <1>2, <2>8 DEF Shaped
<1>6. RunRow(r) \in rows
  <2>1. RunRow(r).kind # l
    BY <1>5, RunRowFacts
  <2> QED BY <1>0, <2>1, BackdropOf
<1>7. /\ RunRow(r).kind = kind /\ DOMAIN RunRow(r).refs = DOMAIN Schema[kind]
      /\ {"agenda_id", "strategy_card_id", "experiment_trial_id", "strategy_decision_id",
          "locked_evaluation_id"} \subseteq DOMAIN Schema[kind]
      /\ RunRow(r).refs["agenda_id"] = {<<"research_agenda", r.agenda>>}
      /\ RunRow(r).refs["experiment_trial_id"] = {<<"experiment_trial", r.trial>>}
      /\ r.decision # None => RunRow(r).refs["strategy_decision_id"] = {<<"strategy_decision", r.decision>>}
  <2>1. RunRow(r).refs["strategy_decision_id"]
          = IF r.decision = None THEN {} ELSE {<<"strategy_decision", r.decision>>}
    BY RunRowFacts
  <2>2. r.decision # None => RunRow(r).refs["strategy_decision_id"] = {<<"strategy_decision", r.decision>>}
    BY <2>1
  <2> QED BY <2>2, RunRowFacts
<1>8. /\ <<"locked_evaluation_result", 0>> \in RunRow(r).refs["locked_evaluation_id"]
      /\ <<"strategy_card", 0>> \in RunRow(r).refs["strategy_card_id"]
      /\ \A card \in RunRow(r).refs["strategy_card_id"] : card = <<"strategy_card", 0>>
  <2>0. {"locked_evaluation_id", "strategy_card_id"} \subseteq
          DOMAIN Schema["research_autopilot_run"]
            \ {"agenda_id", "experiment_trial_id", "strategy_decision_id"}
    BY <1>7
  <2>1. Exact(RunRow(r), "locked_evaluation_id") /\ Exact(RunRow(r), "strategy_card_id")
    BY <2>0, RunRowFacts
  <2>2. Named(RunRow(r).kind, RunRow(r).id[2]) = 0
    BY <1>7 DEF Named
  <2>3. /\ Schema[kind]["locked_evaluation_id"] = {"locked_evaluation_result"}
        /\ Schema[kind]["strategy_card_id"] = {"strategy_card"}
    BY ComparedSchemas DEF AgendaSchema
  <2> QED BY <1>7, <2>1, <2>2, <2>3 DEF Exact
<1>9. {<<kind, "agenda_id">>, <<kind, "experiment_trial_id">>, <<kind, "strategy_decision_id">>,
       <<kind, "locked_evaluation_id">>} \subseteq Links
  BY DEF Links, AutopilotLinks
<1> HIDE DEF rows
<1>10. r.trial # 2
  <2> SUFFICES ASSUME r.trial = 2 PROVE FALSE
    OBVIOUS
  <2>1. <<"experiment_trial", 2>> \in Ids(rows)
    BY <1>4, <1>6, <1>7, <1>9
  <2> QED BY <1>3, <2>1 DEF Shaped
<1>11. r.trial # 1
  <2> SUFFICES ASSUME r.trial = 1 PROVE FALSE
    OBVIOUS
  <2>1. <<"locked_evaluation_result", 0>> \in Ids(rows)
    BY <1>4, <1>6, <1>7, <1>8, <1>9
  <2>2. PICK q \in rows : /\ q.id = <<"locked_evaluation_result", 0>> /\ q.kind = "locked_evaluation_result"
                          /\ Shaped(q, l, r)
    BY <1>3, <2>1
  <2>3. /\ "trial_id" \in DOMAIN Schema["locked_evaluation_result"]
        /\ Schema["locked_evaluation_result"]["trial_id"] = {"experiment_trial"}
    BY ComparedSchemas DEF EvaluationSchema
  <2>4. Exact(q, "trial_id") /\ Named(q.kind, q.id[2]) = 0
    BY <2>2, <2>3, RowNames DEF Named
  <2>5. <<"experiment_trial", 1>> \notin q.refs["trial_id"]
    BY <2>2, <2>3, <2>4 DEF Exact
  <2> DEFINE a == Agreement(kind, "locked_evaluation_id", "experiment_trial_id", "trial_id")
  <2>6. /\ a.kind = kind /\ a.via = "locked_evaluation_id" /\ a.own = "experiment_trial_id"
        /\ a.theirs = "trial_id"
    BY DEF Agreement
  <2>7. a \in AutopilotAgreements
    BY DEF AutopilotAgreements
  <2> HIDE DEF a
  <2>8. Disagree(rows, a)
    BY <1>6, <1>7, <1>8, <2>2, <2>5, <2>6 DEF Disagree
  <2>9. <<a.kind, a.via, a.own>> \in Mismatched(rows)
    BY <2>7, <2>8 DEF Mismatched
  <2> QED BY <1>1, <2>9
<1>12. r.agenda # 2
  <2> SUFFICES ASSUME r.agenda = 2 PROVE FALSE
    OBVIOUS
  <2>1. <<"research_agenda", 2>> \in Ids(rows)
    BY <1>4, <1>6, <1>7, <1>9
  <2>2. PICK q \in rows : /\ q.id = <<"research_agenda", 2>> /\ q.kind = "research_agenda"
                          /\ Shaped(q, l, r) /\ q = BackdropRow("research_agenda", 2)
    BY <1>3, <2>1
  <2>3. /\ "strategy_card_ids" \in DOMAIN Schema["research_agenda"]
        /\ Schema["research_agenda"]["strategy_card_ids"] = {"strategy_card"}
    BY ComparedSchemas DEF AgendaSchema
  <2>4. Exact(q, "strategy_card_ids") /\ Named(q.kind, q.id[2]) = 1
    BY <2>2, <2>3, RowNames DEF Named
  <2>5. <<"strategy_card", 0>> \notin q.refs["strategy_card_ids"]
    BY <2>2, <2>3, <2>4 DEF Exact
  <2>6. ~q.lineage
    <3>1. "research_agenda" \in Kinds /\ 2 \in 0..2
      BY KindNames
    <3>2. BackdropRow("research_agenda", 2).lineage = (2 = 1)
      BY <3>1, BackdropRowFacts
    <3>3. 2 # 1
      OBVIOUS
    <3> QED BY <2>2, <3>2, <3>3, Zenon
  <2>7. ~InAgenda(rows, <<"strategy_card", 0>>, q)
    BY <2>5, <2>6 DEF InAgenda
  <2>8. q.id \in RunRow(r).refs["agenda_id"]
    BY <1>7, <2>2
  <2>9. OutsideAgenda(rows, RunRow(r))
    BY <1>7, <1>8, <2>7, <2>8 DEF OutsideAgenda
  <2>10. <<RunRow(r).kind, "agenda_id", "strategy_card_id">> \in Misplaced(rows)
    BY <1>6, <2>9 DEF Misplaced
  <2> QED BY <1>1, <2>10
<1>13. r.decision \notin {1, 2}
  <2> SUFFICES ASSUME r.decision \in {1, 2} PROVE FALSE
    OBVIOUS
  <2>0. r.decision # None
    BY DEF NoneIsApart
  <2>1. <<"strategy_decision", r.decision>> \in RunRow(r).refs["strategy_decision_id"]
    BY <1>7, <2>0
  <2>2. <<"strategy_decision", r.decision>> \in Ids(rows)
    BY <1>4, <1>6, <1>7, <1>9, <2>1
  <2>3. PICK q \in rows : /\ q.id = <<"strategy_decision", r.decision>>
                          /\ q = BackdropRow("strategy_decision", r.decision)
    BY <1>3, <2>2
  <2>4. \E refusal : refusal \in q.refusals
    <3>1. "strategy_decision" \in Kinds /\ r.decision \in 0..2
      BY KindNames
    <3>2. q.refusals = {"not_tradeable", "blocked"} \/ q.refusals = {"fail_closed"}
      BY <2>3, <3>1, BackdropRowFacts
    <3> QED BY <3>2
  <2>5. PICK refusal : refusal \in q.refusals
    BY <2>4
  <2>6. <<kind, refusal>> \in Refused(rows)
    BY <1>6, <1>7, <2>1, <2>3, <2>5 DEF Refused
  <2> QED BY <1>1, <2>6
<1> QED BY <1>0, <1>10, <1>11, <1>12, <1>13 DEF RunBlocked

\* As long as nothing was lost or cut short, and no autopilot run is recorded that was
\* blocked, there is nothing to find (AppendsNeverBreak): every command appends what is
\* named before what names it.
LEMMA WholeStore ==
  ASSUME Inv, NoneIsApart
  PROVE  AppendsNeverBreak
<1> SUFFICES ASSUME lost = None, ~torn, run # None => ~RunBlocked(run) PROVE Findings = {}
  BY DEF AppendsNeverBreak
<1>1. run \in Runs \cup {None}
  BY DEF Inv, StateOK
<1>2. FindingsOf(BackdropRows(lost, run)) = {}
  BY <1>1, WholeChain
<1>3. Missing(LoopRows) = {}
  BY NoneMissing
<1> QED BY <1>2, <1>3, FindingsSplit DEF Inv

LEMMA SoundStore ==
  ASSUME Inv, NoneIsApart, Findings = {}
  PROVE  /\ ~Broken(BackdropRows(lost, run)) /\ ~Broken(LoopRows)
         /\ run # None => ~RunBlocked(run)
<1>1. FindingsOf(BackdropRows(lost, run)) = {} /\ Missing(LoopRows) = {}
  BY FindingsSplit DEF Inv
<1>2. ~Broken(BackdropRows(lost, run))
  <2> DEFINE rows == BackdropRows(lost, run)
  <2>1. \A row \in rows : \A field \in DOMAIN row.refs : <<row.kind, field>> \in Links \cup Unwatched
    <3> SUFFICES ASSUME NEW row \in rows, NEW field \in DOMAIN row.refs
                 PROVE  <<row.kind, field>> \in Links \cup Unwatched
      OBVIOUS
    <3>1. Shaped(row, lost, run)
      BY RowShape
    <3>2. row.kind \in Kinds /\ field \in DOMAIN Schema[row.kind]
      BY <3>1 DEF Shaped
    <3> QED BY <3>2, SchemaSound DEF Sound
  <2>2. Missing(rows) = {}
    BY <1>1 DEF FindingsOf
  <2> HIDE DEF rows
  <2> QED BY <2>1, <2>2, NotBroken DEF rows
<1>3. ~Broken(LoopRows)
  <2>1. \A row \in LoopRows : \A field \in DOMAIN row.refs : <<row.kind, field>> \in Links \cup Unwatched
    BY LoopFields, LoopWatched
  <2> QED BY <1>1, <2>1, NotBroken
<1>4. run # None => ~RunBlocked(run)
  <2>1. run \in Runs \cup {None}
    BY DEF Inv, StateOK
  <2> QED BY <1>1, <2>1, BlockedFound
<1> QED BY <1>2, <1>3, <1>4


\* Nothing is found wrong with a store unless a file was lost or cut short or an
\* autopilot run was recorded that was blocked: no crash between two appends leaves a
\* reference behind (AppendsNeverBreak; health.py, storage.py).
THEOREM AppendsNeverBreakAlways == NoneIsApart => (Spec => []AppendsNeverBreak)
<1> SUFFICES ASSUME NoneIsApart PROVE Spec => []AppendsNeverBreak
  OBVIOUS
<1>1. Inv => AppendsNeverBreak
  BY WholeStore
<1>2. Spec => []Inv
  BY InvAlways
<1> QED BY <1>1, <1>2, PTL

\* A decision to trade is made only on a store in which every reference of every
\* symbol's artifacts, but those known to be unwatched, names a row on file, and next
\* to no autopilot run that was blocked (NoTradeOnABrokenStore; health.py, decision.py).
THEOREM NoTradeOnABrokenStoreAlways == NoneIsApart => (Spec => NoTradeOnABrokenStore)
<1> SUFFICES ASSUME NoneIsApart PROVE Spec => NoTradeOnABrokenStore
  OBVIOUS
<1> DEFINE Trading ==
      decision' # decision /\ decision'.tradeable
      => /\ ~Broken(BackdropRows(lost, run)) /\ ~Broken(LoopRows)
         /\ run # None => ~RunBlocked(run)
<1>1. Inv /\ [Next]_vars => [Trading]_vars
  <2> SUFFICES ASSUME Inv, [Next]_vars, decision' # decision, decision'.tradeable
               PROVE  /\ ~Broken(BackdropRows(lost, run)) /\ ~Broken(LoopRows)
                      /\ run # None => ~RunBlocked(run)
    OBVIOUS
  <2>1. Decides(Findings)
    BY DecidersOnly
  <2>2. Findings = {}
    BY <2>1 DEF Decides, FailClosed
  <2> QED BY <2>2, SoundStore
<1>2. Spec => []Inv
  BY InvAlways
<1>3. NoTradeOnABrokenStore <=> [][Trading]_vars
  BY DEF NoTradeOnABrokenStore
<1> HIDE DEF Trading
<1> QED BY <1>1, <1>2, <1>3, PTL DEF Spec
=============================================================================
