------------------------ MODULE ScrapePipeline_proof ------------------------
(* Proofs about ScrapePipeline, for every shop, depth, channel capacity,   *)
(* batch size and number of runs.                                          *)
EXTENDS ScrapePipeline, TLAPS

(* The phases of the two goroutines that ResultIsTrue depends on: nothing  *)
(* enters the channel once it is closed, the aggregator ends with nothing  *)
(* left, and items are missing only together with dbErr.                   *)
Phases ==
    /\ aggregator = "last" => chan = 0 /\ Closed
    /\ aggregator = "ended" => chan = 0 /\ batch = 0 /\ Closed
    /\ Returned => aggregator = "ended"
    /\ aggregator = "read" => batch < BatchSize
    /\ dbErr = FALSE => lost = 0 /\ unseen = 0
    /\ collector = "ok" => dbErr = FALSE

(* What has been sent while no page was passed over: when the walk ends,   *)
(* it has ended on the last page.                                          *)
Walked ==
    ~cut => /\ collector = "visit" => sent = Before(page)
            /\ collector = "send" => sent + left = site[page]
            /\ collector \in {"close", "wait", "ok", "error"} => sent = site[Len(site)]

IInv == TypeOK /\ ItemsAccounted /\ Phases /\ Walked

USE BoundsAssumption, FaultsAssumption

(* The items of a page are what it adds to the pages before it. *)
LEMMA PageItems ==
  ASSUME site \in Sites, NEW p \in 1 .. Len(site)
  PROVE  site[p] \in Nat /\ Before(p) \in Nat /\ Before(p) <= site[p]
<1>1. site \in Seq(Nat) /\ Len(site) \in Nat
  BY SitesAssumption
<1>2. CASE p = 1
  BY <1>1, <1>2 DEF Before
<1>3. CASE p # 1
  <2>1. p - 1 \in 1 .. Len(site) - 1 /\ p = (p - 1) + 1
    BY <1>1, <1>3
  <2>2. site[p - 1] <= site[p]
    BY <2>1, SitesAssumption
  <2>. QED BY <1>1, <1>3, <2>1, <2>2 DEF Before
<1>. QED BY <1>2, <1>3

(* A shop has a first page. *)
LEMMA FirstPage == \A s \in Sites : s \in Seq(Nat) /\ 1 \in 1 .. Len(s)
  <1> SUFFICES ASSUME NEW s \in Sites PROVE s \in Seq(Nat) /\ 1 \in 1 .. Len(s)
    OBVIOUS
  <1>1. s \in Seq(Nat) /\ s # <<>>
    BY SitesAssumption
  <1>2. Len(s) \in Nat /\ Len(s) # 0
    BY <1>1
  <1> QED BY <1>1, <1>2

(* No step loses count of what the pages visited so far have. *)
LEMMA WalkedStep == IInv /\ [Next]_vars => Walked'
<1> SUFFICES ASSUME IInv, [Next]_vars PROVE Walked'
  OBVIOUS
<1>0. /\ site[page] \in Nat /\ Before(page) \in Nat /\ Before(page) <= site[page]
      /\ Len(site) \in Nat /\ page \in 1 .. Len(site) /\ left \in Nat /\ sent \in Nat
      /\ collector \in {"visit", "send", "close", "wait", "ok", "error"}
      /\ Walked
  BY PageItems, FirstPage DEF IInv, TypeOK
<1>1. CASE UNCHANGED crawl /\ UNCHANGED site
  BY <1>0, <1>1 DEF Walked, Before, crawl
<1>2. CASE Visit
  <2>1. UNCHANGED <<site, page>>
    BY <1>2 DEF Visit, job
  <2> QED BY <1>0, <1>2, <2>1 DEF Visit, Walked
<1>3. CASE VisitFails
  BY <1>3 DEF VisitFails, Walked
<1>4. CASE Send
  <2>1. UNCHANGED <<site, page>>
    BY <1>4 DEF Send, job
  <2> QED BY <1>0, <1>4, <2>1 DEF Send, Walked
<1>5. CASE NextPage
  <2>1. UNCHANGED site
    BY <1>5 DEF NextPage, job
  <2>2. CASE page < Len(site)
    <3>1. page' = page + 1 /\ Before(page + 1) = site[page]
      BY <1>0, <1>5, <2>2 DEF NextPage, Before
    <3>2. Before(page)' = site[page]
      BY <1>0, <2>1, <3>1 DEF Before
    <3> QED BY <1>0, <1>5, <2>1, <2>2, <3>2 DEF NextPage, Walked
  <2>3. CASE ~ (page < Len(site))
    <3>1. page = Len(site)
      BY <1>0, <2>3
    <3> QED BY <1>0, <1>5, <2>1, <2>3, <3>1 DEF NextPage, Walked
  <2> QED BY <2>2, <2>3
<1>6. CASE Close \/ Return
  BY <1>0, <1>6 DEF Close, Return, job, Walked
<1>7. CASE Rerun
  BY <1>7 DEF Rerun, Walked, Before
<1>8. Aggregator \/ UNCHANGED vars => UNCHANGED crawl /\ UNCHANGED site
  BY DEF Aggregator, Receive, End, Flush, FlushFails, Flushed, vars, job
<1> QED BY <1>1, <1>2, <1>3, <1>4, <1>5, <1>6, <1>7, <1>8 DEF Next, Collector

(* Types, accounts and phases are kept by every step of RunScrape.         *)
THEOREM Inductive == Spec => []IInv
<1>1. ASSUME Init PROVE IInv
  <2>1. 1 \in 1 .. Len(site) /\ Len(site) \in Nat
    BY <1>1, FirstPage DEF Init
  <2>2. TypeOK
    <3>1. chan \in 0 .. ChanCap /\ batch \in 0 .. BatchSize
      BY <1>1 DEF Init
    <3>2. page \in 1 .. Len(site)
      BY <1>1, <2>1 DEF Init
    <3>3. runs \in Nat /\ left \in Nat
      BY <1>1 DEF Init
    <3> QED BY <1>1, <3>1, <3>2, <3>3 DEF Init, TypeOK
  <2> QED BY <1>1, <2>2 DEF Init, IInv, ItemsAccounted, Phases, Walked, Before, Returned, Closed
<1>2. ASSUME IInv, [Next]_vars PROVE IInv'
  <2> USE <1>2 DEF IInv, TypeOK, ItemsAccounted, Phases, Returned, Closed
  <2>0. Walked'
    BY WalkedStep
  <2>1. CASE Visit
    <3>1. site[page] - Before(page) \in Nat
      BY PageItems
    <3> QED BY <2>0, <2>1, <3>1 DEF Visit, writes, job
  <2>2. CASE VisitFails BY <2>0, <2>2 DEF VisitFails, writes, job
  <2>3. CASE Send BY <2>0, <2>3 DEF Send, writes, job
  <2>4. CASE NextPage BY <2>0, <2>4, FirstPage DEF NextPage, writes, job
  <2>5. CASE Close BY <2>0, <2>5 DEF Close, writes, job
  <2>6. CASE Return BY <2>0, <2>6 DEF Return, writes, job
  <2>7. CASE Receive BY <2>0, <2>7 DEF Receive, crawl, job
  <2>8. CASE End BY <2>0, <2>8 DEF End, crawl, job
  <2>9. CASE Flush BY <2>0, <2>9 DEF Flush, Flushed, crawl, job
  <2>10. CASE FlushFails BY <2>0, <2>10 DEF FlushFails, Flushed, crawl, job
  <2>11. CASE Rerun
    <3>1. 1 \in 1 .. Len(site)
      BY FirstPage
    <3>2. TypeOK'
      <4>1. (chan \in 0 .. ChanCap /\ batch \in 0 .. BatchSize)'
        BY <2>11 DEF Rerun
      <4>2. (page \in 1 .. Len(site))'
        BY <2>11, <3>1 DEF Rerun
      <4>3. (runs \in Nat /\ earlier \in Nat)'
        BY <2>11 DEF Rerun
      <4> QED BY <2>11, <4>1, <4>2, <4>3 DEF Rerun
    <3>3. ItemsAccounted' /\ Phases'
      BY <2>11 DEF Rerun
    <3> QED BY <2>0, <3>2, <3>3
  <2>12. CASE UNCHANGED vars BY <2>0, <2>12 DEF vars, crawl, writes, job
  <2> QED
    BY <1>2, <2>1, <2>2, <2>3, <2>4, <2>5, <2>6, <2>7, <2>8, <2>9, <2>10,
       <2>11, <2>12 DEF Next, Collector, Aggregator
<1> QED BY <1>1, <1>2, PTL DEF Spec

(* The types of the pipeline: neither channel nor batch outgrows its room. *)
THEOREM TypeCorrect == Spec => []TypeOK
<1>1. IInv => TypeOK BY DEF IInv
<1> QED BY <1>1, Inductive, PTL

(* No item the collector sent is lost or counted twice unnoticed.          *)
THEOREM ItemsAlwaysAccounted == Spec => []ItemsAccounted
<1>1. IInv => ItemsAccounted BY DEF IInv
<1> QED BY <1>1, Inductive, PTL

(* RunScrape never returns a count or a success that is not true.          *)
THEOREM ResultAlwaysTrue == Spec => []ResultIsTrue
<1>1. IInv => ResultIsTrue
  BY DEF IInv, TypeOK, ItemsAccounted, Phases, ResultIsTrue, Returned
<1> QED BY <1>1, Inductive, PTL

(* A run of RunScrape that returns no error and passed over no page has    *)
(* put every item of the shop in the table, once.                          *)
THEOREM CompletedAlwaysComplete == Spec => []CompletedIsComplete
<1>1. IInv => CompletedIsComplete
  BY DEF IInv, TypeOK, ItemsAccounted, Phases, Walked, CompletedIsComplete, Returned
<1> QED BY <1>1, Inductive, PTL
=============================================================================
