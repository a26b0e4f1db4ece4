--------------------------- MODULE ScrapePipeline ---------------------------
(***************************************************************************)
(* RunScrape: a collector that walks the pages of a shop and puts the      *)
(* items it finds on a buffered channel, and an aggregator that writes     *)
(* them to the table in batches.  A page that cannot be fetched ends the   *)
(* walk; a batch that cannot be written is dropped and the walk goes on.   *)
(* When the worker dies the job may be run again, from the first page.     *)
(*                                                                         *)
(* Items are all alike, so the module counts them.  A shop is given by the *)
(* number of items on its pages up to and including each page.             *)
(***************************************************************************)
EXTENDS Naturals, Sequences

CONSTANTS
    Sites,      \* the shops: of each page, the items up to its end
    MaxDepth,   \* pages the collector follows
    ChanCap,    \* capacity of resultsChan
    BatchSize,
    MaxRuns,    \* bound on the runs of the job
    Faults      \* what may go wrong

ASSUME SitesAssumption ==
    \A s \in Sites : /\ s \in Seq(Nat) \ {<<>>}
                     /\ \A p \in 1 .. Len(s) - 1 : s[p] <= s[p + 1]
ASSUME BoundsAssumption == /\ MaxDepth \in Nat \ {0} /\ ChanCap \in Nat \ {0}
                           /\ BatchSize \in Nat \ {0} /\ MaxRuns \in Nat
ASSUME FaultsAssumption == Faults \subseteq {"fetch", "write", "reply", "crash"}

VARIABLES
    site,       \* the shop
    collector,  \* visit, send, close, wait; then the result: ok, error
    page,       \* the page it is on
    left,       \* items of that page still to send
    visitErr,   \* the error of the first Visit
    chan,       \* items in resultsChan
    aggregator, \* read, flush, last, ended
    batch,      \* items in batch
    totalSaved,
    dbErr,
    table,      \* the job's rows in scraped_items
    sent, lost, unseen,  \* history: items sent, dropped, written without
                         \* the aggregator knowing
    earlier,    \* history: rows that were there when the run began
    cut,        \* history: a page was not visited
    runs

crawl == <<collector, page, left, visitErr, sent, cut>>
writes == <<aggregator, batch, totalSaved, dbErr, table, lost, unseen>>
job == <<site, earlier, runs>>
vars == <<crawl, chan, writes, job>>

TypeOK ==
    /\ site \in Sites
    /\ collector \in {"visit", "send", "close", "wait", "ok", "error"}
    /\ page \in 1 .. Len(site)
    /\ left \in Nat
    /\ chan \in 0 .. ChanCap
    /\ aggregator \in {"read", "flush", "last", "ended"}
    /\ batch \in 0 .. BatchSize
    /\ visitErr \in BOOLEAN /\ dbErr \in BOOLEAN /\ cut \in BOOLEAN
    /\ totalSaved \in Nat /\ table \in Nat /\ earlier \in Nat /\ runs \in Nat
    /\ sent \in Nat /\ lost \in Nat /\ unseen \in Nat

Init ==
    /\ site \in Sites
    /\ collector = "visit" /\ page = 1 /\ left = 0 /\ visitErr = FALSE
    /\ chan = 0
    /\ aggregator = "read" /\ batch = 0 /\ totalSaved = 0 /\ dbErr = FALSE
    /\ table = 0 /\ earlier = 0 /\ runs = 1
    /\ sent = 0 /\ lost = 0 /\ unseen = 0 /\ cut = FALSE

-----------------------------------------------------------------------------
(* The collector.                                                          *)

(* The items of the pages before page p. *)
Before(p) == IF p = 1 THEN 0 ELSE site[p - 1]

(* A page within the depth is fetched ... *)
Visit ==
    /\ collector = "visit"
    /\ page <= MaxDepth
    /\ collector' = "send"
    /\ left' = site[page] - Before(page)
    /\ UNCHANGED <<page, visitErr, sent, cut, chan, writes, job>>

(* ... or not; only the error of the first page is looked at. *)
VisitFails ==
    /\ collector = "visit"
    /\ page > MaxDepth \/ "fetch" \in Faults
    /\ collector' = "close"
    /\ cut' = TRUE
    /\ visitErr' = (page = 1)
    /\ UNCHANGED <<page, left, sent, chan, writes, job>>

(* The send blocks while the channel is full. *)
Send ==
    /\ collector = "send" /\ left > 0
    /\ chan < ChanCap
    /\ chan' = chan + 1
    /\ left' = left - 1
    /\ sent' = sent + 1
    /\ UNCHANGED <<collector, page, visitErr, cut, writes, job>>

(* The link to the next page comes after the items, if there is one. *)
NextPage ==
    /\ collector = "send" /\ left = 0
    /\ IF page < Len(site) THEN collector' = "visit" /\ page' = page + 1
                           ELSE collector' = "close" /\ UNCHANGED page
    /\ UNCHANGED <<left, visitErr, sent, cut, chan, writes, job>>

Close ==
    /\ collector = "close"
    /\ collector' = "wait"
    /\ UNCHANGED <<page, left, visitErr, sent, cut, chan, writes, job>>

(* RunScrape returns without the aggregator. *)
ReturnEarly ==
    /\ collector = "wait"
    /\ collector' = IF visitErr \/ dbErr THEN "error" ELSE "ok"
    /\ UNCHANGED <<page, left, visitErr, sent, cut, chan, writes, job>>

(* aggregatorWg.Wait, before totalSaved and dbErr are read. *)
Return ==
    /\ collector = "wait" /\ aggregator = "ended"
    /\ collector' = IF visitErr \/ dbErr THEN "error" ELSE "ok"
    /\ UNCHANGED <<page, left, visitErr, sent, cut, chan, writes, job>>

-----------------------------------------------------------------------------
(* The aggregator.                                                         *)

(* resultsChan is closed. *)
Closed == collector \in {"wait", "ok", "error"}

Receive ==
    /\ aggregator = "read" /\ chan > 0
    /\ chan' = chan - 1
    /\ batch' = batch + 1
    /\ aggregator' = IF batch + 1 >= BatchSize THEN "flush" ELSE "read"
    /\ UNCHANGED <<crawl, totalSaved, dbErr, table, lost, unseen, job>>

(* The loop ends without writing the rest. *)
EndUnflushed ==
    /\ aggregator = "read" /\ chan = 0 /\ Closed
    /\ aggregator' = "ended"
    /\ UNCHANGED <<crawl, chan, batch, totalSaved, dbErr, table, lost, unseen, job>>

(* The channel is closed and empty: what is left is written, if anything. *)
End ==
    /\ aggregator = "read" /\ chan = 0 /\ Closed
    /\ aggregator' = IF batch = 0 THEN "ended" ELSE "last"
    /\ UNCHANGED <<crawl, chan, batch, totalSaved, dbErr, table, lost, unseen, job>>

Flushed ==
    /\ aggregator \in {"flush", "last"}
    /\ aggregator' = IF aggregator = "last" THEN "ended" ELSE "read"
    /\ UNCHANGED <<crawl, chan, job>>

(* The batch is not emptied after it was written. *)
FlushAgain ==
    /\ Flushed
    /\ table' = table + batch
    /\ totalSaved' = totalSaved + batch
    /\ UNCHANGED <<batch, dbErr, lost, unseen>>

Flush ==
    /\ Flushed
    /\ batch' = 0
    /\ table' = table + batch
    /\ totalSaved' = totalSaved + batch
    /\ UNCHANGED <<dbErr, lost, unseen>>

(* The batch is kept for the next flush. *)
FlushFailsKeeping ==
    /\ Flushed
    /\ "write" \in Faults
    /\ dbErr' = TRUE
    /\ UNCHANGED <<batch, table, totalSaved, lost, unseen>>

(* The aggregator gives up after an error. *)
FlushFailsForGood ==
    /\ aggregator \in {"flush", "last"}
    /\ "write" \in Faults
    /\ aggregator' = "ended"
    /\ batch' = 0 /\ dbErr' = TRUE /\ lost' = lost + batch
    /\ UNCHANGED <<crawl, chan, job, table, totalSaved, unseen>>

FlushFails ==
    /\ Flushed
    /\ batch' = 0 /\ dbErr' = TRUE
    /\ \/ "write" \in Faults /\ lost' = lost + batch /\ UNCHANGED <<table, unseen>>
       \/ /\ "reply" \in Faults
          /\ table' = table + batch /\ unseen' = unseen + batch /\ UNCHANGED lost
    /\ UNCHANGED totalSaved

-----------------------------------------------------------------------------
(* The worker dies and the job is requeued, or it is due again.            *)
Rerun ==
    /\ runs < MaxRuns
    /\ collector \in {"ok", "error"} \/ "crash" \in Faults
    /\ runs' = runs + 1
    /\ earlier' = table
    /\ collector' = "visit" /\ page' = 1 /\ left' = 0 /\ visitErr' = FALSE
    /\ chan' = 0
    /\ aggregator' = "read" /\ batch' = 0 /\ totalSaved' = 0 /\ dbErr' = FALSE
    /\ sent' = 0 /\ lost' = 0 /\ unseen' = 0 /\ cut' = FALSE
    /\ UNCHANGED <<site, table>>

Collector == Visit \/ VisitFails \/ Send \/ NextPage \/ Close \/ Return
Aggregator == Receive \/ End \/ Flush \/ FlushFails

Next == Collector \/ Aggregator \/ Rerun

Spec == Init /\ [][Next]_vars

(* Requests and statements end, and a goroutine that can go on does.       *)
FairSpec == Spec /\ WF_vars(Collector) /\ WF_vars(Aggregator)

-----------------------------------------------------------------------------
(* Properties.                                                             *)

Returned == collector \in {"ok", "error"}

(* Every item sent is in the channel, in the batch, counted as saved, in a *)
(* batch that was dropped, or written unknown to the aggregator; and the   *)
(* table has grown by what was written (RunScrape, flush).                 *)
ItemsAccounted ==
    /\ sent = chan + batch + totalSaved + lost + unseen
    /\ table = earlier + totalSaved + unseen

(* What RunScrape returns is true when it returns: without an error every  *)
(* item sent is a row of the table and counted once; with an error no more *)
(* is counted than the table got, and nothing is written any more.         *)
ResultIsTrue ==
    Returned =>
        /\ chan = 0 /\ batch = 0 /\ aggregator = "ended"
        /\ earlier + totalSaved <= table /\ table <= earlier + sent
        /\ collector = "ok" => totalSaved = sent /\ table = earlier + sent

(* A job whose run returns no error has the items of the whole shop, each  *)
(* once for this run, unless a page was not visited: an error of any page  *)
(* but the first, or the depth limit, ends the walk without being told.    *)
CompletedIsComplete ==
    collector = "ok" /\ ~cut => table = earlier + site[Len(site)]

(* RunScrape returns: the collector is not left blocked on a full channel, *)
(* whatever happens to the batches.                                        *)
RunReturns == []<>Returned

=============================================================================
