-------------------------- MODULE MCScrapePipeline --------------------------
(* Model-checking instances of ScrapePipeline.                             *)
EXTENDS ScrapePipeline

(* Shops of one to three pages with up to three items each.                *)
SmallSites ==
    {s \in UNION {[1 .. n -> 0 .. 9] : n \in 1 .. 3} :
        s[1] <= 3 /\ \A p \in 1 .. Len(s) - 1 : s[p + 1] \in s[p] .. s[p] + 3}
=============================================================================
