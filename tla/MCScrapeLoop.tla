---------------------------- MODULE MCScrapeLoop ----------------------------
(* Model-checking instances of ScrapeLoop.                                 *)
EXTENDS ScrapeLoop

=============================================================================
