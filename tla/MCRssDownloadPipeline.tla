----------------------- MODULE MCRssDownloadPipeline -----------------------
(* A finite instance of one lane: the items and threads are model values,  *)
(* the limits a caller asks for include one that must be clamped.          *)
EXTENDS RssDownloadPipeline, TLC

AskedLimits == {0, 2}

=============================================================================
