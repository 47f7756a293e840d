---------------------------- MODULE MCRssService ----------------------------
(* One feed, or a second one for the second item.                            *)
EXTENDS RssService

CONSTANTS f1, f2

OneFeed == [i \in Items |-> f1]
TwoFeeds == [i \in Items |-> IF i = 2 THEN f2 ELSE f1]

=============================================================================
