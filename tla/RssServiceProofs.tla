-------------------------- MODULE RssServiceProofs --------------------------
(***************************************************************************)
(* What the functions of the service preserve, each on its own, and from   *)
(* that the invariants of RssService, for any feeds, items and settings.   *)
(***************************************************************************)
EXTENDS RssService, SequenceTheorems, TLAPS

Service ==
    [feeds : SUBSET Feeds, unused : SUBSET Feeds, enabled : SUBSET Feeds,
     auto : SUBSET Feeds, on : BOOLEAN, matching : SUBSET Items,
     items : SUBSET Items, queued : SUBSET Items, downloaded : SUBSET Items,
     ignored : SUBSET Items, waiting : SUBSET Items, eligible : SUBSET Items,
     index : SUBSET Items]

FeedsApart(s) ==
    /\ s.enabled \subseteq s.feeds /\ s.auto \subseteq s.feeds
    /\ s.unused \cap s.feeds = {}

FlagsListed(s) ==
    /\ s.queued \subseteq s.items /\ s.downloaded \subseteq s.items
    /\ s.ignored \subseteq s.items /\ s.eligible \subseteq s.items

Marked(s) == s.waiting \subseteq s.items /\ s.waiting \cap s.queued = {}

Owned(s) == \A i \in s.items : FeedOf[i] \in s.feeds

\* What the functions of the service may leave for the next one to repair:
\* between the items of a feed and the pruning of orphans ...
Loose(s) == s \in Service /\ FeedsApart(s) /\ FlagsListed(s) /\ Marked(s)

\* ... and between a download and the marking of what waits.
Unmarked(s) == /\ s \in Service /\ FeedsApart(s) /\ FlagsListed(s)
               /\ s.index = s.items /\ Owned(s)

\* What holds between the steps.
Good(s) == Unmarked(s) /\ Marked(s)

-----------------------------------------------------------------------------
(* Lemmas about the service's functions.                                    *)

\* What Drop leaves is in order but for the owners of the items.
LEMMA DropGood ==
    ASSUME NEW s, Loose(s), NEW gone
    PROVE  LET d == Drop(s, gone) IN
           /\ Loose(d) /\ d.index = d.items
           /\ d.items = s.items \ gone /\ d.feeds = s.feeds
  BY DEF Loose, Drop, Service, FeedsApart, FlagsListed, Marked

\* Dropping items of a service that is in order keeps it in order.
LEMMA DropKeepsGood ==
    ASSUME NEW s, Good(s), NEW gone
    PROVE  Good(Drop(s, gone))
<1>1. Loose(s)
  BY DEF Good, Unmarked, Loose
<1>2. Owned(Drop(s, gone))
  BY <1>1, DropGood DEF Good, Unmarked, Owned
<1> QED
  BY <1>1, <1>2, DropGood DEF Good, Unmarked, Loose

\* Dropping items queues nothing.
LEMMA DropQueue ==
    ASSUME NEW s, Loose(s), NEW gone
    PROVE  Drop(s, gone).queued \subseteq s.queued
  BY DEF Loose, Drop, Service

\* pruneItemsWithoutMatchingFeed puts the items and the index in order.
LEMMA PruneGood ==
    ASSUME NEW s, Loose(s)
    PROVE  Good(PruneOrphans(s))
<1> DEFINE gone == {i \in s.items : FeedOf[i] \notin s.feeds}
<1>1. PruneOrphans(s) = Drop(s, gone)
  BY DEF PruneOrphans
<1>2. Owned(Drop(s, gone))
  BY DropGood DEF Owned
<1> HIDE DEF gone
<1> QED
  BY <1>1, <1>2, DropGood DEF Good, Unmarked, Loose

\* An arrival may bring items of a feed that is gone; they are pruned.
LEMMA ArrivedGood ==
    ASSUME NEW s, Good(s), NEW f, NEW offered \in SUBSET Items
    PROVE  Good(Arrived(s, f, offered))
<1> DEFINE a == [s EXCEPT !.items = @ \cup (offered \ s.index),
                          !.index = @ \cup offered]
<1>1. Loose(a)
  BY DEF Good, Unmarked, Marked, Loose, Service, FeedsApart, FlagsListed
<1>2. Arrived(s, f, offered) = PruneOrphans(a)
  BY DEF Arrived
<1> HIDE DEF a
<1> QED
  BY <1>1, <1>2, PruneGood

\* A diagnosis changes nothing but which items count as eligible.
LEMMA DiagnoseUnmarked ==
    ASSUME NEW s, Unmarked(s), NEW S
    PROVE  Unmarked(Diagnose(s, S))
  BY DEF Unmarked, Diagnose, Eligible, Service, FeedsApart, FlagsListed, Owned

\* Nor do the overflow markers.
LEMMA MarkOverflowUnmarked ==
    ASSUME NEW s, Unmarked(s)
    PROVE  Unmarked(MarkOverflow(s))
  BY DEF Unmarked, MarkOverflow, Service, FeedsApart, FlagsListed, Owned

\* Nothing that is queued is in the backlog.
LEMMA BacklogFree ==
    ASSUME NEW s, Unmarked(s)
    PROVE  Backlog(s) \subseteq s.items \ s.queued
  BY DEF Unmarked, Backlog, Newest, Candidates, Blocked, FlagsListed

\* syncRssAutoWaitlistMarkers marks afresh what waits.
LEMMA SyncWaitlistGood ==
    ASSUME NEW s, Unmarked(s)
    PROVE  Good(SyncWaitlist(s))
<1> DEFINE waiting == IF s.on THEN Backlog(s) \ Newest(Backlog(s), FreeSlots(s))
                      ELSE {}
<1>1. waiting \subseteq s.items \ s.queued
  BY BacklogFree
<1>2. SyncWaitlist(s) = [s EXCEPT !.waiting = waiting]
  BY DEF SyncWaitlist
<1> HIDE DEF waiting
<1> QED
  BY <1>1, <1>2 DEF Good, Unmarked, Marked, Service, FeedsApart, FlagsListed, Owned

\* A download queues items of the list only.
LEMMA HandOutUnmarked ==
    ASSUME NEW s, Unmarked(s), NEW S
    PROVE  Unmarked(HandOut(s, S))
  BY DEF Unmarked, HandOut, Service, FeedsApart, FlagsListed, Owned

\* refreshAutoDownloadDiagnostics ends with fresh marks.
LEMMA DiagnosticsGood ==
    ASSUME NEW s, Unmarked(s), NEW S, NEW t \in Diagnostics(s, S)
    PROVE  Good(t)
<1>1. t = SyncWaitlist(MarkOverflow(Diagnose(s, S)))
  BY DEF Diagnostics
<1> QED
  BY <1>1, DiagnoseUnmarked, MarkOverflowUnmarked, SyncWaitlistGood

\* A diagnosis queues nothing.
LEMMA DiagnosticsQueue ==
    ASSUME NEW s, Unmarked(s), NEW S, NEW t \in Diagnostics(s, S)
    PROVE  t.queued = s.queued
<1> DEFINE d == Diagnose(s, S)
           m == MarkOverflow(d)
<1>1. Unmarked(d) /\ d.queued = s.queued
  BY DiagnoseUnmarked DEF Diagnose, Unmarked, Service
<1>2. t = SyncWaitlist(m)
  BY DEF Diagnostics
<1> HIDE DEF d
<1>3. Unmarked(m) /\ m.queued = d.queued
  BY <1>1, MarkOverflowUnmarked DEF MarkOverflow, Unmarked, Service
<1> HIDE DEF m
<1>4. t.queued = m.queued
  BY <1>2, <1>3 DEF SyncWaitlist, Unmarked, Service
<1> QED
  BY <1>1, <1>3, <1>4

\* A pump leaves the marks as they are or marks everything afresh.
LEMMA DispatchGood ==
    ASSUME NEW s, Good(s), NEW diagnose, NEW t \in Dispatch(s, diagnose)
    PROVE  Good(t)
<1>1. CASE ~s.on
  BY <1>1 DEF Dispatch
<1>2. CASE s.on
  <2>1. PICK d \in {IF diagnose THEN Diagnose(s, Items) ELSE s} :
             t = SyncWaitlist(MarkOverflow(Started(d)))
    BY <1>2 DEF Dispatch
  <2>2. Unmarked(d)
    BY <2>1, DiagnoseUnmarked DEF Good
  <2>3. Unmarked(Started(d))
    BY <2>2, HandOutUnmarked DEF Started
  <2> QED
    BY <2>1, <2>3, MarkOverflowUnmarked, SyncWaitlistGood
<1> QED
  BY <1>1, <1>2

\* The same of a redrawing of all pages and the pump it starts.
LEMMA RefreshedGood ==
    ASSUME NEW s, Good(s), NEW t \in Refreshed(s)
    PROVE  Good(t)
<1>1. PICK d \in Diagnostics(s, Items) : t \in Dispatch(d, FALSE)
  BY DEF Refreshed
<1> QED
  BY <1>1, DiagnosticsGood, DispatchGood DEF Good

-----------------------------------------------------------------------------
(* The inductive invariant.                                                 *)

Refresh ==
    [feed : Feeds, rest : SUBSET Feeds, stale : BOOLEAN,
     by : {"timer", "page", "reload", "single"}]

\* The service and what the pipeline owes it.
Served == Good(rss) /\ requests \in [Items -> Nat] /\ QueuedHasRequest

IInv == Served /\ fetches \in Seq(Refresh)

\* Whatever becomes queued gets a request, and no request is withdrawn.
LEMMA BecomesServed ==
    ASSUME Served, NEW t, Good(t), Becomes(t)
    PROVE  Served'
<1>1. requests' \in [Items -> Nat]
  BY DEF Served, Becomes
<1>2. rss' = t /\ t.queued \subseteq Items
  BY DEF Becomes, Good, Unmarked, Service
<1>3. ASSUME NEW i \in t.queued PROVE requests'[i] > 0
  <2>1. CASE i \in rss.queued
    BY <1>2, <1>3, <2>1 DEF Served, Becomes, QueuedHasRequest
  <2>2. CASE i \notin rss.queued
    BY <1>2, <1>3, <2>2 DEF Served, Becomes
  <2> QED
    BY <2>1, <2>2
<1> QED
  BY <1>1, <1>2, <1>3 DEF Served, QueuedHasRequest, Good, Unmarked, Marked,
        FeedsApart, FlagsListed, Owned, Service

\* The callers of refreshAllFeeds prune, pump, or leave the service alone.
LEMMA RefreshEndsServed ==
    ASSUME Served, NEW s, Good(s), NEW by, RefreshEnds(s, by)
    PROVE  Served'
<1>1. CASE Becomes(s)
  BY <1>1, BecomesServed
<1>2. CASE \E cutoff \in Items \cup {0} :
           \E p \in {PruneOrphans(PruneHistory(s, cutoff))} :
              (\E t \in Dispatch(p, TRUE) : Becomes(t)) \/ Becomes(p)
  <2>1. PICK cutoff \in Items \cup {0} :
           \E p \in {PruneOrphans(PruneHistory(s, cutoff))} :
              (\E t \in Dispatch(p, TRUE) : Becomes(t)) \/ Becomes(p)
    BY <1>2
  <2> DEFINE p == PruneOrphans(PruneHistory(s, cutoff))
  <2>2. Good(PruneHistory(s, cutoff))
    BY DropKeepsGood DEF PruneHistory
  <2>3. Good(p)
    BY <2>2, PruneGood DEF Good, Unmarked, Loose
  <2>4. (\E t \in Dispatch(p, TRUE) : Becomes(t)) \/ Becomes(p)
    BY <2>1
  <2> HIDE DEF p
  <2> QED
    BY <2>3, <2>4, DispatchGood, BecomesServed
<1> QED
  BY <1>1, <1>2 DEF RefreshEnds

\* Going on to a feed, or ending, keeps the invariant.
LEMMA NextFeedInv ==
    ASSUME Served, NEW s, Good(s), NEW rest \in SUBSET Feeds,
           NEW by \in {"timer", "page", "reload", "single"},
           NEW outer \in Seq(Refresh), NextFeed(s, rest, by, outer)
    PROVE  IInv'
<1>1. CASE \E f \in rest : /\ Becomes(s)
                           /\ fetches' = <<Fetch(f, rest \ {f}, by)>> \o outer
  <2>1. PICK f \in rest : /\ Becomes(s)
                          /\ fetches' = <<Fetch(f, rest \ {f}, by)>> \o outer
    BY <1>1
  <2>2. Fetch(f, rest \ {f}, by) \in Refresh
    BY DEF Fetch, Refresh
  <2>3. fetches' \in Seq(Refresh)
    BY <2>1, <2>2
  <2> QED
    BY <2>1, <2>3, BecomesServed DEF IInv
<1>2. CASE fetches' = outer /\ RefreshEnds(s, by)
  BY <1>2, RefreshEndsServed DEF IInv
<1> QED
  BY <1>1, <1>2 DEF NextFeed

\* An empty list needs nothing.
LEMMA InitIInv == ASSUME Init PROVE IInv
<1>1. PICK F \in SUBSET Feeds :
        rss = [feeds |-> F, unused |-> Feeds \ F, enabled |-> F, auto |-> F,
               on |-> TRUE, matching |-> Items, items |-> {}, queued |-> {},
               downloaded |-> {}, ignored |-> {}, waiting |-> {},
               eligible |-> {}, index |-> {}]
  BY DEF Init
<1>2. Good(rss) /\ rss.queued = {}
  BY <1>1 DEF Good, Unmarked, Marked, Service, FeedsApart, FlagsListed, Owned
<1> QED
  BY <1>2 DEF Init, IInv, Served, QueuedHasRequest

-----------------------------------------------------------------------------
(* One lemma per group of actions.                                          *)

\* A refresh begins with the feeds there are.
LEMMA RssTimerInv == ASSUME IInv, RssTimer PROVE IInv'
<1>1. rss.feeds \in SUBSET Feeds
  BY DEF IInv, Served, Good, Unmarked, Service
<1> QED
  BY <1>1, NextFeedInv DEF RssTimer, IInv, Served

\* A refresh goes on with what it remembers, or the process ends.
LEMMA FetchReturnsInv == ASSUME IInv, FetchReturns PROVE IInv'
<1> DEFINE top == Head(fetches)
<1>1. fetches # <<>> /\ fetches \in Seq(Refresh)
  BY DEF FetchReturns, IInv
<1>2. top \in Refresh /\ Tail(fetches) \in Seq(Refresh)
  BY <1>1, HeadTailProperties
<1>3. CASE \E offered \in SUBSET {i \in ItemsOf(top.feed) : requests[i] < MaxRequests} :
            \E s \in {Arrived(rss, top.feed, offered)},
               rest \in IF top.stale THEN SUBSET top.rest ELSE {top.rest} :
              NextFeed(s, rest, top.by, Tail(fetches))
  <2>1. PICK offered \in SUBSET Items,
             rest \in IF top.stale THEN SUBSET top.rest ELSE {top.rest} :
               NextFeed(Arrived(rss, top.feed, offered), rest, top.by, Tail(fetches))
    BY <1>3 DEF ItemsOf
  <2>2. rest \in SUBSET Feeds /\ top.by \in {"timer", "page", "reload", "single"}
    BY <1>2 DEF Refresh
  <2>3. Served /\ Good(Arrived(rss, top.feed, offered))
    BY ArrivedGood DEF IInv, Served
  <2> HIDE DEF top
  <2> QED
    BY <1>2, <2>1, <2>2, <2>3, NextFeedInv
<1>4. CASE UNCHANGED <<rss, requests, fetches>>
  BY <1>4 DEF IInv, Served, QueuedHasRequest, Good, Unmarked, Marked,
        FeedsApart, FlagsListed, Owned, Service
<1> QED
  BY <1>3, <1>4 DEF FetchReturns

\* A settlement takes a request back; an item of the list frees its slot, and
\* one that is not in the list has none.
LEMMA SettleInv ==
    ASSUME IInv, NEW i \in Items, NEW ok \in BOOLEAN, Settle(i, ok)
    PROVE  IInv'
<1> DEFINE t == SettledItem(rss, i, ok)
<1>1. Good(rss) /\ requests \in [Items -> Nat] /\ rss.queued \subseteq Items
  BY DEF IInv, Served, Good, Unmarked, Service
<1>2. Good(t) /\ t.queued = rss.queued \ {i}
  BY <1>1 DEF SettledItem, Good, Unmarked, Marked, Service, FeedsApart,
        FlagsListed, Owned
<1>3. rss' = t /\ requests' = [requests EXCEPT ![i] = @ - 1] /\ requests[i] > 0
  BY DEF Settle
<1>4. requests' \in [Items -> Nat]
  BY <1>1, <1>3
<1>5. \A j \in t.queued : requests'[j] > 0
  BY <1>1, <1>2, <1>3 DEF IInv, Served, QueuedHasRequest
<1>6. fetches' = fetches
  BY DEF Settle
<1> HIDE DEF t
<1> QED
  BY <1>2, <1>3, <1>4, <1>5, <1>6 DEF IInv, Served, QueuedHasRequest, Good,
        Unmarked, Marked, FeedsApart, FlagsListed, Owned, Service

\* The three pumps no user is behind.
LEMMA PumpsInv ==
    ASSUME IInv, FollowUp \/ RefreshViews \/ Reloaded
    PROVE  IInv'
<1>1. CASE FollowUp
  BY <1>1, DispatchGood, BecomesServed DEF FollowUp, IInv, Served
<1>2. CASE RefreshViews
  BY <1>2, RefreshedGood, BecomesServed DEF RefreshViews, IInv, Served
<1>3. CASE Reloaded
  <2>1. PICK d \in Refreshed(rss) : \E t \in Dispatch(d, TRUE) : Becomes(t)
    BY <1>3 DEF Reloaded
  <2>2. Good(d) /\ Served
    BY <2>1, RefreshedGood DEF IInv, Served
  <2>3. Served' /\ fetches' = fetches
    BY <1>3, <2>1, <2>2, DispatchGood, BecomesServed DEF Reloaded
  <2> QED
    BY <2>3 DEF IInv
<1> QED
  BY <1>1, <1>2, <1>3

\* An operation that queues nothing and withdraws no request.
LEMMA QuietInv ==
    ASSUME IInv, Good(rss'), rss'.queued \subseteq rss.queued, requests' = requests,
           fetches' \in Seq(Refresh)
    PROVE  IInv'
  BY DEF IInv, Served, QueuedHasRequest, Good, Unmarked, Marked, FeedsApart,
         FlagsListed, Owned, Service

\* Feeds added and removed during a fetch leave dangling iterators only.
LEMMA DangleTyped ==
    ASSUME fetches \in Seq(Refresh)
    PROVE  Dangle \in Seq(Refresh) /\ \A r \in Refresh : <<r>> \o fetches \in Seq(Refresh)
                                      /\ <<r>> \o Dangle \in Seq(Refresh)
<1>1. \A n \in DOMAIN fetches : [fetches[n] EXCEPT !.stale = TRUE] \in Refresh
  <2> TAKE n \in DOMAIN fetches
  <2>1. fetches[n] \in Refresh
    OBVIOUS
  <2> QED
    BY <2>1 DEF Refresh
<1>2. Dangle \in Seq(Refresh)
  BY <1>1 DEF Dangle
<1> QED
  BY <1>2

\* The operations of the feeds page on one feed.
LEMMA UserFeedsInv ==
    ASSUME IInv, NEW f \in Feeds,
           RefreshFeed(f) \/ AddFeed(f) \/ RemoveFeed(f) \/ ToggleFeed(f) \/ ClearItems(f)
    PROVE  IInv'
<1>0. /\ Good(rss) /\ Served /\ fetches \in Seq(Refresh)
      /\ Fetch(f, {}, "single") \in Refresh
  BY DEF IInv, Served, Fetch, Refresh
<1>1. CASE RefreshFeed(f)
  BY <1>0, <1>1, DangleTyped, QuietInv DEF RefreshFeed
<1>2. CASE AddFeed(f)
  <2>1. Good(rss') /\ rss'.queued = rss.queued
    BY <1>0, <1>2 DEF AddFeed, Good, Unmarked, Marked, Service, FeedsApart,
          FlagsListed, Owned
  <2> QED
    BY <1>0, <1>2, <2>1, DangleTyped, QuietInv DEF AddFeed
<1>3. CASE RemoveFeed(f)
  <2> DEFINE r == [rss EXCEPT !.feeds = @ \ {f}, !.enabled = @ \ {f},
                              !.auto = @ \ {f}]
  <2>1. Loose(r) /\ r.queued = rss.queued
    BY <1>0 DEF Good, Unmarked, Marked, Loose, Service, FeedsApart, FlagsListed
  <2>2. rss' = PruneOrphans(r)
    BY <1>3 DEF RemoveFeed
  <2> HIDE DEF r
  <2>3. Good(rss')
    BY <2>1, <2>2, PruneGood
  <2>4. rss'.queued \subseteq rss.queued
    BY <2>1, <2>2 DEF PruneOrphans, Drop, Loose, Service
  <2> QED
    BY <1>0, <1>3, <2>3, <2>4, DangleTyped, QuietInv DEF RemoveFeed
<1>4. CASE ToggleFeed(f)
  <2>1. PICK e \in {[rss EXCEPT !.enabled = Flip(@, f)], [rss EXCEPT !.auto = Flip(@, f)]} :
             rss' \in Diagnostics(e, ItemsOf(f))
    BY <1>4 DEF ToggleFeed
  <2>2. Unmarked(e) /\ e.queued = rss.queued
    BY <1>0, <1>4, <2>1 DEF ToggleFeed, Flip, Good, Unmarked, Service, FeedsApart,
          FlagsListed, Owned
  <2>3. Good(rss') /\ rss'.queued = rss.queued
    BY <2>1, <2>2, DiagnosticsGood, DiagnosticsQueue
  <2> QED
    BY <1>0, <1>4, <2>3, QuietInv DEF ToggleFeed
<1>5. CASE ClearItems(f)
  <2>1. rss' = Drop(rss, rss.items \cap ItemsOf(f))
    BY <1>5 DEF ClearItems
  <2>2. Loose(rss)
    BY <1>0 DEF Good, Unmarked, Loose
  <2>3. Good(rss') /\ rss'.queued \subseteq rss.queued
    BY <1>0, <2>1, <2>2, DropKeepsGood, DropQueue
  <2> QED
    BY <1>0, <1>5, <2>3, QuietInv DEF ClearItems
<1> QED
  BY <1>1, <1>2, <1>3, <1>4, <1>5

\* The operations of the items page on one item.
LEMMA UserItemsInv ==
    ASSUME IInv, NEW i \in Items, DownloadItem(i) \/ IgnoreItem(i)
    PROVE  IInv'
<1>0. Good(rss) /\ Served /\ fetches \in Seq(Refresh)
  BY DEF IInv, Served
<1>1. CASE DownloadItem(i)
  <2>1. PICK t \in Diagnostics(HandOut(rss, {i}), Items) : Becomes(t)
    BY <1>1 DEF DownloadItem
  <2>2. Good(t)
    BY <1>0, <2>1, HandOutUnmarked, DiagnosticsGood DEF Good
  <2> QED
    BY <1>0, <1>1, <2>1, <2>2, BecomesServed DEF DownloadItem, IInv
<1>2. CASE IgnoreItem(i)
  <2> DEFINE e == [rss EXCEPT !.ignored = @ \cup {i}]
  <2>1. Unmarked(e) /\ e.queued = rss.queued
    BY <1>0, <1>2 DEF IgnoreItem, Good, Unmarked, Service, FeedsApart,
          FlagsListed, Owned
  <2>2. rss' \in Diagnostics(e, Items)
    BY <1>2 DEF IgnoreItem
  <2> HIDE DEF e
  <2>3. Good(rss') /\ rss'.queued = rss.queued
    BY <2>1, <2>2, DiagnosticsGood, DiagnosticsQueue
  <2> QED
    BY <1>0, <1>2, <2>3, QuietInv DEF IgnoreItem
<1> QED
  BY <1>1, <1>2

\* The operations on everything.
LEMMA UserAllInv ==
    ASSUME IInv, RefreshAll \/ ReloadAll \/ ChangeRules \/ SaveSettings
    PROVE  IInv'
<1>0. /\ Good(rss) /\ Served /\ fetches \in Seq(Refresh)
      /\ rss.feeds \in SUBSET Feeds
  BY DEF IInv, Served, Good, Unmarked, Service
<1>1. CASE RefreshAll
  BY <1>0, <1>1, NextFeedInv DEF RefreshAll
<1>2. CASE ReloadAll
  BY <1>0, <1>2, DropKeepsGood, NextFeedInv DEF ReloadAll
<1>3. CASE ChangeRules
  <2>0. PICK S \in {{}, Items} : rss' = [rss EXCEPT !.matching = S]
    BY <1>3 DEF ChangeRules
  <2>1. Good(rss') /\ rss'.queued = rss.queued
    BY <1>0, <2>0 DEF Good, Unmarked, Marked, Service, FeedsApart,
          FlagsListed, Owned
  <2> QED
    BY <1>0, <1>3, <2>1, QuietInv DEF ChangeRules
<1>4. CASE SaveSettings
  <2> DEFINE e == [rss EXCEPT !.on = ~@]
  <2>1. Unmarked(e)
    BY <1>0 DEF Good, Unmarked, Service, FeedsApart, FlagsListed, Owned
  <2>2. PICK s \in Diagnostics(e, Items) : \E t \in Dispatch(s, TRUE) : Becomes(t)
    BY <1>4 DEF SaveSettings
  <2> HIDE DEF e
  <2>3. Good(s)
    BY <2>1, <2>2, DiagnosticsGood
  <2> QED
    BY <1>0, <1>4, <2>2, <2>3, DispatchGood, BecomesServed DEF SaveSettings, IInv
<1> QED
  BY <1>1, <1>2, <1>3, <1>4

\* Every step preserves the invariant.
LEMMA IInvStep == ASSUME IInv, [Next]_vars PROVE IInv'
<1>1. CASE RssTimer
  BY <1>1, RssTimerInv
<1>2. CASE FetchReturns
  BY <1>2, FetchReturnsInv
<1>3. CASE SettleSome
  BY <1>3, SettleInv DEF SettleSome
<1>4. CASE FollowUp \/ RefreshViews \/ Reloaded
  BY <1>4, PumpsInv
<1>5. CASE User
  BY <1>5, UserFeedsInv, UserItemsInv, UserAllInv DEF User
<1>6. CASE UNCHANGED vars
  <2>1. rss' = rss /\ requests' = requests /\ fetches' = fetches
    BY <1>6 DEF vars
  <2> QED
    BY <2>1, QuietInv DEF IInv, Served
<1> QED
  BY <1>1, <1>2, <1>3, <1>4, <1>5, <1>6 DEF Next

-----------------------------------------------------------------------------
(* Theorems.                                                                *)

\* The invariant holds in every reachable state.
LEMMA Inductive == Spec => []IInv
<1>1. Init => IInv
  BY InitIInv
<1>2. IInv /\ [Next]_vars => IInv'
  BY IInvStep
<1> QED
  BY <1>1, <1>2, PTL DEF Spec

\* The members of RssService keep their types, flags belong to items of the
\* list, and nothing is marked both as waiting and as queued.
THEOREM TypeCorrect == Spec => []TypeOK
<1>1. IInv => TypeOK
  <2> SUFFICES ASSUME IInv PROVE TypeOK
    OBVIOUS
  <2>1. \A n \in DOMAIN fetches : fetches[n].feed \in Feeds
    <3>1. \A n \in DOMAIN fetches : fetches[n] \in Refresh
      BY DEF IInv
    <3> QED
      BY <3>1 DEF Refresh
  <2> QED
    BY <2>1 DEF IInv, Served, TypeOK, Good, Unmarked, Marked, Service,
          FeedsApart, FlagsListed, Blocked
<1> QED
  BY <1>1, Inductive, PTL

\* Every item marked as queued has a request that applyRssDownloadSettlement
\* will be called for: no slot of the concurrency limit is lost.
THEOREM SlotsComeBack == Spec => []QueuedHasRequest
<1>1. IInv => QueuedHasRequest
  BY DEF IInv, Served
<1> QED
  BY <1>1, Inductive, PTL

\* RssDedup knows the items of the list and no others.
THEOREM IndexMatches == Spec => []IndexExact
<1>1. IInv => IndexExact
  BY DEF IInv, Served, Good, Unmarked, IndexExact
<1> QED
  BY <1>1, Inductive, PTL

\* No item outlives its subscription, whatever refreshes are waiting when the
\* subscription is removed.
THEOREM ItemsOwned == Spec => []NoOrphans
<1>1. IInv => NoOrphans
  BY DEF IInv, Served, Good, Unmarked, Owned, NoOrphans
<1> QED
  BY <1>1, Inductive, PTL

=============================================================================
