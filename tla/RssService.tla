----------------------------- MODULE RssService -----------------------------
(***************************************************************************)
(* pfd::core::rss::RssService with the handlers of AppController and of    *)
(* the RSS pages that drive it: feeds are fetched into a list of items,    *)
(* items are diagnosed against the settings and the rules, and the newest  *)
(* eligible ones are handed to the download pipeline, which settles each   *)
(* request later.                                                          *)
(*                                                                         *)
(* Everything runs on the UI thread, one handler at a time, with one       *)
(* exception: RssFetcher::fetch waits for the network in an event loop of  *)
(* its own, so that any other handler, another refresh included, runs in   *)
(* the middle of a refresh.  `fetches` is the stack of these loops; only   *)
(* the innermost one can return.                                           *)
(*                                                                         *)
(* An item is a number, greater for one published later; its feed, its id  *)
(* and whether it can be downloaded are fixed; a subscription that is      *)
(* added gets a new id.  Left out: titles and parsing (what the rules      *)
(* match is a set of items), the order of the feeds, the count limit of    *)
(* the history (at least 100 items), the scope kNewItemsOnly (used by      *)
(* tests only), the files, and what else following a dangling iterator can *)
(* do than to skip feeds or to end the process.                            *)
(***************************************************************************)
EXTENDS Integers, Sequences, FiniteSets

CONSTANTS
    Items,          \* ids of items, in the order of publication
    Feeds,          \* ids of subscriptions
    FeedOf,         \* the feed that publishes an item
    Loadable,       \* the items with a magnet link or a torrent URL
    MaxConcurrent,  \* settings_.max_concurrent_auto_downloads
    Batch,          \* settings_.max_auto_downloads_per_refresh
    BacklogCap,     \* settings_.max_auto_download_backlog
    UserOps,        \* what the user does in this instance
    MaxOps,         \* bound on how often
    MaxFails,       \* bound on the requests that fail
    MaxNested,      \* bound on the refreshes inside one another
    MaxRequests     \* bound on the unsettled requests for one item

ASSUME ConstantsAssumption ==
    /\ Items \subseteq Nat \ {0} /\ IsFiniteSet(Items)
    /\ FeedOf \in [Items -> Feeds] /\ Loadable \subseteq Items
    /\ MaxConcurrent \in Nat \ {0} /\ Batch \in Nat \ {0}
    /\ BacklogCap \in Nat \ {0}
    /\ {MaxOps, MaxFails, MaxNested, MaxRequests} \subseteq Nat

VARIABLES
    rss,        \* the members of the service, see Init
    requests,   \* item -> requests in the pipeline that are not settled
    fetches,    \* refreshFeedImpl calls waiting in fetch(), innermost first
    followUp,   \* rssPostSettleScheduler_ is due
    views,      \* a refreshDataViews is due
    reloaded,   \* a queued rssFeedsReloaded is due
    aborted,    \* a dangling iterator was followed to no good
    ops, fails  \* what the bounds count

timers == <<followUp, views, reloaded>>
bounds == <<ops, fails>>
vars == <<rss, requests, fetches, timers, aborted, bounds>>

ItemsOf(f) == {i \in Items : FeedOf[i] = f}

Init ==
    /\ \E F \in SUBSET Feeds :
         rss = [feeds      |-> F,           \* feeds_
                unused     |-> Feeds \ F,   \* ids not given out yet
                enabled    |-> F,           \* those with `enabled`
                auto       |-> F,           \* those with auto_download_enabled
                on         |-> TRUE,        \* auto_download_enabled_
                matching   |-> Items,       \* what the enabled rules match
                items      |-> {},          \* items_
                queued     |-> {},          \* flags of the items
                downloaded |-> {},
                ignored    |-> {},
                waiting    |-> {},          \* rss_auto_waitlisted
                eligible   |-> {},          \* last diagnosed as eligible
                index      |-> {}]          \* dedup_
    /\ requests = [i \in Items |-> 0]
    /\ fetches = <<>>
    /\ followUp = FALSE /\ views = FALSE /\ reloaded = FALSE
    /\ aborted = FALSE
    /\ ops = 0 /\ fails = 0

-----------------------------------------------------------------------------
(* The service's functions, on its members s.  Those that work in several   *)
(* passes are written as the set of their one result, so that each pass    *)
(* starts from the value the last one has computed.                        *)

AtMost(a, b) == IF a < b THEN a ELSE b

Newest(S, n) == {i \in S : Cardinality({j \in S : j > i}) < n}

\* Mutant of Drop: the index still knows the items.
DropKeepsIndex(s, gone) ==
    [s EXCEPT !.items = @ \ gone,
              !.queued = @ \ gone, !.downloaded = @ \ gone,
              !.ignored = @ \ gone, !.waiting = @ \ gone,
              !.eligible = @ \ gone]

\* Items disappear from the list, and the duplicate index is built anew.
Drop(s, gone) ==
    [s EXCEPT !.items = @ \ gone, !.index = s.items \ gone,
              !.queued = @ \ gone, !.downloaded = @ \ gone,
              !.ignored = @ \ gone, !.waiting = @ \ gone,
              !.eligible = @ \ gone]

\* pruneItemsWithoutMatchingFeed.
PruneOrphans(s) == Drop(s, {i \in s.items : FeedOf[i] \notin s.feeds})

Blocked(s) == s.queued \cup s.downloaded \cup s.ignored

\* The three switches: global, feed, rule.
SwitchedOn(s, i) == s.on /\ FeedOf[i] \in s.auto /\ i \in s.matching

Eligible(s, i) ==
    i \in (s.items \cap Loadable) \ Blocked(s) /\ SwitchedOn(s, i)

\* diagnoseItemAutoDownloadState for the items in S.
Diagnose(s, S) ==
    [s EXCEPT !.eligible = (@ \ S) \cup {i \in S : Eligible(s, i)}]

\* rebuildAutoBacklogScratch: it trusts the last diagnosis.
Candidates(s) == (s.eligible \cap Loadable) \ Blocked(s)
Backlog(s) == Newest(Candidates(s), BacklogCap)

\* applyAutoDownloadBacklogOverflowMarkers: another reason replaces "eligible".
MarkOverflow(s) ==
    IF s.on THEN [s EXCEPT !.eligible = @ \ (Candidates(s) \ Backlog(s))] ELSE s

FreeSlots(s) == IF Cardinality(s.queued) > MaxConcurrent THEN 0
                ELSE MaxConcurrent - Cardinality(s.queued)

\* syncRssAutoWaitlistMarkers.
SyncWaitlist(s) ==
    [s EXCEPT !.waiting = IF s.on THEN Backlog(s) \ Newest(Backlog(s), FreeSlots(s))
                          ELSE {}]

\* refreshAutoDownloadDiagnostics[ForFeed].
Diagnostics(s, S) ==
    {SyncWaitlist(m) : m \in {MarkOverflow(d) : d \in {Diagnose(s, S)}}}

\* downloadItem for each item of S.
HandOut(s, S) ==
    LET out == (S \cap s.items \cap Loadable) \ s.queued IN
    [s EXCEPT !.queued = @ \cup out, !.eligible = @ \ out]

\* dispatchDeferredAutoDownloads, unless automatic downloads are off.
Started(d) == HandOut(d, Newest(Backlog(d), AtMost(Batch, FreeSlots(d))))

Dispatch(s, diagnose) ==
    IF s.on
    THEN {SyncWaitlist(m) : m \in {MarkOverflow(h) : h \in {Started(d) :
             d \in {IF diagnose THEN Diagnose(s, Items) ELSE s}}}}
    ELSE {s}

-----------------------------------------------------------------------------
(* Steps.                                                                  *)

Running == ~aborted

\* The download callback: every item that becomes queued is a new request.
Becomes(s) ==
    LET new == s.queued \ rss.queued IN
    /\ rss' = s
    /\ requests' = [i \in Items |-> IF i \in new THEN requests[i] + 1 ELSE requests[i]]

\* A refresh that is waiting for the network: of feed `feed`, with those of
\* refreshAllFeeds still to come, begun by `by`.  `stale`: the vector of feeds
\* has changed, and iterators into it are dangling.
Fetch(f, rest, by) == [feed |-> f, rest |-> rest, by |-> by, stale |-> FALSE]

\* pruneHistory: what is older than the cutoff and was not downloaded.
PruneHistory(s, cutoff) ==
    Drop(s, {i \in s.items \ s.downloaded : i < cutoff})

\* The end of refreshAllFeeds and what its caller does next.
RefreshEnds(s, by) ==
    \/ /\ by = "single"
       /\ Becomes(s) /\ views' = TRUE /\ UNCHANGED reloaded
    \/ \E cutoff \in Items \cup {0} :
       \E p \in {PruneOrphans(PruneHistory(s, cutoff))} :
          \/ /\ by \in {"timer", "page"}
             /\ \E t \in Dispatch(p, TRUE) : Becomes(t)
             /\ views' = TRUE /\ UNCHANGED reloaded
          \/ /\ by = "reload"
             /\ Becomes(p) /\ reloaded' = TRUE /\ UNCHANGED views

\* refreshAllFeeds goes on to an enabled feed, or ends.
NextFeed(s, rest, by, outer) ==
    LET todo == {f \in rest : f \in s.feeds /\ f \in s.enabled} IN
    \/ \E f \in todo :
           /\ Becomes(s)
           /\ fetches' = <<Fetch(f, rest \ {f}, by)>> \o outer
           /\ UNCHANGED <<views, reloaded>>
    \/ todo = {} /\ fetches' = outer /\ RefreshEnds(s, by)

CanNest == Len(fetches) < MaxNested

\* The RSS timer (timeout of rssTimer_).
RssTimer ==
    /\ Running /\ CanNest
    /\ NextFeed(rss, rss.feeds, "timer", fetches)
    /\ UNCHANGED <<followUp, aborted, bounds>>

\* Mutant of Arrived: items of a feed removed during the fetch are kept.
ArrivedUnpruned(s, f, offered) ==
    [s EXCEPT !.items = @ \cup (offered \ s.index),
              !.index = @ \cup offered]

\* The innermost fetch returns: the new ones of the items the feed offers are
\* recorded and added, and orphans are pruned on every way out.  A dangling
\* iterator may skip feeds, and following it may end the process.
Arrived(s, f, offered) ==
    PruneOrphans([s EXCEPT !.items = @ \cup (offered \ s.index),
                           !.index = @ \cup offered])

FetchReturns ==
    LET top == Head(fetches) IN
    /\ Running /\ fetches # <<>>
    /\ \/ \E offered \in SUBSET {i \in ItemsOf(top.feed) : requests[i] < MaxRequests} :
          \E s \in {Arrived(rss, top.feed, offered)},
             rest \in IF top.stale THEN SUBSET top.rest ELSE {top.rest} :
              NextFeed(s, rest, top.by, Tail(fetches))
          /\ UNCHANGED aborted
       \/ /\ top.stale /\ aborted' = TRUE
          /\ UNCHANGED <<rss, requests, fetches, views, reloaded>>
    /\ UNCHANGED <<followUp, bounds>>

\* Mutant of SettledItem: a failed request stays queued.
SettledItemOnSuccess(s, i, ok) ==
    IF i \in s.items /\ ok
    THEN [s EXCEPT !.queued = @ \ {i}, !.downloaded = @ \cup {i},
                   !.eligible = @ \ {i}]
    ELSE s

\* settleRssDownloadIfNeeded, called by the pipeline.
SettledItem(s, i, ok) ==
    IF i \in s.items
    THEN [s EXCEPT !.queued = @ \ {i},
                   !.downloaded = IF ok THEN @ \cup {i} ELSE @,
                   !.eligible = @ \ {i}]
    ELSE s

Settle(i, ok) ==
    /\ Running /\ requests[i] > 0
    /\ ok \/ fails < MaxFails
    /\ fails' = IF ok THEN fails ELSE fails + 1
    /\ requests' = [requests EXCEPT ![i] = @ - 1]
    /\ rss' = SettledItem(rss, i, ok)
    /\ followUp' = TRUE
    /\ UNCHANGED <<fetches, views, reloaded, aborted, ops>>

\* 250 ms later: saveState, a pump that trusts the last diagnosis, the views.
FollowUp ==
    /\ Running /\ followUp
    /\ followUp' = FALSE /\ views' = TRUE
    /\ \E t \in Dispatch(rss, FALSE) : Becomes(t)
    /\ UNCHANGED <<fetches, reloaded, aborted, bounds>>

\* RssModulePage::refreshDataViews, which diagnoses all items, and the pump
\* its signal starts.
Refreshed(s) == UNION {Dispatch(d, FALSE) : d \in Diagnostics(s, Items)}

RefreshViews ==
    /\ Running /\ views
    /\ \E t \in Refreshed(rss) : Becomes(t) /\ views' = (t.queued # rss.queued)
    /\ UNCHANGED <<fetches, followUp, reloaded, aborted, bounds>>

\* rssFeedsReloaded, delivered through the event queue: the same, and a pump
\* with a diagnosis of its own.
Reloaded ==
    /\ Running /\ reloaded /\ reloaded' = FALSE
    /\ \E t \in UNION {Dispatch(d, TRUE) : d \in Refreshed(rss)} :
           Becomes(t) /\ views' = (views \/ t.queued # rss.queued)
    /\ UNCHANGED <<fetches, followUp, aborted, bounds>>

-----------------------------------------------------------------------------
(* The user.                                                               *)

Does(op) ==
    /\ Running /\ op \in UserOps
    /\ ops < MaxOps /\ ops' = ops + 1
    /\ UNCHANGED <<followUp, fails, aborted>>

\* Every refresh that is waiting holds an iterator into the feeds.
Dangle == [n \in DOMAIN fetches |-> [fetches[n] EXCEPT !.stale = TRUE]]

\* "Refresh this feed", and adding one, which refreshes it.
RefreshFeed(f) ==
    /\ Does("RefreshFeed") /\ CanNest /\ f \in rss.feeds
    /\ fetches' = <<Fetch(f, {}, "single")>> \o fetches
    /\ UNCHANGED <<rss, requests, views, reloaded>>

AddFeed(f) ==
    /\ Does("AddFeed") /\ CanNest /\ f \in rss.unused
    /\ rss' = [rss EXCEPT !.feeds = @ \cup {f}, !.unused = @ \ {f},
                          !.enabled = @ \cup {f}]
    /\ fetches' = <<Fetch(f, {}, "single")>> \o Dangle
    /\ UNCHANGED <<requests, views, reloaded>>

RemoveFeed(f) ==
    /\ Does("RemoveFeed") /\ f \in rss.feeds
    /\ rss' = PruneOrphans([rss EXCEPT !.feeds = @ \ {f}, !.enabled = @ \ {f},
                                       !.auto = @ \ {f}])
    /\ fetches' = Dangle /\ views' = TRUE
    /\ UNCHANGED <<requests, reloaded>>

Flip(S, f) == IF f \in S THEN S \ {f} ELSE S \cup {f}

\* "Pause this feed" and "automatic downloads of this feed".
ToggleFeed(f) ==
    /\ Does("ToggleFeed") /\ f \in rss.feeds /\ views' = TRUE
    /\ \/ rss' \in Diagnostics([rss EXCEPT !.enabled = Flip(@, f)], ItemsOf(f))
       \/ rss' \in Diagnostics([rss EXCEPT !.auto = Flip(@, f)], ItemsOf(f))
    /\ UNCHANGED <<requests, fetches, reloaded>>

\* "Clear the local items" of a feed.
ClearItems(f) ==
    /\ Does("ClearItems") /\ f \in rss.feeds /\ views' = TRUE
    /\ rss' = Drop(rss, rss.items \cap ItemsOf(f))
    /\ UNCHANGED <<requests, fetches, reloaded>>

\* "Refresh all" on the feeds page and on the items page.
RefreshAll ==
    /\ Does("RefreshAll") /\ CanNest
    /\ NextFeed(rss, rss.feeds, "page", fetches)

ReloadAll ==
    /\ Does("ReloadAll") /\ CanNest
    /\ NextFeed(Drop(rss, {i \in rss.items : FeedOf[i] \in rss.enabled}),
                rss.feeds, "reload", fetches)

\* Mutant of DownloadItem: the table is not redrawn.
DownloadItemKeepsMarks(i) ==
    /\ Does("DownloadItem") /\ i \in rss.items
    /\ Becomes(HandOut(rss, {i}))
    /\ UNCHANGED <<fetches, views, reloaded>>

\* "Download selected"; the table is then redrawn, which diagnoses all items.
DownloadItem(i) ==
    /\ Does("DownloadItem") /\ i \in rss.items
    /\ \E t \in Diagnostics(HandOut(rss, {i}), Items) : Becomes(t)
    /\ UNCHANGED <<fetches, views, reloaded>>

IgnoreItem(i) ==
    /\ Does("IgnoreItem") /\ i \in rss.items
    /\ rss' \in Diagnostics([rss EXCEPT !.ignored = @ \cup {i}], Items)
    /\ UNCHANGED <<requests, fetches, views, reloaded>>

\* Saving, removing or toggling a rule redraws the rules page only.
ChangeRules ==
    /\ Does("ChangeRules")
    /\ \E S \in {{}, Items} : S # rss.matching /\ rss' = [rss EXCEPT !.matching = S]
    /\ UNCHANGED <<requests, fetches, views, reloaded>>

\* The RSS settings are saved: a diagnosis, a full pump and the views.
SaveSettings ==
    /\ Does("SaveSettings")
    /\ \E s \in Diagnostics([rss EXCEPT !.on = ~@], Items) :
       \E t \in Dispatch(s, TRUE) : Becomes(t)
    /\ views' = TRUE
    /\ UNCHANGED <<fetches, reloaded>>

-----------------------------------------------------------------------------

SettleSome == \E i \in Items, ok \in BOOLEAN : Settle(i, ok)

User == \/ \E f \in Feeds : \/ RefreshFeed(f) \/ AddFeed(f) \/ RemoveFeed(f)
                            \/ ToggleFeed(f) \/ ClearItems(f)
        \/ \E i \in Items : DownloadItem(i) \/ IgnoreItem(i)
        \/ RefreshAll \/ ReloadAll \/ ChangeRules \/ SaveSettings

Next == RssTimer \/ FetchReturns \/ SettleSome \/ FollowUp \/ RefreshViews
        \/ Reloaded \/ User

Spec == Init /\ [][Next]_vars

\* Timers fire, the event loop delivers what is queued, a fetch returns by its
\* transfer time-out, and the pipeline settles every request (module
\* RssDownloadPipeline); nothing is assumed of the user.
Fairness == /\ WF_vars(RssTimer) /\ WF_vars(FetchReturns)
            /\ WF_vars(FollowUp) /\ WF_vars(RefreshViews) /\ WF_vars(Reloaded)
            /\ \A i \in Items : WF_vars(\E ok \in BOOLEAN : Settle(i, ok))

FairSpec == Spec /\ Fairness

-----------------------------------------------------------------------------
(* Properties.                                                             *)

\* Every member keeps its type; flags belong to items of the list, and no item
\* is marked both as waiting and as queued.
TypeOK ==
    /\ {rss.enabled, rss.auto} \subseteq SUBSET rss.feeds
    /\ rss.unused \subseteq Feeds \ rss.feeds
    /\ rss.feeds \subseteq Feeds /\ rss.on \in BOOLEAN
    /\ rss.matching \subseteq Items /\ rss.items \subseteq Items
    /\ Blocked(rss) \cup rss.waiting \subseteq rss.items
    /\ rss.waiting \cap rss.queued = {}
    /\ rss.eligible \subseteq rss.items
    /\ requests \in [Items -> Nat]
    /\ \A n \in DOMAIN fetches : fetches[n].feed \in Feeds

\* An item shown as queued, which occupies one of the concurrent downloads, has
\* a request in the pipeline whose settlement will free it: no slot is lost,
\* whatever is cleared, pruned, fetched again or requested twice meanwhile.
QueuedHasRequest == \A i \in rss.queued : requests[i] > 0

\* The duplicate index knows exactly the items of the list, also between the
\* steps of refreshes nested in one another.
IndexExact == rss.index = rss.items

\* Every item belongs to a subscription, also when the subscription is removed
\* while a refresh of it waits for the network.
NoOrphans == \A i \in rss.items : FeedOf[i] \in rss.feeds

\* An item that stays eligible is handed to the pipeline in the end, although
\* newer ones come first, slots and the backlog are limited, and requests fail.
EligibleTried ==
    \A i \in Items :
        Eligible(rss, i) ~> ~Eligible(rss, i) \/ aborted

\* "All three switches must be on at the same time" (FEATURES_zh.md): an item
\* is handed out only if the user asked for it or all switches are on.
ThreeSwitches ==
    [][\A i \in rss'.queued \ rss.queued :
           SwitchedOn(rss', i) \/ ops' # ops]_vars

=============================================================================
