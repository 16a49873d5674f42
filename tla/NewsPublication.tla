-------------------------- MODULE NewsPublication --------------------------
(***************************************************************************)
(* The news feed: a source is collected, merged into its snapshot, and     *)
(* published to feed.json, to the research observations and to the event   *)
(* ledger before its cursor is saved, all under one file lock.             *)
(*                                                                         *)
(* Items are numbered by the time they were published upstream.  A source  *)
(* shows its newest ones only (count of kobeissi, max_pages of reuters):   *)
(* an item that is overtaken before a collection finds it is never found.  *)
(* The history window is longer than any behaviour considered: no item     *)
(* leaves the feed by age.                                                 *)
(***************************************************************************)
EXTENDS Naturals, FiniteSets

CONSTANTS
  Source,      \* the enabled news sources
  MaxItem,     \* bound on the items published upstream
  SourceOf,    \* the source of each item
  Untitled,    \* the items whose title is blank
  FetchLimit,  \* how many items of a source one fetch shows
  Limit,       \* story_clustering.publish_limit
  MaxAborts,   \* bound on failed writes and crashes
  NoHolder     \* no source

Item == 1..MaxItem

ASSUME NewsAssumption ==
  /\ MaxItem \in Nat /\ Limit \in Nat \ {0} /\ FetchLimit \in Nat /\ MaxAborts \in Nat
  /\ SourceOf \in [Item -> Source] /\ Untitled \subseteq Item
  /\ NoHolder \notin Source

VARIABLES
  upstream,                  \* how many items the sources have published
  cursor, snapshot,          \* state.json and the snapshots, by source
  feed, observed, ledger,    \* feed.json, research observations, market_events
  lockHolder, step, found,       \* the run that holds the publication lock
  prior,                     \* the feed when that run began
  aborts

stored == <<cursor, snapshot, feed, observed, ledger>>
newsVars == <<upstream, stored, lockHolder, step, found, prior, aborts>>

NewestOf(items, n) == {i \in items : Cardinality({k \in items : k > i}) < n}
Newest(items) == NewestOf(items, Limit)

Published(s) == {i \in 1..upstream : SourceOf[i] = s}
Offered(s) == NewestOf(Published(s), FetchLimit)

Arrive ==
  /\ upstream < MaxItem
  /\ upstream' = upstream + 1
  /\ UNCHANGED <<stored, lockHolder, step, found, prior, aborts>>

-----------------------------------------------------------------------------
(* collect_and_publish *)

Continue(next) ==
  /\ step' = next
  /\ UNCHANGED <<upstream, lockHolder, found, prior, aborts>>

ReleaseSource == lockHolder' = NoHolder

Finish ==
  /\ ReleaseSource
  /\ step' = "free"
  /\ found' = {}
  /\ UNCHANGED <<upstream, prior>>

\* The collector, under the lock, returns what the source shows and its cursor
\* has not seen.
Collect(s) ==
  /\ step = "free" /\ lockHolder = NoHolder
  /\ lockHolder' = s
  /\ step' = "merging"
  /\ found' = Offered(s) \ cursor[s]
  /\ prior' = feed
  /\ UNCHANGED <<upstream, stored, aborts>>

\* Fault: the cursor is saved with the snapshot.
MergeAndCommit ==
  /\ step = "merging"
  /\ snapshot' = [snapshot EXCEPT ![lockHolder] = @ \cup found]
  /\ cursor' = [cursor EXCEPT ![lockHolder] = @ \cup found]
  /\ UNCHANGED <<feed, observed, ledger>>
  /\ Continue("building")

Merge ==
  /\ step = "merging"
  /\ snapshot' = [snapshot EXCEPT ![lockHolder] = @ \cup found]
  /\ UNCHANGED <<cursor, feed, observed, ledger>>
  /\ Continue("building")

BuildFeed ==
  /\ step = "building"
  /\ feed' = UNION {snapshot[s] : s \in Source}
  /\ UNCHANGED <<cursor, snapshot, observed, ledger>>
  /\ Continue("observing")

PersistObservations ==
  /\ step = "observing"
  /\ observed' = observed \cup feed
  /\ UNCHANGED <<cursor, snapshot, feed, ledger>>
  /\ Continue("publishing")

\* publish_news_records: the newest items of the whole feed in one transaction,
\* which an item without a title rolls back.
PublishEvents ==
  /\ step = "publishing"
  /\ Newest(feed) \cap Untitled = {}
  /\ ledger' = ledger \cup Newest(feed)
  /\ UNCHANGED <<cursor, snapshot, feed, observed>>
  /\ Continue("committing")

Reject ==
  /\ step = "publishing"
  /\ Newest(feed) \cap Untitled # {}
  /\ Finish
  /\ UNCHANGED <<stored, aborts>>

CommitCursor ==
  /\ step = "committing"
  /\ cursor' = [cursor EXCEPT ![lockHolder] = @ \cup found]
  /\ UNCHANGED <<snapshot, feed, observed, ledger, aborts>>
  /\ Finish

\* Fault: the state saved after a failure has the advanced cursor.
AbortAdvancing ==
  /\ step # "free" /\ aborts < MaxAborts
  /\ aborts' = aborts + 1
  /\ cursor' = [cursor EXCEPT ![lockHolder] = @ \cup found]
  /\ Finish
  /\ UNCHANGED <<snapshot, feed, observed, ledger>>

\* A file or database write fails, or the process dies and the kernel drops
\* its lock.
Abort ==
  /\ step # "free" /\ aborts < MaxAborts
  /\ aborts' = aborts + 1
  /\ Finish
  /\ UNCHANGED stored

Advance ==
  Merge \/ BuildFeed \/ PersistObservations \/ PublishEvents \/ Reject \/ CommitCursor

-----------------------------------------------------------------------------
NewsInit ==
  /\ upstream = 0
  /\ cursor = [s \in Source |-> {}]
  /\ snapshot = [s \in Source |-> {}]
  /\ feed = {} /\ observed = {} /\ ledger = {}
  /\ lockHolder = NoHolder /\ step = "free" /\ found = {} /\ prior = {}
  /\ aborts = 0

NewsNext == Arrive \/ (\E s \in Source : Collect(s)) \/ Advance \/ Abort

\* The scheduler collects every source again and again, and a run goes on.
NewsFairness == WF_newsVars(Advance) /\ \A s \in Source : SF_newsVars(Collect(s))

NewsSpec == NewsInit /\ [][NewsNext]_newsVars
NewsFairSpec == NewsSpec /\ NewsFairness
-----------------------------------------------------------------------------
(* Properties *)

\* Types; the lock is held exactly while a run is under way.
NewsTypeOK ==
  /\ upstream \in 0..MaxItem
  /\ cursor \in [Source -> SUBSET Item] /\ snapshot \in [Source -> SUBSET Item]
  /\ feed \subseteq Item /\ observed \subseteq Item /\ ledger \subseteq Item
  /\ step \in {"free", "merging", "building", "observing", "publishing", "committing"}
  /\ step = "free" <=> lockHolder = NoHolder
  /\ lockHolder \in Source \cup {NoHolder}
  /\ found \subseteq Item /\ prior \subseteq Item
  /\ aborts \in 0..MaxAborts

\* The cursor of kobeissi is the newest item it has seen, and nothing below that
\* mark is looked at again; the cursor of reuters lists what it has seen, but an
\* item that has left the pages it reads does not return to them.
Passed(s) == {i \in Item : SourceOf[i] = s /\ \E k \in cursor[s] : i <= k}

\* No longer shown, and found by no collection that stored it or still may.
Overtaken(s) == Published(s) \ (Offered(s) \cup snapshot[s] \cup found)

\* A cursor never passes an item that is missing from the snapshot, the feed or
\* the observations, whatever failed in between: only what its source no longer
\* showed when it was first fetched is skipped.
CursorFollowsPublication ==
  \A s \in Source : Passed(s) \ Overtaken(s) \subseteq snapshot[s] \cap feed \cap observed

\* The same for the ledger, as long as the whole feed fits one publication: an
\* item that a collection found and the ledger lacks is still ahead of the cursor,
\* or its run is under way.
CursorFollowsLedger ==
  Limit >= MaxItem => \A s \in Source : Passed(s) \ Overtaken(s) \subseteq ledger

\* Every item a source publishes reaches the event ledger, across failed writes
\* and crashes at any point of a publication, unless the feed comes to hold an
\* item that the ledger rejects, or newer items have taken its place in the fetch
\* before any collection has stored it.
ItemsBecomeEvents ==
  \A i \in Item :
    upstream >= i ~> i \in ledger \/ feed \cap Untitled # {} \/ i \in Overtaken(SourceOf[i])

=============================================================================
