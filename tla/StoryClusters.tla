---------------------------- MODULE StoryClusters ----------------------------
(***************************************************************************)
(* How headlines become stories.  Each routed headline is filed by one     *)
(* database transaction: it looks for a recent story it resembles, and     *)
(* either opens a story of its own or joins the one it found, which may    *)
(* change the state of that story and append a version to its history.     *)
(*                                                                         *)
(* Transactions run at READ COMMITTED: a statement sees what is committed  *)
(* when it starts, and a write waits for the lock on its row or unique key *)
(* that another open transaction holds.  What a transaction has written    *)
(* stays in its draft until it commits.                                    *)
(***************************************************************************)
EXTENDS Naturals, FiniteSets

CONSTANTS
  Headline,      \* headline events; two revisions of an item are two headlines
  Item,          \* news items
  ItemOf,        \* the item a headline is about
  Outlet,        \* the source of each item
  Story,         \* canonical keys
  KeyOf,         \* the canonical key of each headline
  Denial,        \* the headlines that contradict a report
  Router,        \* transactions that route headlines
  MaxRouterCrashes

ASSUME StoryAssumption ==
  /\ ItemOf \in [Headline -> Item] /\ KeyOf \in [Headline -> Story]
  /\ Denial \subseteq Headline /\ IsFiniteSet(Item) /\ DOMAIN Outlet = Item
  /\ "no story" \notin Story /\ MaxRouterCrashes \in Nat

VARIABLES
  cluster,     \* the row of each story; version 0 is no row
  member,      \* the story of each item, and as what it joined
  history,     \* version rows of each story: from and to which state, by number
  filed,       \* headlines whose routing has committed
  tx,          \* the open transaction of each router
  routerCrashes

storyRows == <<cluster, member, history, filed>>
storyVars == <<storyRows, tx, routerCrashes>>

Contribution ==
  {"origin", "contradiction", "cross_source_confirmation", "material_update",
   "repeated_coverage"}
StoryState == {"developing", "confirmed", "contradicted"}
Unwritten == [state |-> "developing", sources |-> 0, version |-> 0]
Outside == [of |-> "no story", as |-> "repeated_coverage"]
NoTx == [at |-> "idle"]

Members(k) == {i \in Item : member[i].of = k}
Outlets(items) == {Outlet[i] : i \in items}
About(w) == ItemOf[tx[w].of]
InRouting == {tx[w].of : w \in {v \in Router : tx[v] # NoTx}}

-----------------------------------------------------------------------------
(* Locks: a transaction locks the row of the story it inserts or updates,   *)
(* and the unique key of the item it inserts, until it ends.                *)

LocksStory(w, k) == tx[w].at \in {"opened", "done"} /\ tx[w].row.version > 0 /\ tx[w].story = k
LocksItem(w, i) == tx[w].at \in {"joined", "done"} /\ tx[w].joins /\ About(w) = i

StoryHeld(w, k) == \E v \in Router \ {w} : LocksStory(v, k)
ItemHeld(w, i) == \E v \in Router \ {w} : LocksItem(v, i)

WaitsFor(w, v) ==
  /\ v # w
  /\ \/ tx[w].at \in {"new", "joined"} /\ LocksStory(v, tx[w].story)
     \/ tx[w].at \in {"opened", "counted"} /\ LocksItem(v, About(w))

\* Some transactions wait for each other in a circle.
Deadlocked(w) ==
  \E S \in SUBSET Router : w \in S /\ \A v \in S : \E u \in S : WaitsFor(v, u)

-----------------------------------------------------------------------------
(* cluster_news_story, one action per statement *)

Step(w, t) ==
  /\ tx' = [tx EXCEPT ![w] = t]
  /\ UNCHANGED <<storyRows, routerCrashes>>

\* An item that is already in a story is repeated coverage: nothing is written.
TakeHeadline(w, h) ==
  /\ tx[w] = NoTx /\ h \notin filed \cup InRouting
  /\ Step(w, [at |-> IF member[ItemOf[h]] = Outside THEN "looking" ELSE "done",
              of |-> h, story |-> KeyOf[h], read |-> Unwritten, seen |-> {}, row |-> Unwritten,
              joins |-> FALSE, as |-> "repeated_coverage"])

\* The best candidate above the threshold, if there is one: which of the
\* stories that is depends on the wording and on when each was last seen.
FindCandidate(w) ==
  /\ tx[w].at = "looking"
  /\ \/ Step(w, [tx[w] EXCEPT !.at = "new"])
     \/ \E k \in Story :
          /\ cluster[k].version > 0
          /\ Step(w, [tx[w] EXCEPT !.at = "candidate", !.story = k,
                                   !.read = cluster[k]])

\* A story with the same key keeps its row.
OpenStory(w) ==
  /\ tx[w].at = "new" /\ ~StoryHeld(w, tx[w].story)
  /\ LET old == cluster[tx[w].story]
     IN Step(w, [tx[w] EXCEPT !.at = "opened",
          !.row = IF old.version > 0 THEN old
                  ELSE [state |-> "developing", sources |-> 1, version |-> 1]])

\* The member row gives way to one that was committed meanwhile; the version
\* row is written either way.
JoinAsOrigin(w) ==
  /\ tx[w].at = "opened" /\ ~ItemHeld(w, About(w))
  /\ Step(w, [tx[w] EXCEPT !.at = "done", !.as = "origin",
                           !.joins = member[About(w)] = Outside])

CountSources(w) ==
  /\ tx[w].at = "candidate"
  /\ Step(w, [tx[w] EXCEPT !.at = "counted", !.seen = Outlets(Members(tx[w].story))])

\* Whether a known source brings new facts depends on the wording.
Contributes(w, c) ==
  IF tx[w].of \in Denial THEN c = "contradiction"
  ELSE IF Outlet[About(w)] \notin tx[w].seen THEN c = "cross_source_confirmation"
  ELSE c \in {"material_update", "repeated_coverage"}

\* Fault: an item that an open transaction holds counts as filed.
JoinImpatiently(w) ==
  /\ tx[w].at = "counted"
  /\ IF member[About(w)] # Outside \/ ItemHeld(w, About(w))
     THEN Step(w, [tx[w] EXCEPT !.at = "done"])
     ELSE \E c \in Contribution \ {"origin"} :
            /\ Contributes(w, c)
            /\ Step(w, [tx[w] EXCEPT !.at = "joined", !.joins = TRUE, !.as = c])

\* Somebody else filed the item: the transaction writes nothing more.
JoinCandidate(w) ==
  /\ tx[w].at = "counted" /\ ~ItemHeld(w, About(w))
  /\ IF member[About(w)] # Outside
     THEN Step(w, [tx[w] EXCEPT !.at = "done"])
     ELSE \E c \in Contribution \ {"origin"} :
            /\ Contributes(w, c)
            /\ Step(w, [tx[w] EXCEPT !.at = "joined", !.joins = TRUE, !.as = c])

NewState(w, count) ==
  IF tx[w].as = "contradiction" THEN "contradicted"
  ELSE IF count >= 2 THEN "confirmed" ELSE "developing"

\* Fault: the number of sources is read, kept and incremented.
UpdateIncrements(w) ==
  /\ tx[w].at = "joined" /\ ~StoryHeld(w, tx[w].story)
  /\ LET old == cluster[tx[w].story]
         count == old.sources + 1
     IN Step(w, [tx[w] EXCEPT !.at = "done",
          !.row = IF tx[w].as = "repeated_coverage" THEN old
                  ELSE [state |-> NewState(w, count), sources |-> count,
                        version |-> old.version + 1]])

\* Fault: the version comes from the row that was read, too.
UpdateFromReading(w) ==
  /\ tx[w].at = "joined" /\ ~StoryHeld(w, tx[w].story)
  /\ LET count == Cardinality(tx[w].seen \cup {Outlet[About(w)]})
     IN Step(w, [tx[w] EXCEPT !.at = "done",
          !.row = IF tx[w].as = "repeated_coverage" THEN cluster[tx[w].story]
                  ELSE [state |-> NewState(w, count), sources |-> count,
                        version |-> tx[w].read.version + 1]])

\* The state and the number of sources come from what was read before; the
\* version is that of the row the statement updates, plus one.
UpdateStory(w) ==
  /\ tx[w].at = "joined" /\ ~StoryHeld(w, tx[w].story)
  /\ LET count == Cardinality(tx[w].seen \cup {Outlet[About(w)]})
         old == cluster[tx[w].story]
     IN Step(w, [tx[w] EXCEPT !.at = "done",
          !.row = IF tx[w].as = "repeated_coverage" THEN old
                  ELSE [state |-> NewState(w, count), sources |-> count,
                        version |-> old.version + 1]])

\* The version row is not written over one that is there.  The state it came
\* from is the one that was read.
Recorded(k, from, row) ==
  IF row.version \in DOMAIN history[k] THEN history[k]
  ELSE [v \in DOMAIN history[k] \cup {row.version} |->
          IF v = row.version THEN [from |-> from, to |-> row.state] ELSE history[k][v]]

CameFrom(w) == IF tx[w].as = "origin" THEN "nothing" ELSE tx[w].read.state

\* The headline counts as routed in the transaction that files it.
FileHeadline(w) ==
  /\ tx[w].at = "done"
  /\ LET k == tx[w].story
         wrote == tx[w].row.version > 0
     IN /\ cluster' = IF wrote THEN [cluster EXCEPT ![k] = tx[w].row] ELSE cluster
        /\ history' = IF wrote THEN [history EXCEPT ![k] = Recorded(k, CameFrom(w), tx[w].row)] ELSE history
        /\ member' = IF tx[w].joins
                     THEN [member EXCEPT ![About(w)] = [of |-> k, as |-> tx[w].as]]
                     ELSE member
  /\ filed' = filed \cup {tx[w].of}
  /\ tx' = [tx EXCEPT ![w] = NoTx]
  /\ UNCHANGED routerCrashes

\* The database ends one transaction of a deadlock; the headline is retried.
EndDeadlock(w) ==
  /\ tx[w] # NoTx /\ Deadlocked(w)
  /\ Step(w, NoTx)

CrashRouter(w) ==
  /\ tx[w] # NoTx /\ routerCrashes < MaxRouterCrashes
  /\ tx' = [tx EXCEPT ![w] = NoTx]
  /\ routerCrashes' = routerCrashes + 1
  /\ UNCHANGED storyRows

StoryInit ==
  /\ cluster = [k \in Story |-> Unwritten]
  /\ member = [i \in Item |-> Outside]
  /\ history = [k \in Story |-> <<>>]
  /\ filed = {} /\ tx = [w \in Router |-> NoTx] /\ routerCrashes = 0

Advance(w) ==
  \/ FindCandidate(w) \/ OpenStory(w) \/ JoinAsOrigin(w) \/ CountSources(w)
  \/ JoinCandidate(w) \/ UpdateStory(w) \/ FileHeadline(w)

StoryNext ==
  \E w \in Router :
    \/ Advance(w) \/ EndDeadlock(w) \/ CrashRouter(w)
    \/ \E h \in Headline : TakeHeadline(w, h)

StorySpec == StoryInit /\ [][StoryNext]_storyVars

-----------------------------------------------------------------------------
(* Properties *)

StoryTypeOK ==
  /\ cluster \in [Story -> [state : StoryState, sources : Nat, version : Nat]]
  /\ \A i \in Item : member[i] = Outside
                     \/ member[i] \in [of : Story, as : Contribution]
  /\ \A k \in Story : \A v \in DOMAIN history[k] : history[k][v] \in [from : StoryState \cup {"nothing"}, to : StoryState]
  /\ filed \subseteq Headline /\ routerCrashes \in 0..MaxRouterCrashes

\* Every material change of a story is one version of it: the versions are
\* numbered without gaps, the last one ends in the state of the story, and there
\* are as many as reports that changed it, however many routers work on the
\* story at once and whichever of them the database ends.
EveryChangeHasItsVersion ==
  \A k \in Story :
    /\ DOMAIN history[k] = 1..cluster[k].version
    /\ cluster[k].version > 0 =>
         /\ history[k][cluster[k].version].to = cluster[k].state
         /\ cluster[k].version = 1 + Cardinality(
              {i \in Members(k) : member[i].as \notin {"origin", "repeated_coverage"}})

\* A story that is called confirmed has reports of two sources, and no story
\* claims more sources than its reports have, although both are computed
\* from a reading that other routers may have made stale.
CorroborationIsReal ==
  \A k \in Story :
    /\ cluster[k].state = "confirmed" => Cardinality(Outlets(Members(k))) >= 2
    /\ cluster[k].version > 0 /\ Members(k) # {} =>
         cluster[k].sources <= Cardinality(Outlets(Members(k)))

\* A headline that counts as routed is in a story, also when its router found
\* the item taken by a transaction that had not ended.
FiledHeadlinesAreInStories ==
  \A h \in filed : member[ItemOf[h]] # Outside
=============================================================================
