--------------------------- MODULE FastPathProofs ---------------------------
(***************************************************************************)
(* The fast path.  For any number of routers, headlines, items and         *)
(* stories, whatever the reports say and whichever transactions the        *)
(* database ends or a crash loses: what StoryClusters promises of stories  *)
(* and their versions.  For any number of routers, workers, rows and       *)
(* horizons: what MacroReleases promises of the cards of a release.        *)
(***************************************************************************)
EXTENDS StoryClusters, MacroReleases, FiniteSetTheorems, TLAPS

ClusterRow == [state : StoryState, sources : Nat, version : Nat]
Membership == [of : Story, as : Contribution]
HistoryRow == [from : StoryState \cup {"nothing"}, to : StoryState]
Transaction ==
  [at : {"looking", "new", "opened", "candidate", "counted", "joined", "done"},
   of : Headline, story : Story, read : ClusterRow, seen : SUBSET Outlets(Item),
   row : ClusterRow, joins : BOOLEAN, as : Contribution]
Material == {"contradiction", "cross_source_confirmation", "material_update"}

StoriesTyped ==
  /\ cluster \in [Story -> ClusterRow]
  /\ member \in [Item -> Membership \cup {Outside}]
  /\ history = [k \in Story |-> history[k]]
  /\ \A k \in Story : \A v \in DOMAIN history[k] : history[k][v] \in HistoryRow
  /\ filed \subseteq Headline /\ routerCrashes \in 0..MaxRouterCrashes
  /\ tx \in [Router -> Transaction \cup {NoTx}]

\* A story and the item of a member row have one writer.
LocksExclude ==
  \A w, v \in Router :
    w # v => /\ \A k \in Story : LocksStory(w, k) => ~LocksStory(v, k)
             /\ \A i \in Item : LocksItem(w, i) => ~LocksItem(v, i)

\* What a transaction that opened a story has in hand.
Opened(w) ==
  LET old == cluster[tx[w].story]
  IN  tx[w].row = IF old.version > 0 THEN old
                  ELSE [state |-> "developing", sources |-> 1, version |-> 1]

\* What a transaction that joins a story leaves in its row.
Updated(w) ==
  LET old == cluster[tx[w].story]
  IN  /\ old.version > 0
      /\ \/ tx[w].as = "repeated_coverage" /\ tx[w].row = old
         \/ /\ tx[w].as \in Material /\ tx[w].row.version = old.version + 1
            /\ tx[w].row.sources = Cardinality(tx[w].seen \cup {Outlet[About(w)]})
            /\ tx[w].row.state = "confirmed" => tx[w].row.sources >= 2

TxIsSound(w) ==
  /\ tx[w].seen \subseteq Outlets(Members(tx[w].story))
  /\ tx[w].at = "looking" => tx[w].seen = {}
  /\ tx[w].at \in {"looking", "new", "candidate", "counted", "joined"} => tx[w].row = Unwritten
  /\ tx[w].at \in {"looking", "new", "opened", "candidate", "counted"} => ~tx[w].joins
  /\ tx[w].at \in {"candidate", "counted", "joined"} => cluster[tx[w].story].version > 0
  /\ tx[w].at = "opened" => Opened(w)
  /\ tx[w].at = "joined" => tx[w].joins /\ tx[w].as \in Material \cup {"repeated_coverage"}
  /\ tx[w].joins => member[About(w)] = Outside
  /\ tx[w].at = "done" /\ ~tx[w].joins => member[About(w)] # Outside
  /\ tx[w].at = "done" => \/ tx[w].row = Unwritten /\ ~tx[w].joins
                          \/ tx[w].as = "origin" /\ Opened(w)
                          \/ tx[w].joins /\ Updated(w)

\* A story without a version has no members; a story nobody is in yet has the
\* source it was opened with.
StoryIsSound(k) ==
  /\ cluster[k].version = 0 => Members(k) = {}
  /\ cluster[k].version > 0 /\ Members(k) = {} => cluster[k].sources <= 1

StoryInv ==
  /\ StoriesTyped /\ LocksExclude
  /\ \A w \in Router : tx[w] # NoTx => TxIsSound(w)
  /\ \A k \in Story : StoryIsSound(k)
  /\ EveryChangeHasItsVersion /\ CorroborationIsReal /\ FiledHeadlinesAreInStories

-----------------------------------------------------------------------------
(* Lemmas *)

\* An open transaction is one of the records of Transaction.
LEMMA OpenTxTyped ==
  ASSUME StoriesTyped, NEW w \in Router, tx[w].at # "idle" \/ tx[w] # NoTx
  PROVE  /\ tx[w] \in Transaction /\ tx[w] # NoTx /\ tx[w].at # "idle"
         /\ tx[w].story \in Story /\ About(w) \in Item /\ tx[w].of \in Headline
  <1>1. tx[w] \in Transaction \/ tx[w] = NoTx
    BY DEF StoriesTyped
  <1>2. NoTx.at = "idle"
    BY DEF NoTx
  <1>3. tx[w] \in Transaction /\ tx[w] # NoTx
    BY <1>1, <1>2
  <1>4. tx[w].at # "idle" /\ tx[w].story \in Story /\ tx[w].of \in Headline
    BY <1>3 DEF Transaction
  <1> QED
    BY <1>3, <1>4, StoryAssumption DEF About

LEMMA OutletsAreFinite ==
  ASSUME NEW S \in SUBSET Item
  PROVE  IsFiniteSet(S) /\ IsFiniteSet(Outlets(S))
  <1>1. IsFiniteSet(S)
    BY StoryAssumption, FS_Subset
  <1> DEFINE f == [i \in S |-> Outlet[i]]
  <1>2. f \in Surjection(S, Outlets(S))
    BY DEF Outlets, Surjection
  <1> QED
    BY <1>1, <1>2, FS_Surjection

\* Nobody who is outside is a member of a story.
LEMMA OutsidersAreNoMembers ==
  ASSUME NEW i \in Item, member[i] = Outside, NEW k \in Story
  PROVE  i \notin Members(k)
  <1>1. Outside.of = "no story"
    BY DEF Outside
  <1>2. "no story" # k
    BY StoryAssumption
  <1> QED
    BY <1>1, <1>2 DEF Members

\* A statement that writes nothing to the rows: only the transaction that ran
\* it has to be looked at.
LEMMA OneStatement ==
  ASSUME StoryInv, NEW w \in Router, NEW t \in Transaction \cup {NoTx},
         tx' = [tx EXCEPT ![w] = t], UNCHANGED storyRows,
         routerCrashes' \in 0..MaxRouterCrashes,
         t # NoTx => TxIsSound(w)',
         \A k \in Story : LocksStory(w, k)' => LocksStory(w, k) \/ ~StoryHeld(w, k),
         \A i \in Item : LocksItem(w, i)' => LocksItem(w, i) \/ ~ItemHeld(w, i)
  PROVE  StoryInv'
  <1>1. tx'[w] = t /\ \A v \in Router \ {w} : tx'[v] = tx[v]
    BY DEF StoryInv, StoriesTyped
  <1>2. StoriesTyped'
    BY DEF StoryInv, StoriesTyped, storyRows
  <1>3. \A v \in Router \ {w} : /\ \A k \in Story : LocksStory(v, k)' <=> LocksStory(v, k)
                                /\ \A i \in Item : LocksItem(v, i)' <=> LocksItem(v, i)
    BY <1>1 DEF LocksStory, LocksItem, About
  <1>4. LocksExclude'
    <2> SUFFICES ASSUME NEW u \in Router, NEW v \in Router, u # v
                 PROVE  /\ \A k \in Story : LocksStory(u, k)' => ~LocksStory(v, k)'
                        /\ \A i \in Item : LocksItem(u, i)' => ~LocksItem(v, i)'
      BY DEF LocksExclude
    <2>1. CASE u # w /\ v # w
      BY <2>1, <1>3 DEF StoryInv, LocksExclude
    <2>2. CASE u = w
      BY <2>2, <1>3 DEF StoryInv, LocksExclude, StoryHeld, ItemHeld
    <2>3. CASE v = w
      BY <2>3, <1>3 DEF StoryInv, LocksExclude, StoryHeld, ItemHeld
    <2> QED
      BY <2>1, <2>2, <2>3
  <1>5. \A v \in Router : tx'[v] # NoTx => TxIsSound(v)'
    <2> SUFFICES ASSUME NEW v \in Router \ {w}, tx'[v] # NoTx
                 PROVE  TxIsSound(v)'
      BY <1>1
    <2>1. TxIsSound(v)
      BY <1>1 DEF StoryInv
    <2> QED
      BY <2>1, <1>1 DEF TxIsSound, Members, Opened, Updated, About, storyRows
  <1>6. \A k \in Story : StoryIsSound(k)'
    BY DEF StoryInv, StoryIsSound, Members, storyRows
  <1>7. EveryChangeHasItsVersion' /\ CorroborationIsReal' /\ FiledHeadlinesAreInStories'
    BY DEF StoryInv, EveryChangeHasItsVersion, CorroborationIsReal, FiledHeadlinesAreInStories,
           Members, storyRows
  <1> QED
    BY <1>2, <1>4, <1>5, <1>6, <1>7 DEF StoryInv

-----------------------------------------------------------------------------
(* The statements of a transaction *)

LEMMA InitSound == StoryInit => StoryInv
  <1> SUFFICES ASSUME StoryInit PROVE StoryInv
    OBVIOUS
  <1>1. StoriesTyped
    <2>1. cluster \in [Story -> ClusterRow]
      BY DEF StoryInit, Unwritten, ClusterRow, StoryState
    <2>2. member \in [Item -> Membership \cup {Outside}] /\ tx \in [Router -> Transaction \cup {NoTx}]
      BY DEF StoryInit
    <2>3. /\ history = [k \in Story |-> history[k]]
          /\ \A k \in Story : \A v \in DOMAIN history[k] : history[k][v] \in HistoryRow
      BY DEF StoryInit
    <2>4. filed \subseteq Headline /\ routerCrashes \in 0..MaxRouterCrashes
      <3>1. MaxRouterCrashes \in Nat
        BY StoryAssumption
      <3> QED
        BY <3>1 DEF StoryInit
    <2> QED
      BY <2>1, <2>2, <2>3, <2>4 DEF StoriesTyped
  <1>2. \A k \in Story : Members(k) = {}
    BY OutsidersAreNoMembers DEF StoryInit, Members
  <1>3. LocksExclude /\ \A w \in Router : tx[w] = NoTx
    BY DEF StoryInit, LocksExclude, LocksStory, LocksItem, NoTx
  <1>4. \A k \in Story : cluster[k] = Unwritten /\ history[k] = <<>>
    BY DEF StoryInit
  <1>5. EveryChangeHasItsVersion
    BY <1>4 DEF EveryChangeHasItsVersion, Unwritten
  <1>6. CorroborationIsReal /\ FiledHeadlinesAreInStories
    BY <1>4 DEF CorroborationIsReal, FiledHeadlinesAreInStories, Unwritten, StoryInit
  <1>7. \A k \in Story : StoryIsSound(k)
    BY <1>2, <1>4 DEF StoryIsSound, Unwritten
  <1> QED
    BY <1>1, <1>3, <1>5, <1>6, <1>7 DEF StoryInv

LEMMA TakeHeadlineSound ==
  ASSUME StoryInv, NEW w \in Router, NEW h \in Headline, TakeHeadline(w, h)
  PROVE  StoryInv'
  <1> DEFINE t == [at |-> IF member[ItemOf[h]] = Outside THEN "looking" ELSE "done",
                   of |-> h, story |-> KeyOf[h], read |-> Unwritten, seen |-> {},
                   row |-> Unwritten, joins |-> FALSE, as |-> "repeated_coverage"]
  <1>1. Step(w, t)
    BY DEF TakeHeadline
  <1>2. t \in Transaction
    <2>1. Unwritten \in ClusterRow
      BY DEF Unwritten, ClusterRow, StoryState
    <2>2. KeyOf[h] \in Story
      BY StoryAssumption
    <2>3. FALSE \in BOOLEAN /\ {} \in SUBSET Outlets(Item)
      OBVIOUS
    <2> QED
      BY <2>1, <2>2, <2>3 DEF Transaction, Contribution
  <1>3. tx'[w] = t
    BY <1>1 DEF Step, StoryInv, StoriesTyped
  <1>4. t.at \in {"looking", "done"} /\ t.row.version = 0 /\ t.joins = FALSE
    BY DEF Unwritten
  <1>5. TxIsSound(w)'
    <2>1. About(w)' = ItemOf[h] /\ member' = member
      BY <1>1, <1>3 DEF About, Step, storyRows
    <2>2. t.at = "done" => member[ItemOf[h]] # Outside
      OBVIOUS
    <2> QED
      BY <1>3, <1>4, <2>1, <2>2 DEF TxIsSound
  <1>6. \A k \in Story : ~LocksStory(w, k)'
    BY <1>3, <1>4 DEF LocksStory
  <1>7. \A i \in Item : ~LocksItem(w, i)'
    BY <1>3, <1>4 DEF LocksItem
  <1> HIDE DEF t
  <1>8. UNCHANGED storyRows /\ tx' = [tx EXCEPT ![w] = t] /\ routerCrashes' \in 0..MaxRouterCrashes
    BY <1>1 DEF Step, StoryInv, StoriesTyped
  <1> QED
    BY <1>2, <1>5, <1>6, <1>7, <1>8, OneStatement

LEMMA FindCandidateSound ==
  ASSUME StoryInv, NEW w \in Router, FindCandidate(w)
  PROVE  StoryInv'
  <1>1. StoriesTyped /\ tx[w].at = "looking" /\ tx[w] \in Transaction /\ TxIsSound(w)
    BY OpenTxTyped DEF FindCandidate, StoryInv
  <1>2. UNCHANGED storyRows /\ routerCrashes' \in 0..MaxRouterCrashes
    BY DEF FindCandidate, Step, StoryInv, StoriesTyped
  <1>3. \E t \in Transaction :
          /\ tx' = [tx EXCEPT ![w] = t]
          /\ \/ t.at = "new" /\ t.story = tx[w].story
             \/ t.at = "candidate" /\ cluster[t.story].version > 0
          /\ t.seen = {} /\ t.of = tx[w].of /\ t.row = tx[w].row /\ t.joins = tx[w].joins
    <2>1. CASE Step(w, [tx[w] EXCEPT !.at = "new"])
      <3> DEFINE t == [tx[w] EXCEPT !.at = "new"]
      <3>1. t \in Transaction
        BY <1>1 DEF Transaction
      <3>2. /\ t.at = "new" /\ t.story = tx[w].story /\ t.seen = {}
            /\ t.of = tx[w].of /\ t.row = tx[w].row /\ t.joins = tx[w].joins
        BY <1>1 DEF Transaction, TxIsSound
      <3>3. tx' = [tx EXCEPT ![w] = t]
        BY <2>1 DEF Step
      <3> QED
        BY <3>1, <3>2, <3>3
    <2>2. CASE \E k \in Story :
                 /\ cluster[k].version > 0
                 /\ Step(w, [tx[w] EXCEPT !.at = "candidate", !.story = k, !.read = cluster[k]])
      <3> PICK k \in Story :
                 /\ cluster[k].version > 0
                 /\ Step(w, [tx[w] EXCEPT !.at = "candidate", !.story = k, !.read = cluster[k]])
        BY <2>2
      <3> DEFINE t == [tx[w] EXCEPT !.at = "candidate", !.story = k, !.read = cluster[k]]
      <3>1. t \in Transaction
        BY <1>1 DEF Transaction, StoriesTyped
      <3>2. /\ t.at = "candidate" /\ t.story = k /\ t.seen = {}
            /\ t.of = tx[w].of /\ t.row = tx[w].row /\ t.joins = tx[w].joins
        BY <1>1 DEF Transaction, TxIsSound
      <3>3. tx' = [tx EXCEPT ![w] = t]
        BY DEF Step
      <3> QED
        BY <3>1, <3>2, <3>3
    <2> QED
      BY <2>1, <2>2 DEF FindCandidate
  <1>4. PICK t \in Transaction :
          /\ tx' = [tx EXCEPT ![w] = t]
          /\ \/ t.at = "new" /\ t.story = tx[w].story
             \/ t.at = "candidate" /\ cluster[t.story].version > 0
          /\ t.seen = {} /\ t.of = tx[w].of /\ t.row = tx[w].row /\ t.joins = tx[w].joins
    BY <1>3
  <1>5. tx'[w] = t
    BY <1>4, <1>1 DEF StoriesTyped
  <1>6. TxIsSound(w)'
    BY <1>1, <1>2, <1>4, <1>5 DEF TxIsSound, About, Members, storyRows
  <1>7. ~t.joins /\ t.row.version = 0
    BY <1>1, <1>4 DEF TxIsSound, Unwritten
  <1>8. /\ \A k \in Story : ~LocksStory(w, k)'
        /\ \A i \in Item : ~LocksItem(w, i)'
    BY <1>4, <1>5, <1>7 DEF LocksStory, LocksItem
  <1> QED
    BY <1>2, <1>4, <1>6, <1>8, OneStatement

LEMMA OpenStorySound ==
  ASSUME StoryInv, NEW w \in Router, OpenStory(w)
  PROVE  StoryInv'
  <1>1. StoriesTyped /\ tx[w].at = "new" /\ tx[w] \in Transaction /\ TxIsSound(w)
    BY OpenTxTyped DEF OpenStory, StoryInv
  <1>2. UNCHANGED storyRows /\ routerCrashes' \in 0..MaxRouterCrashes /\ ~StoryHeld(w, tx[w].story)
    BY DEF OpenStory, Step, StoryInv, StoriesTyped
  <1> DEFINE old == cluster[tx[w].story]
             new == IF old.version > 0 THEN old
                    ELSE [state |-> "developing", sources |-> 1, version |-> 1]
             t == [tx[w] EXCEPT !.at = "opened", !.row = new]
  <1>3. Step(w, t)
    BY DEF OpenStory
  <1>4. new \in ClusterRow
    <2>1. old \in ClusterRow
      BY <1>1 DEF StoriesTyped, Transaction
    <2> QED
      BY <2>1 DEF ClusterRow, StoryState
  <1> HIDE DEF new
  <1>5. t \in Transaction
    BY <1>1, <1>4 DEF Transaction
  <1>6. /\ t.at = "opened" /\ t.row = new /\ t.story = tx[w].story /\ t.of = tx[w].of
        /\ t.joins = tx[w].joins /\ t.seen = tx[w].seen
    BY <1>1 DEF Transaction
  <1> HIDE DEF t
  <1>7. tx'[w] = t /\ tx' = [tx EXCEPT ![w] = t]
    BY <1>1, <1>3 DEF Step, StoriesTyped
  <1>8. Opened(w)'
    BY <1>2, <1>6, <1>7 DEF Opened, new, storyRows
  <1>9. TxIsSound(w)'
    BY <1>1, <1>2, <1>6, <1>7, <1>8 DEF TxIsSound, About, Members, storyRows
  <1>10. /\ \A k \in Story : LocksStory(w, k)' => ~StoryHeld(w, k)
         /\ \A i \in Item : ~LocksItem(w, i)'
    BY <1>1, <1>2, <1>6, <1>7 DEF LocksStory, LocksItem, TxIsSound
  <1> QED
    BY <1>2, <1>5, <1>7, <1>9, <1>10, OneStatement

LEMMA JoinAsOriginSound ==
  ASSUME StoryInv, NEW w \in Router, JoinAsOrigin(w)
  PROVE  StoryInv'
  <1>1. StoriesTyped /\ tx[w].at = "opened" /\ tx[w] \in Transaction /\ TxIsSound(w)
    BY OpenTxTyped DEF JoinAsOrigin, StoryInv
  <1>2. UNCHANGED storyRows /\ routerCrashes' \in 0..MaxRouterCrashes /\ ~ItemHeld(w, About(w))
    BY DEF JoinAsOrigin, Step, StoryInv, StoriesTyped
  <1> DEFINE joins == member[About(w)] = Outside
             t == [tx[w] EXCEPT !.at = "done", !.as = "origin", !.joins = joins]
  <1>3. Step(w, t)
    BY DEF JoinAsOrigin
  <1>4. t \in Transaction
    <2>1. joins \in BOOLEAN /\ "origin" \in Contribution
      BY DEF Contribution
    <2> HIDE DEF joins
    <2> QED
      BY <1>1, <2>1 DEF Transaction
  <1>6. /\ t.at = "done" /\ t.row = tx[w].row /\ t.story = tx[w].story /\ t.of = tx[w].of
        /\ t.joins = joins /\ t.as = "origin" /\ t.seen = tx[w].seen
    BY <1>1 DEF Transaction
  <1> HIDE DEF t
  <1>7. tx'[w] = t /\ tx' = [tx EXCEPT ![w] = t]
    BY <1>1, <1>3 DEF Step, StoriesTyped
  <1>8. Opened(w)' /\ About(w)' = About(w) /\ member' = member
    BY <1>1, <1>2, <1>6, <1>7 DEF Opened, storyRows, TxIsSound, About
  <1>9. TxIsSound(w)'
    <2>1. t.joins => member[About(w)] = Outside
      BY <1>6
    <2>2. ~t.joins => member[About(w)] # Outside
      BY <1>6
    <2>3. t.seen \subseteq Outlets(Members(tx[w].story))'
      BY <1>1, <1>2, <1>6, <1>7 DEF TxIsSound, Members, storyRows
    <2> QED
      BY <1>6, <1>7, <1>8, <2>1, <2>2, <2>3 DEF TxIsSound
  <1>10. /\ \A k \in Story : LocksStory(w, k)' => LocksStory(w, k)
         /\ \A i \in Item : LocksItem(w, i)' => ~ItemHeld(w, i)
    BY <1>1, <1>2, <1>6, <1>7, <1>8 DEF LocksStory, LocksItem
  <1> QED
    BY <1>2, <1>4, <1>7, <1>9, <1>10, OneStatement

LEMMA CountSourcesSound ==
  ASSUME StoryInv, NEW w \in Router, CountSources(w)
  PROVE  StoryInv'
  <1>1. StoriesTyped /\ tx[w].at = "candidate" /\ tx[w] \in Transaction /\ TxIsSound(w)
    BY OpenTxTyped DEF CountSources, StoryInv
  <1>2. UNCHANGED storyRows /\ routerCrashes' \in 0..MaxRouterCrashes
    BY DEF CountSources, Step, StoryInv, StoriesTyped
  <1> DEFINE read == Outlets(Members(tx[w].story))
             t == [tx[w] EXCEPT !.at = "counted", !.seen = read]
  <1>3. Step(w, t)
    BY DEF CountSources
  <1>4. t \in Transaction
    <2>1. read \in SUBSET Outlets(Item)
      BY DEF Outlets, Members
    <2> HIDE DEF read
    <2> QED
      BY <1>1, <2>1 DEF Transaction
  <1>6. /\ t.at = "counted" /\ t.row = tx[w].row /\ t.story = tx[w].story /\ t.of = tx[w].of
        /\ t.joins = tx[w].joins /\ t.seen = read
    BY <1>1 DEF Transaction
  <1> HIDE DEF t
  <1>7. tx'[w] = t /\ tx' = [tx EXCEPT ![w] = t]
    BY <1>1, <1>3 DEF Step, StoriesTyped
  <1>9. TxIsSound(w)'
    BY <1>1, <1>2, <1>6, <1>7 DEF TxIsSound, About, Members, storyRows
  <1>10. /\ \A k \in Story : ~LocksStory(w, k)'
         /\ \A i \in Item : ~LocksItem(w, i)'
    BY <1>6, <1>7 DEF LocksStory, LocksItem
  <1> QED
    BY <1>2, <1>4, <1>7, <1>9, <1>10, OneStatement

LEMMA JoinCandidateSound ==
  ASSUME StoryInv, NEW w \in Router, JoinCandidate(w)
  PROVE  StoryInv'
  <1>1. StoriesTyped /\ tx[w].at = "counted" /\ tx[w] \in Transaction /\ TxIsSound(w)
    BY OpenTxTyped DEF JoinCandidate, StoryInv
  <1>2. /\ UNCHANGED storyRows /\ routerCrashes' \in 0..MaxRouterCrashes
        /\ ~ItemHeld(w, About(w)) /\ About(w) \in Item
    BY <1>1, OpenTxTyped DEF JoinCandidate, Step, StoryInv, StoriesTyped
  <1>3. tx[w].row = Unwritten /\ ~tx[w].joins /\ tx[w].row.version = 0
    BY <1>1 DEF TxIsSound, Unwritten
  <1>4. CASE member[About(w)] # Outside
    <2> DEFINE t == [tx[w] EXCEPT !.at = "done"]
    <2>1. Step(w, t)
      BY <1>4 DEF JoinCandidate
    <2>2. t \in Transaction
      BY <1>1 DEF Transaction
    <2>3. /\ t.at = "done" /\ t.row = tx[w].row /\ t.story = tx[w].story /\ t.of = tx[w].of
          /\ t.joins = tx[w].joins /\ t.seen = tx[w].seen
      BY <1>1 DEF Transaction
    <2> HIDE DEF t
    <2>4. tx'[w] = t /\ tx' = [tx EXCEPT ![w] = t]
      BY <1>1, <2>1 DEF Step, StoriesTyped
    <2>5. TxIsSound(w)'
      BY <1>1, <1>2, <1>3, <1>4, <2>3, <2>4 DEF TxIsSound, About, Members, storyRows
    <2>6. /\ \A k \in Story : ~LocksStory(w, k)'
          /\ \A i \in Item : ~LocksItem(w, i)'
      BY <1>3, <2>3, <2>4 DEF LocksStory, LocksItem
    <2> QED
      BY <1>2, <2>2, <2>4, <2>5, <2>6, OneStatement
  <1>5. CASE member[About(w)] = Outside
    <2> PICK c \in Contribution \ {"origin"} :
               Step(w, [tx[w] EXCEPT !.at = "joined", !.joins = TRUE, !.as = c])
      BY <1>5 DEF JoinCandidate
    <2> DEFINE t == [tx[w] EXCEPT !.at = "joined", !.joins = TRUE, !.as = c]
    <2>1. t \in Transaction
      BY <1>1 DEF Transaction
    <2>2. /\ t.at = "joined" /\ t.row = tx[w].row /\ t.story = tx[w].story /\ t.of = tx[w].of
          /\ t.joins = TRUE /\ t.seen = tx[w].seen /\ t.as = c
      BY <1>1 DEF Transaction
    <2> HIDE DEF t
    <2>3. tx'[w] = t /\ tx' = [tx EXCEPT ![w] = t]
      BY <1>1 DEF Step, StoriesTyped, t
    <2>4. c \in Material \cup {"repeated_coverage"}
      BY DEF Contribution, Material
    <2>5. TxIsSound(w)'
      BY <1>1, <1>2, <1>3, <1>5, <2>2, <2>3, <2>4 DEF TxIsSound, About, Members, storyRows
    <2>6. /\ \A k \in Story : ~LocksStory(w, k)'
          /\ \A i \in Item : LocksItem(w, i)' => ~ItemHeld(w, i)
      BY <1>2, <2>2, <2>3 DEF LocksStory, LocksItem, About
    <2> QED
      BY <1>2, <2>1, <2>3, <2>5, <2>6, OneStatement
  <1> QED
    BY <1>4, <1>5

LEMMA UpdateStorySound ==
  ASSUME StoryInv, NEW w \in Router, UpdateStory(w)
  PROVE  StoryInv'
  <1>1. StoriesTyped /\ tx[w].at = "joined" /\ tx[w] \in Transaction /\ TxIsSound(w)
    BY OpenTxTyped DEF UpdateStory, StoryInv
  <1>2. /\ UNCHANGED storyRows /\ routerCrashes' \in 0..MaxRouterCrashes
        /\ ~StoryHeld(w, tx[w].story) /\ About(w) \in Item /\ tx[w].story \in Story
    BY <1>1, OpenTxTyped DEF UpdateStory, Step, StoryInv, StoriesTyped
  <1> DEFINE count == Cardinality(tx[w].seen \cup {Outlet[About(w)]})
             old == cluster[tx[w].story]
             new == IF tx[w].as = "repeated_coverage" THEN old
                    ELSE [state |-> NewState(w, count), sources |-> count,
                          version |-> old.version + 1]
             t == [tx[w] EXCEPT !.at = "done", !.row = new]
  <1>3. Step(w, t)
    BY DEF UpdateStory
  <1>4. count \in Nat
    <2>1. tx[w].seen \subseteq Outlets(Item)
      BY <1>1 DEF Transaction
    <2>2. IsFiniteSet(tx[w].seen)
      BY <2>1, OutletsAreFinite, FS_Subset
    <2> QED
      BY <2>2, FS_AddElement, FS_CardinalityType
  <1>5. old \in ClusterRow /\ old.version > 0 /\ tx[w].joins
    BY <1>1, <1>2 DEF StoriesTyped, TxIsSound
  <1>6. new \in ClusterRow
    <2>1. NewState(w, count) \in StoryState
      BY DEF NewState, StoryState
    <2>2. old.version + 1 \in Nat
      BY <1>5 DEF ClusterRow
    <2> HIDE DEF count, old
    <2> QED
      BY <1>4, <1>5, <2>1, <2>2 DEF ClusterRow
  <1>7. \/ tx[w].as = "repeated_coverage" /\ new = old
        \/ /\ tx[w].as \in Material /\ new.version = old.version + 1
           /\ new.sources = count
           /\ new.state = "confirmed" => new.sources >= 2
    <2>1. tx[w].as \in Material \cup {"repeated_coverage"}
      BY <1>1 DEF TxIsSound
    <2> HIDE DEF count, old
    <2> QED
      BY <2>1, <1>4 DEF NewState, Material
  <1> HIDE DEF new
  <1>8. t \in Transaction
    BY <1>1, <1>6 DEF Transaction
  <1>9. /\ t.at = "done" /\ t.row = new /\ t.story = tx[w].story /\ t.of = tx[w].of
        /\ t.joins = tx[w].joins /\ t.seen = tx[w].seen /\ t.as = tx[w].as
    BY <1>1 DEF Transaction
  <1> HIDE DEF t
  <1>10. tx'[w] = t /\ tx' = [tx EXCEPT ![w] = t] /\ About(w)' = About(w)
    BY <1>1, <1>3, <1>9 DEF Step, StoriesTyped, About
  <1>11. Updated(w)'
    BY <1>2, <1>5, <1>7, <1>9, <1>10 DEF Updated, storyRows
  <1>12. TxIsSound(w)'
    <2>1. t.seen \subseteq Outlets(Members(tx[w].story))'
      BY <1>1, <1>2, <1>9, <1>10 DEF TxIsSound, Members, storyRows
    <2>2. member'[About(w)] = Outside
      BY <1>1, <1>2, <1>5 DEF TxIsSound, storyRows
    <2> QED
      BY <1>5, <1>9, <1>10, <1>11, <2>1, <2>2 DEF TxIsSound
  <1>13. /\ \A k \in Story : LocksStory(w, k)' => ~StoryHeld(w, k)
         /\ \A i \in Item : LocksItem(w, i)' => LocksItem(w, i)
    BY <1>1, <1>2, <1>9, <1>10 DEF LocksStory, LocksItem
  <1> QED
    BY <1>2, <1>8, <1>10, <1>12, <1>13, OneStatement

LEMMA EndSound ==
  ASSUME StoryInv, NEW w \in Router, EndDeadlock(w) \/ CrashRouter(w)
  PROVE  StoryInv'
  <1>1. UNCHANGED storyRows /\ tx' = [tx EXCEPT ![w] = NoTx]
    BY DEF EndDeadlock, CrashRouter, Step
  <1>3. routerCrashes' \in 0..MaxRouterCrashes
    <2>1. MaxRouterCrashes \in Nat
      BY StoryAssumption
    <2>2. routerCrashes \in 0..MaxRouterCrashes
      BY DEF StoryInv, StoriesTyped
    <2> QED
      BY <2>1, <2>2 DEF EndDeadlock, CrashRouter, Step
  <1>2. /\ \A k \in Story : ~LocksStory(w, k)'
        /\ \A i \in Item : ~LocksItem(w, i)'
    BY <1>1 DEF LocksStory, LocksItem, NoTx, StoryInv, StoriesTyped
  <1> QED
    BY <1>1, <1>2, <1>3, OneStatement

-----------------------------------------------------------------------------
(* The commit *)

\* What the commit of a transaction does to the rows, without regard to how
\* it came by them.
CommitWrites(w) ==
  LET k == tx[w].story
      row == tx[w].row
  IN  /\ tx[w] \in Transaction /\ k \in Story /\ About(w) \in Item /\ tx[w].of \in Headline
      /\ tx[w].at = "done" /\ TxIsSound(w) /\ row \in ClusterRow
      /\ \A j \in Story : cluster'[j] = IF j = k /\ row.version > 0 THEN row ELSE cluster[j]
      /\ \A j \in Story : history'[j] = IF j = k /\ row.version > 0
                                        THEN Recorded(k, CameFrom(w), row) ELSE history[j]
      /\ \A i \in Item : member'[i] = IF i = About(w) /\ tx[w].joins
                                      THEN [of |-> k, as |-> tx[w].as] ELSE member[i]
      /\ history' = [j \in Story |-> history'[j]]
      /\ cluster' = [j \in Story |-> cluster'[j]]
      /\ member' = [j \in Item |-> member'[j]]
      /\ tx' = [tx EXCEPT ![w] = NoTx] /\ filed' = filed \cup {tx[w].of}
      /\ tx'[w] = NoTx /\ \A v \in Router \ {w} : tx'[v] = tx[v]
      /\ routerCrashes' = routerCrashes

LEMMA CommitEffect ==
  ASSUME StoryInv, NEW w \in Router, FileHeadline(w)
  PROVE  CommitWrites(w)
  <1>1. StoriesTyped /\ tx[w] \in Transaction /\ tx[w].at = "done" /\ TxIsSound(w)
    BY OpenTxTyped DEF FileHeadline, StoryInv
  <1>2. tx[w].story \in Story /\ About(w) \in Item /\ tx[w].of \in Headline /\ tx[w].row \in ClusterRow
    BY <1>1, OpenTxTyped DEF Transaction
  <1> DEFINE k == tx[w].story
             row == tx[w].row
             record == Recorded(k, CameFrom(w), row)
             entry == [of |-> k, as |-> tx[w].as]
  <1>3. /\ cluster' = IF row.version > 0 THEN [cluster EXCEPT ![k] = row] ELSE cluster
        /\ history' = IF row.version > 0 THEN [history EXCEPT ![k] = record] ELSE history
        /\ member' = IF tx[w].joins THEN [member EXCEPT ![About(w)] = entry] ELSE member
        /\ tx' = [tx EXCEPT ![w] = NoTx] /\ filed' = filed \cup {tx[w].of}
        /\ routerCrashes' = routerCrashes
    BY DEF FileHeadline
  <1> HIDE DEF row, record, entry, k
  <1>4. /\ cluster = [j \in Story |-> cluster[j]] /\ member = [j \in Item |-> member[j]]
        /\ history = [j \in Story |-> history[j]] /\ tx = [v \in Router |-> tx[v]]
    BY <1>1 DEF StoriesTyped
  <1>5. k \in Story /\ About(w) \in Item
    BY <1>2 DEF k
  <1>6. /\ \A j \in Story : cluster'[j] = IF j = k /\ row.version > 0 THEN row ELSE cluster[j]
        /\ cluster' = [j \in Story |-> cluster'[j]]
    BY <1>3, <1>4, <1>5
  <1>7. /\ \A j \in Story : history'[j] = IF j = k /\ row.version > 0 THEN record ELSE history[j]
        /\ history' = [j \in Story |-> history'[j]]
    BY <1>3, <1>4, <1>5
  <1>8. /\ \A i \in Item : member'[i] = IF i = About(w) /\ tx[w].joins THEN entry ELSE member[i]
        /\ member' = [j \in Item |-> member'[j]]
    BY <1>3, <1>4, <1>5
  <1>9. tx'[w] = NoTx /\ \A v \in Router \ {w} : tx'[v] = tx[v]
    BY <1>3, <1>4
  <1> QED
    BY <1>1, <1>2, <1>3, <1>6, <1>7, <1>8, <1>9 DEF CommitWrites, k, row, record, entry

\* A commit adds at most the item of its headline to the story it is about.
LEMMA MembersGrow ==
  ASSUME StoryInv, NEW w \in Router, FileHeadline(w), NEW j \in Story
  PROVE  /\ Members(j)' = Members(j) \cup (IF tx[w].joins /\ j = tx[w].story
                                           THEN {About(w)} ELSE {})
         /\ tx[w].joins => About(w) \notin Members(j)
         /\ \A i \in Members(j) : member'[i] = member[i]
  <1>0. CommitWrites(w)
    BY CommitEffect
  <1>1. tx[w].joins => About(w) \notin Members(j)
    BY <1>0, OutsidersAreNoMembers DEF TxIsSound, CommitWrites
  <1>2. \A i \in Members(j) : member'[i] = member[i]
    BY <1>0, <1>1 DEF Members, CommitWrites
  <1>3. ASSUME NEW i \in Item
        PROVE  i \in Members(j)' <=> i \in Members(j) \/ (tx[w].joins /\ j = tx[w].story /\ i = About(w))
    BY <1>0, <1>1 DEF Members, CommitWrites
  <1>4. About(w) \in Item
    BY <1>0 DEF CommitWrites
  <1> QED
    BY <1>0, <1>1, <1>2, <1>3, <1>4 DEF Members, CommitWrites

LEMMA CommitKeepsTypes ==
  ASSUME StoryInv, NEW w \in Router, FileHeadline(w)
  PROVE  StoriesTyped'
  <1>0. CommitWrites(w)
    BY CommitEffect
  <1>1. cluster' \in [Story -> ClusterRow]
    BY <1>0 DEF StoryInv, StoriesTyped, CommitWrites
  <1>2. member' \in [Item -> Membership \cup {Outside}]
    <2>1. [of |-> tx[w].story, as |-> tx[w].as] \in Membership
      BY <1>0 DEF Transaction, Membership, CommitWrites
    <2> QED
      BY <1>0, <2>1 DEF StoryInv, StoriesTyped, CommitWrites
  <1>3. history' = [j \in Story |-> history'[j]]
    BY <1>0 DEF CommitWrites
  <1>4. ASSUME NEW j \in Story, NEW v \in DOMAIN history'[j]
        PROVE  history'[j][v] \in HistoryRow
    <2>1. \A u \in DOMAIN history[j] : history[j][u] \in HistoryRow
      BY <1>0 DEF StoryInv, StoriesTyped, CommitWrites
    <2> DEFINE new == [from |-> CameFrom(w), to |-> tx[w].row.state]
    <2>2. new \in HistoryRow
      BY <1>0 DEF CameFrom, Transaction, ClusterRow, HistoryRow, CommitWrites
    <2>3. CASE ~(j = tx[w].story /\ tx[w].row.version > 0)
      BY <1>0, <2>1, <2>3 DEF CommitWrites
    <2>4. CASE j = tx[w].story /\ tx[w].row.version > 0
      <3>1. history'[j] = Recorded(j, CameFrom(w), tx[w].row)
        BY <1>0, <2>4 DEF CommitWrites
      <3> QED
        BY <1>0, <2>1, <2>2, <3>1 DEF Recorded, CommitWrites
    <2> QED
      BY <1>0, <2>3, <2>4 DEF CommitWrites
  <1>5. tx' \in [Router -> Transaction \cup {NoTx}]
    BY <1>0 DEF StoryInv, StoriesTyped, CommitWrites
  <1>6. filed' \subseteq Headline /\ routerCrashes' \in 0..MaxRouterCrashes
    BY <1>0 DEF StoryInv, StoriesTyped, CommitWrites
  <1> QED
    BY <1>0, <1>1, <1>2, <1>3, <1>4, <1>5, <1>6 DEF StoriesTyped, CommitWrites

\* The other transactions hold what they need: a story or an item that one of
\* them relies on is not the one that was committed.
LEMMA CommitKeepsOthers ==
  ASSUME StoryInv, NEW w \in Router, FileHeadline(w), NEW v \in Router \ {w}, tx[v] # NoTx
  PROVE  TxIsSound(v)'
  <1>0. CommitWrites(w)
    BY CommitEffect
  <1>1. StoriesTyped /\ TxIsSound(v) /\ tx'[v] = tx[v]
    BY <1>0 DEF StoryInv, CommitWrites
  <1>2. tx[v] \in Transaction /\ tx[v].story \in Story /\ About(v) \in Item
    BY <1>0, <1>1, OpenTxTyped DEF CommitWrites
  <1> DEFINE s == tx[v].story
  <1>3. \A i \in Item : member[i].of = s => member'[i].of = s
    <2> PICK j \in Story : j = s
      BY <1>2
    <2>1. Members(j) \subseteq Members(j)'
      BY MembersGrow
    <2> QED
      BY <2>1 DEF Members
  <1>4. tx[v].seen \subseteq Outlets({i \in Item : member'[i].of = s})
    BY <1>1, <1>3 DEF TxIsSound, Outlets, Members
  <1>5. cluster[s].version > 0 => cluster'[s].version > 0
    BY <1>0, <1>2 DEF CommitWrites
  <1>6. LocksStory(v, s) => cluster'[s] = cluster[s]
    <2>1. LocksStory(v, s) => ~LocksStory(w, s)
      BY <1>0, <1>2 DEF StoryInv, LocksExclude, CommitWrites
    <2> QED
      BY <1>0, <1>2, <2>1 DEF LocksStory, CommitWrites
  <1>7. LocksItem(v, About(v)) => member'[About(v)] = member[About(v)]
    <2>1. LocksItem(v, About(v)) => ~LocksItem(w, About(v))
      BY <1>0, <1>2 DEF StoryInv, LocksExclude, CommitWrites
    <2> QED
      BY <1>0, <1>2, <2>1 DEF LocksItem, CommitWrites
  <1>8. member[About(v)] # Outside => member'[About(v)] # Outside
    <2>1. [of |-> tx[w].story, as |-> tx[w].as] # Outside
      BY <1>0, StoryAssumption DEF Outside, CommitWrites
    <2> QED
      BY <1>0, <1>2, <2>1 DEF CommitWrites
  <1>9. About(v)' = About(v)
    BY <1>0, <1>1 DEF About, CommitWrites
  <1>10. cluster[s] \in ClusterRow
    BY <1>0, <1>1, <1>2 DEF StoriesTyped, CommitWrites
  <1>11. Opened(v) /\ tx[v].at \in {"opened", "done"} => Opened(v)'
    <2> SUFFICES ASSUME Opened(v), tx[v].at \in {"opened", "done"} PROVE Opened(v)'
      OBVIOUS
    <2>1. tx[v].row.version > 0
      BY <1>0, <1>10 DEF Opened, CommitWrites
    <2>2. LocksStory(v, s)
      BY <1>0, <2>1 DEF LocksStory, CommitWrites
    <2> QED
      BY <1>0, <1>1, <1>6, <2>2 DEF Opened, CommitWrites
  <1>12. Updated(v) /\ tx[v].at = "done" => Updated(v)'
    <2> SUFFICES ASSUME Updated(v), tx[v].at = "done" PROVE Updated(v)'
      OBVIOUS
    <2>1. tx[v].row.version > 0
      BY <1>0, <1>10 DEF Updated, ClusterRow, CommitWrites
    <2>2. LocksStory(v, s)
      BY <1>0, <2>1 DEF LocksStory, CommitWrites
    <2> QED
      BY <1>0, <1>1, <1>6, <1>9, <2>2 DEF Updated, CommitWrites
  <1>13. tx[v].joins => member'[About(v)] = Outside
    <2> SUFFICES ASSUME tx[v].joins PROVE member'[About(v)] = Outside
      OBVIOUS
    <2>1. tx[v].at \in {"joined", "done"}
      BY <1>0, <1>1, <1>2 DEF TxIsSound, Transaction, CommitWrites
    <2>2. LocksItem(v, About(v))
      BY <1>0, <2>1 DEF LocksItem, CommitWrites
    <2> QED
      BY <1>0, <1>1, <1>7, <2>2 DEF TxIsSound, CommitWrites
  <1>14. (tx[v].seen \subseteq Outlets(Members(tx[v].story)))'
    BY <1>0, <1>1, <1>4 DEF Members, CommitWrites
  <1> QED
    BY <1>0, <1>1, <1>5, <1>8, <1>9, <1>11, <1>12, <1>13, <1>14 DEF TxIsSound, CommitWrites

Changes(k) == {i \in Members(k) : member[i].as \notin {"origin", "repeated_coverage"}}

\* What holds of one story.
StoryHolds(k) ==
  /\ StoryIsSound(k)
  /\ DOMAIN history[k] = 1..cluster[k].version
  /\ cluster[k].version > 0 => /\ history[k][cluster[k].version].to = cluster[k].state
                               /\ cluster[k].version = 1 + Cardinality(Changes(k))
  /\ cluster[k].state = "confirmed" => Cardinality(Outlets(Members(k))) >= 2
  /\ cluster[k].version > 0 /\ Members(k) # {} =>
       cluster[k].sources <= Cardinality(Outlets(Members(k)))

LEMMA StoriesHold ==
  ASSUME \A k \in Story : StoryIsSound(k)
  PROVE  (EveryChangeHasItsVersion /\ CorroborationIsReal) <=> \A k \in Story : StoryHolds(k)
  BY DEF EveryChangeHasItsVersion, CorroborationIsReal, StoryHolds, Changes

\* Another story is not touched.
LEMMA CommitKeepsOtherStories ==
  ASSUME StoryInv, NEW w \in Router, FileHeadline(w), NEW j \in Story, j # tx[w].story
  PROVE  StoryHolds(j)'
  <1>0. CommitWrites(w)
    BY CommitEffect
  <1>1. StoryHolds(j)
    BY StoriesHold DEF StoryInv
  <1>2. cluster'[j] = cluster[j] /\ history'[j] = history[j]
    BY <1>0 DEF CommitWrites
  <1>3. Members(j)' = Members(j) /\ \A i \in Members(j) : member'[i] = member[i]
    BY MembersGrow
  <1>4. Changes(j)' = Changes(j)
    BY <1>3 DEF Changes
  <1> QED
    BY <1>1, <1>2, <1>3, <1>4 DEF StoryHolds, StoryIsSound

\* The story of the transaction, whatever it did to it.
LEMMA CommitKeepsItsStory ==
  ASSUME StoryInv, NEW w \in Router, FileHeadline(w), NEW k \in Story, k = tx[w].story
  PROVE  StoryHolds(k)'
  <1>0. CommitWrites(w)
    BY CommitEffect
  <1> DEFINE item == About(w)
             row == tx[w].row
             old == cluster[k]
  <1>1. StoryHolds(k) /\ StoriesTyped /\ old \in ClusterRow
    BY StoriesHold DEF StoryInv, StoriesTyped
  <1>2. /\ Members(k)' = Members(k) \cup (IF tx[w].joins THEN {item} ELSE {})
        /\ tx[w].joins => item \notin Members(k)
        /\ \A i \in Members(k) : member'[i] = member[i]
    BY MembersGrow
  <1>3. /\ cluster'[k] = IF row.version > 0 THEN row ELSE old
        /\ history'[k] = IF row.version > 0 THEN Recorded(k, CameFrom(w), row) ELSE history[k]
        /\ tx[w].joins => member'[item] = [of |-> k, as |-> tx[w].as]
        /\ item \in Item /\ row \in ClusterRow /\ TxIsSound(w) /\ tx[w].at = "done"
    BY <1>0 DEF CommitWrites
  <1>4. /\ Members(k) \subseteq Members(k)' /\ Members(k)' \in SUBSET Item /\ Members(k) \in SUBSET Item
        /\ IsFiniteSet(Members(k)') /\ IsFiniteSet(Outlets(Members(k)'))
        /\ IsFiniteSet(Members(k)) /\ IsFiniteSet(Outlets(Members(k)))
    <2>1. Members(k)' \in SUBSET Item /\ Members(k) \in SUBSET Item
      BY DEF Members
    <2> QED
      BY <1>2, <2>1, OutletsAreFinite
  <1>5. /\ Cardinality(Outlets(Members(k))) <= Cardinality(Outlets(Members(k)'))
        /\ Cardinality(Outlets(Members(k))) \in Nat /\ Cardinality(Outlets(Members(k)')) \in Nat
        /\ Members(k)' # {} => Cardinality(Outlets(Members(k)')) >= 1
    <2>1. Outlets(Members(k)) \subseteq Outlets(Members(k)')
      BY <1>4 DEF Outlets
    <2>2. Members(k)' # {} => Outlets(Members(k)') # {}
      BY DEF Outlets
    <2> HIDE DEF item, row, old
    <2> QED
      BY <1>4, <2>1, <2>2, FS_Subset, FS_CardinalityType, FS_EmptySet
  <1>6. Changes(k)' = Changes(k) \cup (IF tx[w].joins /\ tx[w].as \notin {"origin", "repeated_coverage"}
                                       THEN {item} ELSE {})
    BY <1>2, <1>3 DEF Changes
  <1>7. IsFiniteSet(Changes(k)) /\ (tx[w].joins => item \notin Changes(k))
    BY <1>2, <1>4, FS_Subset DEF Changes
  <1> HIDE DEF item, row, old
  \* Nothing was written but the member row, if any.
  <1>8. ASSUME cluster'[k] = old, history'[k] = history[k], Changes(k)' = Changes(k),
               old.version > 0 \/ ~tx[w].joins
        PROVE  StoryHolds(k)'
    <2>1. cluster[k]' = old /\ history[k]' = history[k]
      BY <1>8
    <2>2. StoryIsSound(k)'
      BY <1>1, <1>2, <1>8, <1>4 DEF StoryHolds, StoryIsSound, old
    <2>3. old.version > 0 /\ Members(k)' # {} => old.sources <= Cardinality(Outlets(Members(k)'))
      BY <1>1, <1>5 DEF StoryHolds, StoryIsSound, old, ClusterRow
    <2>4. old.state = "confirmed" => Cardinality(Outlets(Members(k)')) >= 2
      BY <1>1, <1>5 DEF StoryHolds, old
    <2> QED
      BY <1>1, <1>8, <2>1, <2>2, <2>3, <2>4 DEF StoryHolds, old
  <1>9. CASE row = Unwritten /\ ~tx[w].joins
    <2>1. row.version = 0
      BY <1>9 DEF Unwritten
    <2> QED
      BY <1>3, <1>6, <1>8, <1>9, <2>1
  \* An existing version is not recorded again.
  <1>10. ASSUME row = old, old.version > 0
         PROVE  history'[k] = history[k] /\ cluster'[k] = old
    <2>1. old.version \in Nat /\ DOMAIN history[k] = 1..old.version
      BY <1>1 DEF StoryHolds, ClusterRow, old
    <2>2. row.version \in DOMAIN history[k]
      BY <1>10, <2>1
    <2>3. Recorded(k, CameFrom(w), row) = history[k]
      BY <2>2 DEF Recorded
    <2> QED
      BY <1>3, <1>10, <2>3
  <1>11. CASE tx[w].as = "origin" /\ Opened(w)
    <2>1. Changes(k)' = Changes(k)
      BY <1>6, <1>11
    <2>2. CASE old.version > 0
      <3>1. row = old
        BY <1>11, <2>2 DEF Opened, row, old
      <3> QED
        BY <1>8, <1>10, <2>1, <2>2, <3>1
    <2>3. CASE old.version = 0
      <3>1. row = [state |-> "developing", sources |-> 1, version |-> 1]
        BY <1>11, <2>3 DEF Opened, row, old
      <3>2. cluster'[k] = row /\ history'[k] = Recorded(k, CameFrom(w), row)
        BY <1>3, <3>1
      <3>3. DOMAIN history[k] = {} /\ Members(k) = {}
        BY <1>1, <2>3 DEF StoryHolds, StoryIsSound, old
      <3>4. DOMAIN history'[k] = {1} /\ history'[k][1].to = "developing"
        BY <3>1, <3>2, <3>3 DEF Recorded
      <3>5. Cardinality(Changes(k)') = 0
        BY <2>1, <3>3, FS_EmptySet DEF Changes
      <3>6. StoryIsSound(k)'
        BY <3>1, <3>2 DEF StoryIsSound
      <3>7. 1..1 = {1}
        OBVIOUS
      <3> QED
        BY <1>5, <3>1, <3>2, <3>4, <3>5, <3>6, <3>7 DEF StoryHolds
    <2> QED
      BY <1>1, <2>2, <2>3 DEF ClusterRow
  <1>12. CASE tx[w].joins /\ Updated(w)
    <2>1. old.version > 0
      BY <1>12 DEF Updated, old
    <2>2. CASE tx[w].as = "repeated_coverage" /\ row = old
      BY <1>6, <1>8, <1>10, <2>1, <2>2
    <2>3. CASE /\ tx[w].as \in Material /\ row.version = old.version + 1
               /\ row.sources = Cardinality(tx[w].seen \cup {Outlet[item]})
               /\ row.state = "confirmed" => row.sources >= 2
      <3>1. cluster'[k] = row /\ history'[k] = Recorded(k, CameFrom(w), row)
        BY <1>1, <1>3, <2>1, <2>3 DEF ClusterRow
      <3>2. /\ DOMAIN history'[k] = 1..row.version
            /\ history'[k][row.version].to = row.state
        <4>1. DOMAIN history[k] = 1..old.version /\ old.version \in Nat /\ row.version \in Nat
          BY <1>1, <1>3 DEF StoryHolds, ClusterRow, old
        <4>2. row.version \notin DOMAIN history[k] /\ (1..old.version) \cup {row.version} = 1..row.version
          BY <4>1, <2>3
        <4>3. history'[k] = [v \in 1..row.version |->
                 IF v = row.version THEN [from |-> CameFrom(w), to |-> row.state] ELSE history[k][v]]
          BY <3>1, <4>1, <4>2 DEF Recorded
        <4>4. row.version \in 1..row.version
          BY <4>1, <2>1, <2>3
        <4> QED
          BY <4>3, <4>4
      <3>3. Cardinality(Changes(k)') = Cardinality(Changes(k)) + 1
        <4>1. Changes(k)' = Changes(k) \cup {item} /\ item \notin Changes(k)
          BY <1>6, <1>7, <1>12, <2>3 DEF Material
        <4> QED
          BY <1>7, <4>1, FS_AddElement
      <3>4. row.version = 1 + Cardinality(Changes(k)')
        <4>1. old.version = 1 + Cardinality(Changes(k)) /\ Cardinality(Changes(k)) \in Nat
          BY <1>1, <1>7, <2>1, FS_CardinalityType DEF StoryHolds, old
        <4> QED
          BY <2>3, <3>3, <4>1
      <3>5. row.sources <= Cardinality(Outlets(Members(k)'))
        <4>1. tx[w].seen \cup {Outlet[item]} \subseteq Outlets(Members(k)')
          <5>1. tx[w].seen \subseteq Outlets(Members(k)) /\ item \in Members(k)'
            BY <1>2, <1>3, <1>12 DEF TxIsSound
          <5> QED
            BY <1>4, <5>1 DEF Outlets
        <4> QED
          BY <1>4, <4>1, <2>3, FS_Subset
      <3>6. Members(k)' # {}
        BY <1>2, <1>12
      <3>7. StoryIsSound(k)'
        BY <3>1, <3>6, <2>1, <2>3, <1>1, <1>3 DEF StoryIsSound, ClusterRow
      <3>8. row.state = "confirmed" => Cardinality(Outlets(Members(k)')) >= 2
        BY <1>3, <1>5, <2>3, <3>5 DEF ClusterRow
      <3> QED
        BY <3>1, <3>2, <3>4, <3>5, <3>6, <3>7, <3>8 DEF StoryHolds
    <2> QED
      BY <1>12, <2>2, <2>3 DEF Updated, row, old, item
  <1> QED
    BY <1>3, <1>9, <1>11, <1>12 DEF TxIsSound, row

LEMMA FileHeadlineSound ==
  ASSUME StoryInv, NEW w \in Router, FileHeadline(w)
  PROVE  StoryInv'
  <1>0. CommitWrites(w)
    BY CommitEffect
  <1>1. StoriesTyped'
    BY CommitKeepsTypes
  <1>2. LocksExclude'
    <2>1. /\ \A k \in Story : ~LocksStory(w, k)'
          /\ \A i \in Item : ~LocksItem(w, i)'
      BY <1>0 DEF CommitWrites, LocksStory, LocksItem, NoTx
    <2>2. ASSUME NEW v \in Router \ {w}
          PROVE  /\ \A k \in Story : LocksStory(v, k)' <=> LocksStory(v, k)
                 /\ \A i \in Item : LocksItem(v, i)' <=> LocksItem(v, i)
      BY <1>0 DEF CommitWrites, LocksStory, LocksItem, About
    <2> QED
      BY <2>1, <2>2 DEF StoryInv, LocksExclude
  <1>3. \A v \in Router : tx'[v] # NoTx => TxIsSound(v)'
    BY <1>0, CommitKeepsOthers DEF CommitWrites
  <1>4. \A k \in Story : StoryHolds(k)'
    BY CommitKeepsItsStory, CommitKeepsOtherStories
  <1>5. /\ \A k \in Story : StoryIsSound(k)'
        /\ EveryChangeHasItsVersion' /\ CorroborationIsReal'
    BY <1>4 DEF StoryHolds, EveryChangeHasItsVersion, CorroborationIsReal, Changes
  <1>6. FiledHeadlinesAreInStories'
    <2> SUFFICES ASSUME NEW h \in filed'
                 PROVE  member'[ItemOf[h]] # Outside
      BY DEF FiledHeadlinesAreInStories
    <2>1. [of |-> tx[w].story, as |-> tx[w].as] # Outside
      BY <1>0, StoryAssumption DEF Outside, CommitWrites
    <2>2. h \in Headline /\ ItemOf[h] \in Item
      BY <1>1, StoryAssumption DEF StoriesTyped
    <2>3. CASE h \in filed
      <3>1. member[ItemOf[h]] # Outside
        BY <2>3 DEF StoryInv, FiledHeadlinesAreInStories
      <3> QED
        BY <1>0, <2>1, <2>2, <3>1 DEF CommitWrites
    <2>4. CASE h = tx[w].of
      <3>1. ItemOf[h] = About(w)
        BY <2>4 DEF About
      <3>2. tx[w].joins \/ member[About(w)] # Outside
        BY <1>0 DEF CommitWrites, TxIsSound
      <3> QED
        BY <1>0, <2>1, <3>1, <3>2 DEF CommitWrites
    <2> QED
      BY <1>0, <2>3, <2>4 DEF CommitWrites
  <1> QED
    BY <1>1, <1>2, <1>3, <1>5, <1>6 DEF StoryInv

-----------------------------------------------------------------------------
(* Theorems *)

LEMMA StoryStep == StoryInv /\ [StoryNext]_storyVars => StoryInv'
  <1> SUFFICES ASSUME StoryInv, [StoryNext]_storyVars
               PROVE  StoryInv'
    OBVIOUS
  <1>1. CASE StoryNext
    <2> PICK w \in Router : \/ Advance(w) \/ EndDeadlock(w) \/ CrashRouter(w)
                            \/ \E h \in Headline : TakeHeadline(w, h)
      BY <1>1 DEF StoryNext
    <2> QED
      BY FindCandidateSound, OpenStorySound, JoinAsOriginSound, CountSourcesSound,
         JoinCandidateSound, UpdateStorySound, FileHeadlineSound, EndSound,
         TakeHeadlineSound DEF Advance
  <1>2. CASE UNCHANGED storyVars
    <2>1. UNCHANGED <<cluster, member, history, filed, tx, routerCrashes>>
      BY <1>2 DEF storyVars, storyRows
    <2>2. StoriesTyped' /\ LocksExclude'
      BY <2>1 DEF StoryInv, StoriesTyped, LocksExclude, LocksStory, LocksItem, About
    <2>3. \A w \in Router : tx'[w] # NoTx => TxIsSound(w)'
      BY <2>1 DEF StoryInv, TxIsSound, Opened, Updated, About, Members
    <2>4. \A k \in Story : StoryIsSound(k)'
      BY <2>1 DEF StoryInv, StoryIsSound, Members
    <2>5. EveryChangeHasItsVersion' /\ CorroborationIsReal' /\ FiledHeadlinesAreInStories'
      BY <2>1 DEF StoryInv, EveryChangeHasItsVersion, CorroborationIsReal,
                  FiledHeadlinesAreInStories, Members
    <2> QED
      BY <2>2, <2>3, <2>4, <2>5 DEF StoryInv
  <1> QED
    BY <1>1, <1>2

\* What the statements of every router keep together: the types, the locks, what
\* each open transaction knows, and the three promises about stories.
THEOREM StoryInvariant == StorySpec => []StoryInv
  <1> QED
    BY InitSound, StoryStep, PTL DEF StorySpec

\* The rows of stories, items, versions and headlines have their types.
THEOREM StoriesTypeCorrect == StorySpec => []StoryTypeOK
  <1>1. StoryInv => StoryTypeOK
    <2> SUFFICES ASSUME StoryInv PROVE StoryTypeOK
      OBVIOUS
    <2>1. \A i \in Item : member[i] = Outside \/ member[i] \in [of : Story, as : Contribution]
      BY DEF StoryInv, StoriesTyped, Membership
    <2> QED
      BY <2>1 DEF StoryInv, StoriesTyped, StoryTypeOK, ClusterRow, HistoryRow
  <1> QED
    BY <1>1, StoryInvariant, PTL

\* However many routers update a story at once, and whichever of them the
\* database ends, its versions are the changes that were made to it.
THEOREM VersionsAreChanges == StorySpec => []EveryChangeHasItsVersion
  <1>1. StoryInv => EveryChangeHasItsVersion
    BY DEF StoryInv
  <1> QED
    BY <1>1, StoryInvariant, PTL

\* A story that is called confirmed has two sources, though the statement that
\* says so counted them before.
THEOREM ConfirmedMeansTwoSources == StorySpec => []CorroborationIsReal
  <1>1. StoryInv => CorroborationIsReal
    BY DEF StoryInv
  <1> QED
    BY <1>1, StoryInvariant, PTL

\* A headline that counts as routed is in a story.
THEOREM FiledMeansInAStory == StorySpec => []FiledHeadlinesAreInStories
  <1>1. StoryInv => FiledHeadlinesAreInStories
    BY DEF StoryInv
  <1> QED
    BY <1>1, StoryInvariant, PTL
-----------------------------------------------------------------------------
StageName == {"t0", "developing", "reaction", "final"}
StageJob == Release \X LaterStage
HeadlineJob == Confirmation \X (1..LastHorizon)

Task ==
  [at : {"idle", "filling", "deciding", "staged", "done"},
   for : {"nothing", "windows", "confirmations", "headline", "release"} \cup StageName,
   job : StageJob \cup HeadlineJob \cup {Nothing}, todo : SUBSET Row, row : Row \cup {Nothing},
   wrote : SUBSET Row, found : [Row -> SUBSET (1..LastHorizon)]]
CardRow == [number : Nat, stage : StageName, on : BOOLEAN]
Pointing == [card : Release \cup {NoCard}, stage : StageName]
Routing ==
  [at : {"idle", "read", "written"}, of : Release \cup {NoCard}, seen : Pointing, stage : StageName]

ReactionsTyped ==
  /\ now \in 0..LastHorizon /\ exists \subseteq Row
  /\ observed \in [Row -> SUBSET (1..LastHorizon)]
  /\ priced \subseteq Row \X (1..LastHorizon) /\ told \subseteq HeadlineJob
  /\ obs \in [Filler -> Task]

CardsTyped ==
  /\ card \in [Release -> CardRow] /\ pointer \in Pointing /\ refused \subseteq Release
  /\ route \in [Publisher -> Routing]

\* The job of a worker may show the stage it is about to show on the card of its
\* event; who has written the pointer still finds that card there.
TaskIsEarned(o) ==
  /\ obs[o].at = "filling" /\ obs[o].for = "release" =>
       /\ obs[o].job \in StageJob /\ card[obs[o].job[1]].on
       /\ StageTime[obs[o].job[1]][obs[o].job[2]] <= now
  /\ obs[o].at = "filling" /\ obs[o].for = "headline" => obs[o].job \in HeadlineJob
  /\ obs[o].at \in {"deciding", "staged"} =>
       /\ obs[o].for \in StageName /\ obs[o].job \in StageJob
       /\ card[obs[o].job[1]].on /\ Earned(obs[o].job[1], obs[o].for)
  /\ obs[o].at = "staged" =>
       /\ o \in Observer /\ pointer.card = obs[o].job[1]
       /\ \A p \in Publisher : route[p].at # "written"

\* A router works on an event that has no card yet, and no other router does;
\* the card it has seen is there to stay, and the stage it has written is that
\* of its event or one that card may show.
RouteIsSound(p) ==
  /\ route[p].at # "idle" => route[p].of # NoCard
  /\ route[p].of # NoCard => ~card[route[p].of].on
  /\ route[p].seen.card # NoCard =>
       card[route[p].seen.card].on /\ Earned(route[p].seen.card, route[p].seen.stage)
  /\ route[p].at = "written" =>
       \/ route[p].stage \in OwnStages[route[p].of]
       \/ route[p].seen.card # NoCard /\ Earned(route[p].seen.card, route[p].stage)
  /\ \A q \in Publisher : q # p /\ route[p].of # NoCard => route[q].of # route[p].of

CardsAreSound ==
  /\ \A e \in Release : card[e].on => Earned(e, card[e].stage)
  /\ pointer.card # NoCard => card[pointer.card].on /\ Earned(pointer.card, pointer.stage)
  /\ \A e \in Release : card[e].on => pointer.card # NoCard

MacroInv ==
  /\ ReactionsTyped /\ CardsTyped
  /\ \A o \in Filler : TaskIsEarned(o)
  /\ \A p \in Publisher : RouteIsSound(p)
  /\ CardsAreSound /\ RefusedOnlyIfOvertaken

-----------------------------------------------------------------------------
(* Lemmas *)

LEMMA StageFacts ==
  /\ LastHorizon \in Nat
  /\ \A e \in Release : \A s \in LaterStage : StageTime[e][s] \in 0..LastHorizon
  /\ LaterStage \subseteq StageName
  /\ \A e \in Release : OwnStages[e] \subseteq StageName
  /\ Original \in Release /\ NoCard \notin Release /\ WindowsOf \in [Release -> SUBSET Window]
  BY ReactionAssumption, ReleaseAssumption DEF LaterStage, StageName

LEMMA PositionOfStage ==
  ASSUME NEW s \in StageName
  PROVE  Position(s) \in 1..4 /\ Stages[Position(s)] = s
  <1>1. \E i \in 1..4 : Stages[i] = s
    BY DEF Stages, StageName
  <1> QED
    BY <1>1 DEF Position

\* advance_stage returns one of the two stages.
LEMMA ForwardIsOneOfThem ==
  ASSUME NEW a \in StageName, NEW b \in StageName
  PROVE  Forward(a, b) \in {a, b}
  BY PositionOfStage DEF Forward

\* What was over stays over, and a card keeps its number.
LEMMA EarnedStays ==
  ASSUME ReactionsTyped, now' >= now, now' \in Nat,
         \A f \in Release : card[f].on => card'[f] = card[f],
         NEW e \in Release, card[e].on, NEW s, Earned(e, s)
  PROVE  Earned(e, s)'
  <1>1. now \in Nat
    BY StageFacts DEF ReactionsTyped
  <1>2. PICK f \in Release : card[f].on /\ (f = e \/ card[f].number < card[e].number) /\ EarnedBy(f, s)
    BY DEF Earned, Carded
  <1>3. card'[f] = card[f] /\ card'[e] = card[e]
    BY <1>2
  <1>4. EarnedBy(f, s)'
    <2>1. CASE s \in LaterStage /\ StageTime[f][s] <= now
      <3>1. StageTime[f][s] \in Nat
        BY <2>1, StageFacts
      <3> QED BY <1>1, <2>1, <3>1 DEF EarnedBy
    <2>2. CASE s = "t0" \/ s \in OwnStages[f]
      BY <2>2 DEF EarnedBy
    <2> QED BY <1>2, <2>1, <2>2 DEF EarnedBy
  <1> QED
    BY <1>2, <1>3, <1>4 DEF Earned, Carded

LEMMA AsleepTyped == Asleep \in Task /\ Asleep.at = "idle"
  <1>1. [r \in Row |-> {}] \in [Row -> SUBSET (1..LastHorizon)]
    OBVIOUS
  <1> QED
    BY <1>1 DEF Asleep, Task

\* The clock goes on, and cards stay: what holds of a worker, a router or the
\* cards still does if the step leaves it alone.
LEMMA TaskStays ==
  ASSUME MacroInv, now' >= now, now' \in Nat,
         \A f \in Release : card[f].on => card'[f] = card[f],
         NEW o \in Filler, obs'[o] = obs[o],
         obs[o].at = "staged" =>
           pointer'.card = pointer.card /\ \A p \in Publisher : route'[p].at # "written"
  PROVE  TaskIsEarned(o)'
  <1>1. PICK t : t = obs[o]
    OBVIOUS
  <1>2. TaskIsEarned(o) /\ ReactionsTyped
    BY DEF MacroInv
  <1>3. ASSUME t.at = "filling", t.for = "release"
        PROVE  /\ t.job \in StageJob /\ card'[t.job[1]].on
               /\ StageTime[t.job[1]][t.job[2]] <= now'
    <2>1. t.job \in StageJob /\ card[t.job[1]].on /\ StageTime[t.job[1]][t.job[2]] <= now
      BY <1>1, <1>2, <1>3 DEF TaskIsEarned
    <2>2. t.job[1] \in Release /\ t.job[2] \in LaterStage
      BY <2>1 DEF StageJob
    <2>3. StageTime[t.job[1]][t.job[2]] \in Nat /\ now \in Nat
      BY <1>2, <2>2, StageFacts DEF ReactionsTyped
    <2> QED
      BY <2>1, <2>2, <2>3
  <1>4. ASSUME t.at \in {"deciding", "staged"}
        PROVE  /\ t.for \in StageName /\ t.job \in StageJob
               /\ card'[t.job[1]].on /\ Earned(t.job[1], t.for)'
    <2>1. /\ t.for \in StageName /\ t.job \in StageJob
          /\ card[t.job[1]].on /\ Earned(t.job[1], t.for)
      BY <1>1, <1>2, <1>4 DEF TaskIsEarned
    <2>2. t.job[1] \in Release
      BY <2>1 DEF StageJob
    <2> QED
      BY <1>2, <2>1, <2>2, EarnedStays
  <1>5. t.at = "filling" /\ t.for = "headline" => t.job \in HeadlineJob
    BY <1>1, <1>2 DEF TaskIsEarned
  <1>6. ASSUME t.at = "staged"
        PROVE  /\ o \in Observer /\ pointer'.card = t.job[1]
               /\ \A p \in Publisher : route'[p].at # "written"
    BY <1>1, <1>2, <1>6 DEF TaskIsEarned
  <1>7. obs'[o] = t
    BY <1>1
  <1> QED
    BY <1>3, <1>4, <1>5, <1>6, <1>7 DEF TaskIsEarned

LEMMA RouteStays ==
  ASSUME MacroInv, now' >= now, now' \in Nat,
         \A f \in Release : card[f].on => card'[f] = card[f],
         NEW p \in Publisher, route'[p] = route[p],
         route[p].of # NoCard => ~card'[route[p].of].on,
         \A q \in Publisher : q # p /\ route[p].of # NoCard => route'[q].of # route[p].of
  PROVE  RouteIsSound(p)'
  <1>1. PICK r : r = route[p]
    OBVIOUS
  <1>2. RouteIsSound(p) /\ ReactionsTyped /\ r \in Routing
    BY <1>1 DEF MacroInv, CardsTyped
  <1>3. ASSUME r.seen.card # NoCard, NEW s, Earned(r.seen.card, s)
        PROVE  card'[r.seen.card].on /\ Earned(r.seen.card, s)'
    <2>1. r.seen.card \in Release /\ card[r.seen.card].on
      BY <1>1, <1>2, <1>3 DEF Routing, Pointing, RouteIsSound
    <2> QED
      BY <1>2, <1>3, <2>1, EarnedStays
  <1>4. r.seen.card # NoCard => card'[r.seen.card].on /\ Earned(r.seen.card, r.seen.stage)'
    BY <1>1, <1>2, <1>3 DEF RouteIsSound
  <1>5. r.at = "written" => \/ r.stage \in OwnStages[r.of]
                            \/ r.seen.card # NoCard /\ Earned(r.seen.card, r.stage)'
    BY <1>1, <1>2, <1>3 DEF RouteIsSound
  <1>6. r.at # "idle" => r.of # NoCard
    BY <1>1, <1>2 DEF RouteIsSound
  <1>7. route'[p] = r
    BY <1>1
  <1> QED
    BY <1>1, <1>4, <1>5, <1>6, <1>7 DEF RouteIsSound

LEMMA CardsStay ==
  ASSUME MacroInv, now' >= now, now' \in Nat, UNCHANGED <<card, pointer>>
  PROVE  CardsAreSound'
  <1>1. PICK c, s : c = pointer.card /\ s = pointer.stage
    OBVIOUS
  <1>2. ReactionsTyped /\ CardsAreSound /\ (c # NoCard => c \in Release)
    BY <1>1 DEF MacroInv, CardsTyped, Pointing
  <1>3. c # NoCard => card[c].on /\ Earned(c, s)'
    BY <1>1, <1>2, EarnedStays DEF CardsAreSound
  <1>4. ASSUME NEW e \in Release, card[e].on PROVE Earned(e, card[e].stage)'
    <2>1. PICK k : k = card[e].stage
      OBVIOUS
    <2>2. Earned(e, k)'
      BY <1>2, <1>4, <2>1, EarnedStays DEF CardsAreSound
    <2> QED
      BY <2>1, <2>2
  <1>5. c = pointer'.card /\ s = pointer'.stage
    BY <1>1
  <1> QED
    BY <1>2, <1>3, <1>4, <1>5 DEF CardsAreSound

\* A step of one worker that leaves the cards alone.
LEMMA WorkerStep ==
  ASSUME MacroInv, NEW o \in Filler, NEW t \in Task, obs' = [obs EXCEPT ![o] = t],
         exists' \subseteq Row, observed' \in [Row -> SUBSET (1..LastHorizon)],
         told' \subseteq HeadlineJob, UNCHANGED <<now, priced, cardRows, route>>,
         TaskIsEarned(o)'
  PROVE  MacroInv'
  <1>1. obs'[o] = t /\ \A q \in Filler \ {o} : obs'[q] = obs[q]
    BY DEF MacroInv, ReactionsTyped
  <1>2. ReactionsTyped'
    BY DEF MacroInv, ReactionsTyped
  <1>3. CardsTyped'
    BY DEF MacroInv, CardsTyped, cardRows
  <1>0. now' >= now /\ now' \in Nat /\ UNCHANGED <<card, pointer, refused, route>>
    BY StageFacts DEF MacroInv, ReactionsTyped, cardRows
  <1>4. ASSUME NEW q \in Filler PROVE TaskIsEarned(q)'
    <2>1. CASE q = o
      BY <2>1
    <2>2. CASE q # o
      <3>1. obs'[q] = obs[q] /\ TaskIsEarned(q)
        BY <1>1, <2>2 DEF MacroInv
      <3> QED
        BY <1>0, <3>1, TaskStays DEF TaskIsEarned
    <2> QED
      BY <2>1, <2>2
  <1>5. ASSUME NEW p \in Publisher PROVE RouteIsSound(p)'
    <2>1. RouteIsSound(p)
      BY DEF MacroInv
    <2>2. /\ route[p].of # NoCard => ~card'[route[p].of].on
          /\ \A q \in Publisher : q # p /\ route[p].of # NoCard => route'[q].of # route[p].of
      BY <1>0, <2>1 DEF RouteIsSound
    <2> QED
      BY <1>0, <2>2, RouteStays
  <1>6. CardsAreSound' /\ RefusedOnlyIfOvertaken'
    BY <1>0, CardsStay DEF MacroInv, RefusedOnlyIfOvertaken, Carded
  <1> QED
    BY <1>2, <1>3, <1>4, <1>5, <1>6 DEF MacroInv

-----------------------------------------------------------------------------
(* The steps *)

LEMMA MacroInitSound == MacroInit => MacroInv
  <1> SUFFICES ASSUME MacroInit PROVE MacroInv
    OBVIOUS
  <1>1. ReactionsTyped
    BY AsleepTyped, StageFacts DEF MacroInit, ReactionInit, ReactionsTyped
  <1>2. CardsTyped
    <2>1. Unrouted \in CardRow /\ NoPointer \in Pointing
      BY DEF Unrouted, CardRow, NoPointer, Pointing, StageName
    <2>2. Resting \in Routing
      BY <2>1 DEF Resting, Routing, StageName
    <2> QED
      BY <2>1, <2>2 DEF MacroInit, CardsTyped
  <1>3. \A o \in Filler : obs[o].at = "idle"
    BY AsleepTyped DEF MacroInit, ReactionInit
  <1>4. \A e \in Release : ~card[e].on
    BY DEF MacroInit, Unrouted
  <1>5. pointer.card = NoCard /\ pointer.stage = "t0" /\ refused = {}
    BY DEF MacroInit, NoPointer
  <1>6. \A p \in Publisher : /\ route[p].at = "idle" /\ route[p].of = NoCard /\ route[p].stage = "t0"
                             /\ route[p].seen.card = NoCard /\ route[p].seen.stage = "t0"
    BY DEF MacroInit, Resting, NoPointer
  <1>7. \A o \in Filler : TaskIsEarned(o)
    BY <1>3 DEF TaskIsEarned
  <1>8. \A p \in Publisher : RouteIsSound(p)
    BY <1>6 DEF RouteIsSound
  <1>9. CardsAreSound /\ RefusedOnlyIfOvertaken
    BY <1>4, <1>5 DEF CardsAreSound, RefusedOnlyIfOvertaken
  <1> QED
    BY <1>1, <1>2, <1>7, <1>8, <1>9 DEF MacroInv

LEMMA ClockAndMarketSound ==
  ASSUME MacroInv, UNCHANGED <<cardRows, route>>,
         HorizonEnds \/ \E r \in Row, t \in 1..LastHorizon : PriceArrives(r, t)
  PROVE  MacroInv'
  <1>1. now' >= now /\ now' \in 0..LastHorizon /\ obs' = obs
    <2>1. now \in 0..LastHorizon /\ LastHorizon \in Nat
      BY StageFacts DEF MacroInv, ReactionsTyped
    <2>2. CASE HorizonEnds
      BY <2>1, <2>2 DEF HorizonEnds
    <2>3. CASE \E r \in Row, t \in 1..LastHorizon : PriceArrives(r, t)
      BY <2>1, <2>3 DEF PriceArrives
    <2> QED
      BY <2>2, <2>3
  <1>2. ReactionsTyped'
    <2>1. priced' \subseteq Row \X (1..LastHorizon)
      <3>1. priced \subseteq Row \X (1..LastHorizon)
        BY DEF MacroInv, ReactionsTyped
      <3>2. priced' = priced \/ \E r \in Row, t \in 1..LastHorizon : priced' = priced \cup {<<r, t>>}
        BY DEF HorizonEnds, PriceArrives
      <3> QED
        BY <3>1, <3>2
    <2>2. exists' = exists /\ observed' = observed /\ told' = told
      BY DEF HorizonEnds, PriceArrives
    <2> QED
      BY <1>1, <2>1, <2>2 DEF MacroInv, ReactionsTyped
  <1>3. CardsTyped'
    BY DEF MacroInv, CardsTyped, cardRows
  <1>4. now' \in Nat /\ UNCHANGED <<card, pointer, route, obs>>
    BY <1>1, StageFacts DEF cardRows
  <1>5. ASSUME NEW o \in Filler PROVE TaskIsEarned(o)'
    <2>1. TaskIsEarned(o)
      BY DEF MacroInv
    <2> QED
      BY <1>1, <1>4, <2>1, TaskStays DEF TaskIsEarned
  <1>6. ASSUME NEW p \in Publisher PROVE RouteIsSound(p)'
    <2>1. RouteIsSound(p)
      BY DEF MacroInv
    <2>2. /\ route[p].of # NoCard => ~card'[route[p].of].on
          /\ \A q \in Publisher : q # p /\ route[p].of # NoCard => route'[q].of # route[p].of
      BY <1>4, <2>1 DEF RouteIsSound
    <2> QED
      BY <1>1, <1>4, <2>2, RouteStays
  <1>7. CardsAreSound'
    BY <1>1, <1>4, CardsStay
  <1>8. RefusedOnlyIfOvertaken'
    BY DEF MacroInv, RefusedOnlyIfOvertaken, Carded, cardRows
  <1> QED
    BY <1>2, <1>3, <1>5, <1>6, <1>7, <1>8 DEF MacroInv

\* What a worker writes when it commits is typed.
LEMMA KeptRowsTyped ==
  ASSUME MacroInv, NEW o \in Filler, KeepRows(o)
  PROVE  observed' \in [Row -> SUBSET (1..LastHorizon)] /\ exists' \subseteq Row
  <1>1. obs[o] \in Task
    BY DEF MacroInv, ReactionsTyped
  <1>2. obs[o].wrote \subseteq Row /\ obs[o].found \in [Row -> SUBSET (1..LastHorizon)]
    BY <1>1 DEF Task
  <1>3. observed' \in [Row -> SUBSET (1..LastHorizon)]
    BY <1>2 DEF KeepRows, MacroInv, ReactionsTyped
  <1> QED
    BY <1>2, <1>3 DEF KeepRows, MacroInv, ReactionsTyped

\* A worker that begins a batch.
LEMMA BeginSound ==
  ASSUME MacroInv, NEW o \in Filler, NEW rows \in SUBSET Row,
         NEW reason \in {"windows", "headline", "release"},
         NEW job \in StageJob \cup HeadlineJob \cup {Nothing},
         reason = "release" =>
           job \in StageJob /\ card[job[1]].on /\ StageTime[job[1]][job[2]] <= now,
         reason = "headline" => job \in HeadlineJob,
         Begin(o, rows, reason, job), UNCHANGED <<cardRows, route>>
  PROVE  MacroInv'
  <1> DEFINE t == [Asleep EXCEPT !.at = "filling", !.for = reason, !.job = job, !.todo = rows]
  <1>1. Turn(o, t)
    BY DEF Begin
  <1>2. t \in Task
    BY AsleepTyped DEF Task
  <1>3. t.at = "filling" /\ t.for = reason /\ t.job = job
    BY AsleepTyped DEF Task
  <1> HIDE DEF t
  <1>4. obs' = [obs EXCEPT ![o] = t] /\ UNCHANGED reactionRows
    BY <1>1 DEF Turn
  <1>5. obs'[o] = t
    BY <1>4 DEF MacroInv, ReactionsTyped
  <1>6. TaskIsEarned(o)'
    BY <1>3, <1>4, <1>5 DEF TaskIsEarned, reactionRows, cardRows
  <1>7. /\ exists' \subseteq Row /\ observed' \in [Row -> SUBSET (1..LastHorizon)]
        /\ told' \subseteq HeadlineJob /\ UNCHANGED <<now, priced>>
    BY <1>4 DEF MacroInv, ReactionsTyped, reactionRows
  <1> QED
    BY <1>2, <1>4, <1>6, <1>7, WorkerStep

LEMMA BatchIsOfRows ==
  /\ FirstOf(Pending(Window)) \in SUBSET Row
  /\ FirstOf(Pending(Confirmation)) \in SUBSET Row
  BY DEF FirstOf, Pending, Row

LEMMA ReconcileSound ==
  ASSUME MacroInv, NEW o \in Filler, Reconcile(o), UNCHANGED <<cardRows, route>>
  PROVE  MacroInv'
  BY BeginSound, BatchIsOfRows DEF Reconcile

LEMMA ConfirmStorySound ==
  ASSUME MacroInv, NEW o \in Observer, NEW r \in Confirmation, ConfirmStory(o, r),
         UNCHANGED <<cardRows, route>>
  PROVE  MacroInv'
  <1>1. PICK t \in Horizons[r] : Begin(o, {r}, "headline", <<r, t>>)
    BY DEF ConfirmStory
  <1>2. <<r, t>> \in HeadlineJob /\ {r} \in SUBSET Row /\ o \in Filler
    BY ReactionAssumption DEF HeadlineJob, Row, Filler
  <1> QED
    BY <1>1, <1>2, BeginSound

LEMMA StartStageJobSound ==
  ASSUME MacroInv, NEW o \in Observer, NEW e \in Release, NEW s \in LaterStage,
         StartStageJob(o, e, s)
  PROVE  MacroInv'
  <1>1. /\ <<e, s>> \in StageJob /\ <<e, s>>[1] = e /\ <<e, s>>[2] = s
        /\ card[e].on /\ StageTime[e][s] <= now /\ o \in Filler
    BY DEF StageJob, StartStageJob, StageDue, Filler
  <1> QED
    BY <1>1, BeginSound, BatchIsOfRows DEF StartStageJob

\* The steps between the first row of a batch and the last.
LEMMA FillSound ==
  ASSUME MacroInv, NEW o \in Filler, LookAtPrices(o) \/ WriteRow(o), UNCHANGED <<cardRows, route>>
  PROVE  MacroInv'
  <1>1. obs[o] \in Task /\ TaskIsEarned(o)
    BY DEF MacroInv, ReactionsTyped
  <1>2. \E t \in Task : /\ Turn(o, t)
                        /\ t.at = obs[o].at /\ t.for = obs[o].for /\ t.job = obs[o].job
    <2>1. CASE LookAtPrices(o)
      <3>1. PICK r \in obs[o].todo :
               Turn(o, [obs[o] EXCEPT !.row = r, !.todo = @ \ {r}, !.found[r] = Visible(r)])
        BY <2>1 DEF LookAtPrices
      <3> DEFINE t == [obs[o] EXCEPT !.row = r, !.todo = @ \ {r}, !.found[r] = Visible(r)]
      <3>2. r \in Row
        BY <1>1 DEF Task
      <3>3. Visible(r) \in SUBSET (1..LastHorizon)
        BY <3>2, ReactionAssumption DEF Visible
      <3>4. t \in Task
        BY <1>1, <3>2, <3>3 DEF Task
      <3>5. t.at = obs[o].at /\ t.for = obs[o].for /\ t.job = obs[o].job
        BY <1>1 DEF Task
      <3> QED
        BY <3>1, <3>4, <3>5
    <2>2. CASE WriteRow(o)
      <3> DEFINE t == [obs[o] EXCEPT !.row = Nothing, !.wrote = @ \cup {obs[o].row}]
      <3>1. Turn(o, t) /\ obs[o].row \in Row
        BY <1>1, <2>2 DEF WriteRow, Task
      <3>2. t \in Task
        BY <1>1, <3>1 DEF Task
      <3>3. t.at = obs[o].at /\ t.for = obs[o].for /\ t.job = obs[o].job
        BY <1>1 DEF Task
      <3> QED
        BY <3>1, <3>2, <3>3
    <2> QED
      BY <2>1, <2>2
  <1>3. PICK t \in Task : /\ Turn(o, t)
                          /\ t.at = obs[o].at /\ t.for = obs[o].for /\ t.job = obs[o].job
    BY <1>2
  <1>4. obs' = [obs EXCEPT ![o] = t] /\ UNCHANGED reactionRows
    BY <1>3 DEF Turn
  <1>5. obs'[o] = t
    BY <1>4 DEF MacroInv, ReactionsTyped
  <1>6. TaskIsEarned(o)'
    <2>1. PICK c : c = obs[o]
      OBVIOUS
    <2>2. UNCHANGED <<now, card, pointer, route>>
      BY <1>4 DEF reactionRows, cardRows
    <2>3. Earned(c.job[1], c.for) => Earned(c.job[1], c.for)'
      BY <2>2 DEF Earned, EarnedBy, Carded
    <2>4. t.at = c.at /\ t.for = c.for /\ t.job = c.job
      BY <1>3, <2>1
    <2>5. c.at \in {"deciding", "staged"} =>
            c.for \in StageName /\ c.job \in StageJob /\ card[c.job[1]].on /\ Earned(c.job[1], c.for)'
      BY <1>1, <2>1, <2>3 DEF TaskIsEarned
    <2>6. /\ c.at = "filling" /\ c.for = "release" =>
               c.job \in StageJob /\ card[c.job[1]].on /\ StageTime[c.job[1]][c.job[2]] <= now
          /\ c.at = "filling" /\ c.for = "headline" => c.job \in HeadlineJob
          /\ c.at = "staged" => /\ o \in Observer /\ pointer.card = c.job[1]
                                /\ \A p \in Publisher : route[p].at # "written"
      BY <1>1, <2>1 DEF TaskIsEarned
    <2>7. /\ obs'[o].at = c.at /\ obs'[o].for = c.for /\ obs'[o].job = c.job
      BY <1>5, <2>4
    <2> QED
      BY <2>2, <2>5, <2>6, <2>7 DEF TaskIsEarned
  <1>7. /\ exists' \subseteq Row /\ observed' \in [Row -> SUBSET (1..LastHorizon)]
        /\ told' \subseteq HeadlineJob /\ UNCHANGED <<now, priced>>
    BY <1>4 DEF MacroInv, ReactionsTyped, reactionRows
  <1> QED
    BY <1>4, <1>6, <1>7, WorkerStep

\* A batch is written, or its worker dies.
LEMMA EndOfBatchSound ==
  ASSUME MacroInv, NEW o \in Filler, UNCHANGED <<cardRows, route>>,
         CommitWindows(o) \/ CommitConfirmations(o) \/ CrashFiller(o)
  PROVE  MacroInv'
  <1>0. obs[o] \in Task /\ TaskIsEarned(o)
    BY DEF MacroInv, ReactionsTyped
  <1>1. CASE CommitWindows(o)
    <2> DEFINE t == [Asleep EXCEPT !.at = "filling", !.for = "confirmations",
                                   !.todo = FirstOf(Pending(Confirmation))]
    <2>1. obs' = [obs EXCEPT ![o] = t] /\ KeepRows(o) /\ UNCHANGED <<now, priced, told>>
      BY <1>1 DEF CommitWindows
    <2>2. t \in Task
      BY AsleepTyped, BatchIsOfRows DEF Task
    <2>3. t.at = "filling" /\ t.for = "confirmations"
      BY AsleepTyped DEF Task
    <2> HIDE DEF t
    <2>4. TaskIsEarned(o)'
      BY <2>1, <2>3 DEF TaskIsEarned, MacroInv, ReactionsTyped
    <2>5. told' \subseteq HeadlineJob
      BY <2>1 DEF MacroInv, ReactionsTyped
    <2> QED
      BY <2>1, <2>2, <2>4, <2>5, KeptRowsTyped, WorkerStep
  <1>2. CASE CommitConfirmations(o)
    <2>1. obs' = [obs EXCEPT ![o] = Asleep] /\ KeepRows(o) /\ UNCHANGED <<now, priced>>
      BY <1>2 DEF CommitConfirmations
    <2>2. told' \subseteq HeadlineJob
      BY <1>0, <1>2 DEF CommitConfirmations, Filled, TaskIsEarned, MacroInv, ReactionsTyped
    <2>3. TaskIsEarned(o)'
      BY <2>1, AsleepTyped DEF TaskIsEarned, MacroInv, ReactionsTyped
    <2> QED
      BY <2>1, <2>2, <2>3, AsleepTyped, KeptRowsTyped, WorkerStep
  <1>3. CASE CrashFiller(o)
    <2>1. obs' = [obs EXCEPT ![o] = Asleep] /\ UNCHANGED reactionRows
      BY <1>3 DEF CrashFiller
    <2>2. TaskIsEarned(o)'
      BY <2>1, AsleepTyped DEF TaskIsEarned, MacroInv, ReactionsTyped
    <2>3. /\ exists' \subseteq Row /\ observed' \in [Row -> SUBSET (1..LastHorizon)]
          /\ told' \subseteq HeadlineJob /\ UNCHANGED <<now, priced>>
      BY <2>1 DEF MacroInv, ReactionsTyped, reactionRows
    <2> QED
      BY <2>1, <2>2, <2>3, AsleepTyped, WorkerStep
  <1> QED
    BY <1>1, <1>2, <1>3

\* The stage a job is about to show is earned: it is that of the job or the one
\* the pointer shows.
LEMMA ReadStageSound ==
  ASSUME MacroInv, NEW o \in Observer, ReadStage(o)
  PROVE  MacroInv'
  <1> DEFINE current == pointer.card = obs[o].job[1]
             next == Forward(pointer.stage, obs[o].job[2])
             t == [obs[o] EXCEPT !.at = IF current THEN "deciding" ELSE "done",
                                 !.for = IF current THEN next ELSE "release"]
  <1>0. o \in Filler
    BY DEF Filler
  <1>1. /\ obs' = [obs EXCEPT ![o].at = IF current THEN "deciding" ELSE "done",
                              ![o].for = IF current THEN next ELSE "release"]
        /\ UNCHANGED <<reactionRows, cardRows, route>>
        /\ obs[o].at = "filling" /\ obs[o].for = "release"
    BY DEF ReadStage, Filled
  <1>2. obs[o] \in Task /\ TaskIsEarned(o) /\ pointer.stage \in StageName /\ CardsAreSound
    BY <1>0 DEF MacroInv, ReactionsTyped, CardsTyped, Pointing
  <1>a. PICK e \in Release, s \in LaterStage :
          /\ obs[o].job = <<e, s>> /\ card[e].on /\ StageTime[e][s] <= now
    BY <1>1, <1>2 DEF TaskIsEarned, StageJob
  <1>b. s \in StageName /\ e # NoCard
    BY StageFacts
  <1>3. PICK n : n = next
    OBVIOUS
  <1>4. n \in {pointer.stage, s} /\ n \in StageName
    BY <1>2, <1>3, <1>a, <1>b, ForwardIsOneOfThem
  <1>5. current => Earned(e, n)
    <2>1. Earned(e, s)
      BY <1>a DEF Earned, EarnedBy, Carded
    <2>2. current => Earned(e, pointer.stage)
      BY <1>2, <1>a, <1>b DEF CardsAreSound
    <2> QED
      BY <1>4, <2>1, <2>2
  <1>6. UNCHANGED <<now, card, pointer, route>>
    BY <1>1 DEF reactionRows, cardRows
  <1>7. Earned(e, n) => Earned(e, n)'
    BY <1>6 DEF Earned, EarnedBy, Carded
  <1> HIDE DEF next
  <1>8. t \in Task
    BY <1>2, <1>3, <1>4 DEF Task
  <1>9. obs' = [obs EXCEPT ![o] = t]
    BY <1>0, <1>1 DEF MacroInv, ReactionsTyped
  <1>10. /\ t.at = "deciding" => t.for = n /\ current
         /\ t.at \in {"deciding", "done"} /\ t.job = <<e, s>>
    BY <1>2, <1>3, <1>a DEF Task
  <1> HIDE DEF t
  <1>11. obs'[o] = t
    BY <1>0, <1>9 DEF MacroInv, ReactionsTyped
  <1>12. TaskIsEarned(o)'
    <2>1. t.at \in {"deciding", "staged"} =>
            /\ t.for = n /\ n \in StageName /\ t.job \in StageJob
            /\ t.job[1] = e /\ card'[e].on /\ Earned(e, n)'
      BY <1>4, <1>5, <1>6, <1>7, <1>10, <1>a DEF StageJob
    <2> QED
      BY <1>10, <1>11, <2>1 DEF TaskIsEarned
  <1>13. /\ exists' \subseteq Row /\ observed' \in [Row -> SUBSET (1..LastHorizon)]
         /\ told' \subseteq HeadlineJob /\ UNCHANGED <<now, priced>>
    BY <1>1 DEF MacroInv, ReactionsTyped, reactionRows
  <1> QED
    BY <1>0, <1>1, <1>8, <1>9, <1>12, <1>13, WorkerStep

\* The pointer is locked from here on: it stays at the card of the job.
LEMMA WriteStageSound ==
  ASSUME MacroInv, NEW o \in Observer, WriteStage(o)
  PROVE  MacroInv'
  <1> DEFINE next == IF pointer.card = obs[o].job[1] THEN "staged" ELSE "done"
             t == [obs[o] EXCEPT !.at = next]
  <1>0. o \in Filler
    BY DEF Filler
  <1>1. /\ obs' = [obs EXCEPT ![o].at = next]
        /\ UNCHANGED <<reactionRows, cardRows, route>> /\ obs[o].at = "deciding" /\ ~PointerHeld
    BY DEF WriteStage
  <1>2. obs[o] \in Task /\ TaskIsEarned(o) /\ next \in {"staged", "done"}
    BY <1>0 DEF MacroInv, ReactionsTyped
  <1>a. next = "staged" => pointer.card = obs[o].job[1]
    OBVIOUS
  <1> HIDE DEF next
  <1>3. t \in Task /\ t.at = next /\ t.for = obs[o].for /\ t.job = obs[o].job
    BY <1>2 DEF Task
  <1>4. obs' = [obs EXCEPT ![o] = t]
    BY <1>0, <1>1 DEF MacroInv, ReactionsTyped
  <1> HIDE DEF t
  <1>5. obs'[o] = t
    BY <1>0, <1>4 DEF MacroInv, ReactionsTyped
  <1>6. TaskIsEarned(o)'
    <2>1. PICK c, f : c = obs[o].job /\ f = obs[o].for
      OBVIOUS
    <2>2. f \in StageName /\ c \in StageJob /\ card[c[1]].on /\ Earned(c[1], f)
      BY <1>1, <1>2, <2>1 DEF TaskIsEarned
    <2>3. UNCHANGED <<now, card, pointer, route>>
      BY <1>1 DEF reactionRows, cardRows
    <2>4. Earned(c[1], f)'
      BY <2>2, <2>3 DEF Earned, EarnedBy, Carded
    <2>5. obs'[o].at \in {"staged", "done"} /\ obs'[o].for = f /\ obs'[o].job = c
      BY <1>2, <1>3, <1>5, <2>1
    <2>6. obs'[o].at = "staged" =>
            pointer'.card = c[1] /\ \A p \in Publisher : route'[p].at # "written"
      BY <1>1, <1>3, <1>5, <1>a, <2>1, <2>3 DEF PointerHeld
    <2> QED
      BY <2>2, <2>3, <2>4, <2>5, <2>6 DEF TaskIsEarned
  <1>7. /\ exists' \subseteq Row /\ observed' \in [Row -> SUBSET (1..LastHorizon)]
        /\ told' \subseteq HeadlineJob /\ UNCHANGED <<now, priced>>
    BY <1>1 DEF MacroInv, ReactionsTyped, reactionRows
  <1> QED
    BY <1>0, <1>1, <1>3, <1>4, <1>6, <1>7, WorkerStep

LEMMA CommitStageSound ==
  ASSUME MacroInv, NEW o \in Observer, CommitStage(o)
  PROVE  MacroInv'
  <1>0. o \in Filler
    BY DEF Filler
  <1>1. /\ obs' = [obs EXCEPT ![o] = Asleep] /\ KeepRows(o)
        /\ UNCHANGED <<now, priced, told, card, refused, route>>
    BY DEF CommitStage
  <1>2. obs[o] \in Task /\ TaskIsEarned(o) /\ pointer \in Pointing /\ now \in Nat
    BY <1>0, StageFacts DEF MacroInv, ReactionsTyped, CardsTyped
  <1>b. now' >= now /\ now' \in Nat
    BY <1>1, <1>2
  <1>3. /\ pointer'.card = pointer.card /\ pointer' \in Pointing
        /\ pointer' = pointer \/ (Earned(pointer.card, pointer'.stage) /\ pointer.card \in Release)
    <2>1. CASE obs[o].at = "staged"
      <3>1. pointer' = [pointer EXCEPT !.stage = obs[o].for]
        BY <2>1 DEF CommitStage
      <3>2. /\ obs[o].for \in StageName /\ Earned(pointer.card, obs[o].for)
            /\ pointer.card \in Release
        BY <1>2, <2>1 DEF TaskIsEarned, StageJob
      <3>3. pointer'.card = pointer.card /\ pointer' \in Pointing /\ pointer'.stage = obs[o].for
        BY <1>2, <3>1, <3>2 DEF Pointing
      <3> QED
        BY <3>2, <3>3
    <2>2. CASE obs[o].at # "staged"
      BY <1>2, <2>2 DEF CommitStage
    <2> QED
      BY <2>1, <2>2
  <1>4. ReactionsTyped'
    <2>1. obs' \in [Filler -> Task]
      BY <1>0, <1>1, AsleepTyped DEF MacroInv, ReactionsTyped
    <2> QED
      BY <1>0, <1>1, <2>1, KeptRowsTyped DEF MacroInv, ReactionsTyped
  <1>5. CardsTyped'
    BY <1>1, <1>3 DEF MacroInv, CardsTyped
  <1>6. ASSUME NEW q \in Filler PROVE TaskIsEarned(q)'
    <2>1. CASE q = o
      <3>1. obs'[q].at = "idle"
        BY <1>1, <2>1, AsleepTyped DEF MacroInv, ReactionsTyped
      <3> QED
        BY <3>1 DEF TaskIsEarned
    <2>2. CASE q # o
      <3>1. obs'[q] = obs[q] /\ TaskIsEarned(q)
        BY <1>0, <1>1, <2>2 DEF MacroInv, ReactionsTyped
      <3> QED
        BY <1>1, <1>3, <1>b, <3>1, TaskStays DEF TaskIsEarned
    <2> QED
      BY <2>1, <2>2
  <1>7. ASSUME NEW p \in Publisher PROVE RouteIsSound(p)'
    <2>1. RouteIsSound(p)
      BY DEF MacroInv
    <2>2. /\ route[p].of # NoCard => ~card'[route[p].of].on
          /\ \A q \in Publisher : q # p /\ route[p].of # NoCard => route'[q].of # route[p].of
      BY <1>1, <2>1 DEF RouteIsSound
    <2> QED
      BY <1>1, <1>b, <2>2, RouteStays
  <1>8. CardsAreSound'
    <2>1. CASE pointer' = pointer
      BY <1>1, <1>b, <2>1, CardsStay
    <2>2. CASE Earned(pointer.card, pointer'.stage) /\ pointer.card \in Release
      <3>1. PICK c, s : c = pointer.card /\ s = pointer'.stage
        OBVIOUS
      <3>2. Earned(c, s)'
        BY <1>1, <2>2, <3>1 DEF Earned, EarnedBy, Carded
      <3>3. c = pointer'.card
        BY <1>3, <3>1
      <3>4. ASSUME NEW e \in Release, card[e].on PROVE Earned(e, card[e].stage)'
        <4>1. PICK k : k = card[e].stage
          OBVIOUS
        <4>2. Earned(e, k)
          BY <3>4, <4>1 DEF MacroInv, CardsAreSound
        <4>3. Earned(e, k)'
          BY <1>1, <4>2 DEF Earned, EarnedBy, Carded
        <4> QED
          BY <1>1, <4>1, <4>3
      <3>5. (c # NoCard => card[c].on) /\ \A e \in Release : card[e].on => c # NoCard
        BY <3>1 DEF MacroInv, CardsAreSound
      <3> QED
        BY <1>1, <3>1, <3>2, <3>3, <3>4, <3>5 DEF CardsAreSound
    <2> QED
      BY <1>3, <2>1, <2>2
  <1>9. RefusedOnlyIfOvertaken'
    <2>1. refused' # {} => pointer'.card # NoCard
      <3>1. refused # {} => \E e \in Release : card[e].on
        BY DEF MacroInv, RefusedOnlyIfOvertaken, Carded
      <3> QED
        BY <1>1, <1>3, <3>1 DEF MacroInv, CardsAreSound
    <2>2. NoPointer.card = NoCard
      BY DEF NoPointer
    <2> QED
      BY <1>1, <2>1, <2>2 DEF MacroInv, RefusedOnlyIfOvertaken, Carded
  <1> QED
    BY <1>4, <1>5, <1>6, <1>7, <1>8, <1>9 DEF MacroInv

-----------------------------------------------------------------------------
(* Routing *)

\* A step of one router that leaves cards and pointer alone.
LEMMA RouterStep ==
  ASSUME MacroInv, NEW p \in Publisher, NEW t \in Routing, route' = [route EXCEPT ![p] = t],
         UNCHANGED <<reactionVars, card, pointer>>, refused' \subseteq Release,
         RouteIsSound(p)', t.of \in {NoCard, route[p].of} \/ \A q \in Publisher : route[q].of # t.of,
         t.at = "written" => \A o \in Filler : obs[o].at # "staged",
         RefusedOnlyIfOvertaken'
  PROVE  MacroInv'
  <1>1. route'[p] = t /\ \A q \in Publisher \ {p} : route'[q] = route[q]
    BY DEF MacroInv, CardsTyped
  <1>2. ReactionsTyped'
    BY DEF MacroInv, ReactionsTyped, reactionVars, reactionRows
  <1>3. CardsTyped'
    BY DEF MacroInv, CardsTyped
  <1>0. now' >= now /\ now' \in Nat /\ UNCHANGED <<now, obs, card, pointer>>
    BY StageFacts DEF MacroInv, ReactionsTyped, reactionVars, reactionRows
  <1>4. ASSUME NEW o \in Filler PROVE TaskIsEarned(o)'
    <2>1. TaskIsEarned(o)
      BY DEF MacroInv
    <2>2. obs[o].at = "staged" => \A q \in Publisher : route'[q].at # "written"
      BY <1>1, <2>1 DEF TaskIsEarned
    <2> QED
      BY <1>0, <2>2, TaskStays
  <1>5. ASSUME NEW q \in Publisher PROVE RouteIsSound(q)'
    <2>1. CASE q = p
      BY <2>1
    <2>2. CASE q # p
      <3>1. RouteIsSound(q) /\ route'[q] = route[q]
        BY <1>1, <2>2 DEF MacroInv
      <3>2. route[q].of # NoCard => t.of # route[q].of
        BY <2>2, <3>1 DEF RouteIsSound
      <3>3. \A r \in Publisher : r # q /\ route[q].of # NoCard => route'[r].of # route[q].of
        BY <1>1, <3>1, <3>2 DEF RouteIsSound
      <3>4. route[q].of # NoCard => ~card'[route[q].of].on
        BY <1>0, <3>1 DEF RouteIsSound
      <3> QED
        BY <1>0, <3>1, <3>3, <3>4, RouteStays
    <2> QED
      BY <2>1, <2>2
  <1>6. CardsAreSound'
    BY <1>0, CardsStay
  <1> QED
    BY <1>2, <1>3, <1>4, <1>5, <1>6 DEF MacroInv

LEMMA RestingTyped ==
  /\ Resting \in Routing /\ NoPointer \in Pointing
  /\ Resting.at = "idle" /\ Resting.of = NoCard /\ Resting.stage = "t0"
  /\ Resting.seen.card = NoCard /\ Resting.seen.stage = "t0"
  <1>1. NoPointer \in Pointing /\ NoPointer.card = NoCard /\ NoPointer.stage = "t0"
    BY DEF NoPointer, Pointing, StageName
  <1> QED
    BY <1>1 DEF Resting, Routing, StageName

LEMMA ReadCurrentSound ==
  ASSUME MacroInv, NEW p \in Publisher, NEW e \in Release, ReadCurrent(p, e)
  PROVE  MacroInv'
  <1> DEFINE t == [Resting EXCEPT !.at = "read", !.of = e, !.seen = pointer]
  <1>1. /\ route' = [route EXCEPT ![p] = t] /\ UNCHANGED <<reactionVars, cardRows>>
        /\ ~card[e].on /\ \A q \in Publisher : route[q].of # e
    BY DEF ReadCurrent
  <1>2. pointer \in Pointing
    BY DEF MacroInv, CardsTyped
  <1>3. t \in Routing /\ t.at = "read" /\ t.of = e /\ t.seen = pointer /\ t.stage = "t0"
    BY <1>2, RestingTyped DEF Routing
  <1> HIDE DEF t
  <1>4. route'[p] = t /\ \A q \in Publisher \ {p} : route'[q] = route[q]
    BY <1>1 DEF MacroInv, CardsTyped
  <1>5. now' = now /\ card' = card /\ pointer' = pointer /\ refused' = refused
    BY <1>1 DEF reactionVars, reactionRows, cardRows
  <1>6. RouteIsSound(p)'
    <2>1. PICK c, s : c = pointer.card /\ s = pointer.stage
      OBVIOUS
    <2>2. c # NoCard => card[c].on /\ Earned(c, s)
      BY <2>1 DEF MacroInv, CardsAreSound
    <2>3. Earned(c, s) => Earned(c, s)'
      BY <1>5 DEF Earned, EarnedBy, Carded
    <2>4. e # NoCard
      BY StageFacts
    <2>5. t.seen.card = c /\ t.seen.stage = s
      BY <1>3, <2>1
    <2> QED
      BY <1>1, <1>3, <1>4, <1>5, <2>2, <2>3, <2>4, <2>5 DEF RouteIsSound
  <1>7. RefusedOnlyIfOvertaken' /\ refused' \subseteq Release
    BY <1>5 DEF MacroInv, RefusedOnlyIfOvertaken, Carded, CardsTyped
  <1> QED
    BY <1>1, <1>3, <1>5, <1>6, <1>7, RouterStep

\* Whoever is refused a card has seen one.
LEMMA RefuseCardSound ==
  ASSUME MacroInv, NEW p \in Publisher, RefuseCard(p)
  PROVE  MacroInv'
  <1>1. /\ route' = [route EXCEPT ![p] = Resting] /\ refused' = refused \cup {Original}
        /\ UNCHANGED <<reactionVars, card, pointer>>
        /\ route[p].of = Original /\ Number(route[p].seen) > 0
    BY DEF RefuseCard, Refused
  <1>2. RouteIsSound(p) /\ Original \in Release
    BY StageFacts DEF MacroInv
  <1>3. route[p].seen.card # NoCard
    BY <1>1 DEF Number
  <1>4. route[p].seen.card \in Release
    BY <1>3 DEF MacroInv, CardsTyped, Routing, Pointing
  <1>5. route[p].seen.card \in Carded /\ Original \notin Carded
    BY <1>1, <1>2, <1>3, <1>4, StageFacts DEF RouteIsSound, Carded
  <1>6. pointer # NoPointer
    BY <1>4, <1>5 DEF MacroInv, CardsAreSound, Carded, NoPointer
  <1>7. RefusedOnlyIfOvertaken'
    BY <1>1, <1>5, <1>6 DEF MacroInv, RefusedOnlyIfOvertaken, Carded
  <1>8. route'[p] = Resting /\ now' = now
    BY <1>1 DEF MacroInv, CardsTyped, reactionVars, reactionRows
  <1>9. RouteIsSound(p)'
    BY <1>8, RestingTyped DEF RouteIsSound
  <1>10. refused' \subseteq Release
    BY <1>1, <1>2 DEF MacroInv, CardsTyped
  <1> QED
    BY <1>1, <1>7, <1>9, <1>10, RestingTyped, RouterStep

LEMMA InsertCardSound ==
  ASSUME MacroInv, NEW p \in Publisher, InsertCard(p)
  PROVE  MacroInv'
  <1>1. PICK own \in OwnStages[route[p].of] :
          route' = [route EXCEPT ![p].at = "written",
                      ![p].stage = IF route[p].seen.card = NoCard THEN own
                                   ELSE Forward(route[p].seen.stage, own)]
    BY DEF InsertCard
  <1>2. UNCHANGED <<reactionVars, card, pointer, refused>> /\ route[p].at = "read" /\ ~PointerHeld
    BY DEF InsertCard, cardRows
  <1>3. /\ route[p] \in Routing /\ route[p].seen.stage \in StageName
        /\ RouteIsSound(p) /\ route[p].of \in Release /\ own \in StageName
    <2>1. route[p] \in Routing /\ RouteIsSound(p)
      BY DEF MacroInv, CardsTyped
    <2>2. route[p].of \in Release
      BY <1>2, <2>1 DEF Routing, RouteIsSound
    <2> QED
      BY <2>1, <2>2, StageFacts DEF Routing, Pointing
  <1>a. PICK r, n : /\ r = route[p]
                    /\ n = IF route[p].seen.card = NoCard THEN own
                           ELSE Forward(route[p].seen.stage, own)
    OBVIOUS
  <1>4. /\ n = own \/ (r.seen.card # NoCard /\ n = r.seen.stage)
        /\ n \in StageName
    BY <1>3, <1>a, ForwardIsOneOfThem
  <1> DEFINE t == [r EXCEPT !.at = "written", !.stage = n]
  <1>5. route' = [route EXCEPT ![p] = t]
    BY <1>1, <1>3, <1>a DEF MacroInv, CardsTyped, Routing
  <1>6. /\ t \in Routing /\ t.at = "written" /\ t.stage = n
        /\ t.of = r.of /\ t.seen = r.seen
    BY <1>3, <1>4, <1>a DEF Routing
  <1> HIDE DEF t
  <1>7. route'[p] = t /\ \A q \in Publisher \ {p} : route'[q] = route[q]
    BY <1>5 DEF MacroInv, CardsTyped
  <1>8. now' = now /\ card' = card
    BY <1>2 DEF reactionVars, reactionRows
  <1>9. RouteIsSound(p)'
    <2>1. \A c, s : Earned(c, s) => Earned(c, s)'
      BY <1>8 DEF Earned, EarnedBy, Carded
    <2>2. r.seen.card # NoCard => card[r.seen.card].on /\ Earned(r.seen.card, r.seen.stage)'
      BY <1>3, <1>a, <2>1 DEF RouteIsSound
    <2>3. n \in OwnStages[r.of] \/ (r.seen.card # NoCard /\ Earned(r.seen.card, n)')
      BY <1>1, <1>4, <1>a, <2>2
    <2>4. /\ r.of # NoCard /\ ~card[r.of].on
          /\ \A q \in Publisher : q # p => route[q].of # r.of
      BY <1>2, <1>3, <1>a DEF RouteIsSound
    <2> QED
      BY <1>6, <1>7, <1>8, <2>2, <2>3, <2>4 DEF RouteIsSound
  <1>10. RefusedOnlyIfOvertaken' /\ refused' \subseteq Release
    BY <1>2 DEF MacroInv, RefusedOnlyIfOvertaken, Carded, CardsTyped
  <1>11. \A o \in Filler : obs[o].at # "staged"
    BY <1>2 DEF PointerHeld, MacroInv, TaskIsEarned
  <1>12. t.of \in {NoCard, route[p].of}
    BY <1>6, <1>a
  <1> QED
    BY <1>2, <1>5, <1>6, <1>9, <1>10, <1>11, <1>12, RouterStep

LEMMA CommitCardSound ==
  ASSUME MacroInv, NEW p \in Publisher, CommitCard(p)
  PROVE  MacroInv'
  <1> DEFINE e == route[p].of
             new == [number |-> Number(route[p].seen), stage |-> route[p].stage, on |-> TRUE]
  <1>1. /\ card' = [card EXCEPT ![e] = new] /\ pointer' = [card |-> e, stage |-> route[p].stage]
        /\ exists' = exists \cup WindowsOf[e] /\ route' = [route EXCEPT ![p] = Resting]
        /\ UNCHANGED <<now, observed, priced, told, obs, refused>> /\ route[p].at = "written"
    BY DEF CommitCard
  <1>2. route[p] \in Routing /\ RouteIsSound(p) /\ CardsTyped /\ route[p].stage \in StageName
    BY DEF MacroInv, CardsTyped, Routing
  <1>3. e \in Release /\ e # NoCard /\ ~card[e].on
    BY <1>1, <1>2 DEF RouteIsSound, Routing
  <1>4. Number(route[p].seen) \in Nat
    BY <1>2 DEF Number, CardsTyped, Routing, Pointing, CardRow
  <1>5. /\ new \in CardRow /\ new.on = TRUE /\ new.stage = route[p].stage
        /\ new.number = Number(route[p].seen)
    BY <1>2, <1>4 DEF CardRow
  <1> HIDE DEF new
  <1>6. /\ route'[p] = Resting /\ \A q \in Publisher \ {p} : route'[q] = route[q]
        /\ card'[e] = new /\ \A f \in Release \ {e} : card'[f] = card[f]
        /\ pointer'.card = e /\ pointer'.stage = route[p].stage
    BY <1>1, <1>2, <1>3 DEF CardsTyped
  <1> HIDE DEF e
  <1>7. ReactionsTyped'
    <2>1. exists' \subseteq Row
      BY <1>1, <1>3, StageFacts DEF MacroInv, ReactionsTyped, Row
    <2> QED
      BY <1>1, <2>1 DEF MacroInv, ReactionsTyped
  <1>8. CardsTyped'
    BY <1>1, <1>2, <1>3, <1>5, RestingTyped DEF CardsTyped, Pointing
  <1>b. now' >= now /\ now' \in Nat /\ \A f \in Release : card[f].on => card'[f] = card[f]
    BY <1>1, <1>3, <1>6, StageFacts DEF MacroInv, ReactionsTyped
  <1>9. ASSUME NEW o \in Filler PROVE TaskIsEarned(o)'
    <2>1. obs[o].at # "staged" /\ obs'[o] = obs[o]
      BY <1>1 DEF MacroInv, TaskIsEarned
    <2> QED
      BY <1>b, <2>1, TaskStays
  <1>10. ASSUME NEW q \in Publisher PROVE RouteIsSound(q)'
    <2>1. CASE q = p
      BY <1>6, <2>1, RestingTyped DEF RouteIsSound
    <2>2. CASE q # p
      <3>1. RouteIsSound(q) /\ route'[q] = route[q] /\ route[q] \in Routing
        BY <1>2, <1>6, <2>2 DEF MacroInv, CardsTyped
      <3>2. route[q].of # NoCard => route[q].of \in Release /\ route[q].of # e
        BY <1>2, <1>3, <2>2, <3>1 DEF RouteIsSound, Routing, e
      <3>5. route[q].of # NoCard => ~card'[route[q].of].on
        BY <1>6, <3>1, <3>2 DEF RouteIsSound
      <3>6. \A r \in Publisher : r # q /\ route[q].of # NoCard => route'[r].of # route[q].of
        BY <1>6, <3>1, RestingTyped DEF RouteIsSound
      <3> QED
        BY <1>b, <3>1, <3>5, <3>6, RouteStays
    <2> QED
      BY <2>1, <2>2
  <1>11. CardsAreSound'
    <2>1. PICK h, n, c : h \in Release /\ h = e /\ n = route[p].stage /\ c = route[p].seen.card
      BY <1>3
    <2>2. card'[h].on /\ card'[h].stage = n /\ card'[h].number = Number(route[p].seen)
      BY <1>5, <1>6, <2>1
    <2>3. Earned(h, n)'
      <3>1. CASE n \in OwnStages[h]
        BY <2>1, <2>2, <3>1 DEF Earned, EarnedBy, Carded
      <3>2. CASE n \notin OwnStages[h]
        <4>1. c # NoCard /\ Earned(c, n) /\ card[c].on /\ c \in Release
          BY <1>1, <1>2, <2>1, <3>2 DEF RouteIsSound, Routing, Pointing, e
        <4>2. PICK f \in Release :
                card[f].on /\ (f = c \/ card[f].number < card[c].number) /\ EarnedBy(f, n)
          BY <4>1 DEF Earned, Carded
        <4>3. card[f].number \in Nat /\ card[c].number \in Nat
          BY <1>2, <4>1 DEF CardsTyped, CardRow
        <4>4. card'[h].number = card[c].number + 1
          BY <2>1, <2>2, <4>1 DEF Number
        <4>5. card'[f].on /\ card'[f].number < card'[h].number
          BY <1>b, <4>2, <4>3, <4>4
        <4>6. EarnedBy(f, n)'
          BY <1>1, <4>2 DEF EarnedBy
        <4> QED
          BY <2>2, <4>5, <4>6 DEF Earned, Carded
      <3> QED
        BY <3>1, <3>2
    <2>4. ASSUME NEW f \in Release, card[f].on PROVE Earned(f, card[f].stage)'
      <3>1. PICK k : k = card[f].stage
        OBVIOUS
      <3>2. Earned(f, k)
        BY <2>4, <3>1 DEF MacroInv, CardsAreSound
      <3>3. Earned(f, k)'
        BY <1>b, <2>4, <3>2, EarnedStays DEF MacroInv
      <3> QED
        BY <1>b, <2>4, <3>1, <3>3
    <2>5. \A f \in Release : card'[f].on => f = h \/ card[f].on
      BY <1>6, <2>1
    <2>6. pointer'.card = h /\ pointer'.stage = n /\ h # NoCard
      BY <1>3, <1>6, <2>1
    <2> QED
      BY <2>2, <2>3, <2>4, <2>5, <2>6 DEF CardsAreSound
  <1>12. RefusedOnlyIfOvertaken'
    <2>1. Carded \subseteq Carded'
      BY <1>3, <1>5, <1>6 DEF Carded
    <2>2. pointer' # NoPointer
      BY <1>3, <1>6 DEF NoPointer
    <2> QED
      BY <1>1, <2>1, <2>2 DEF MacroInv, RefusedOnlyIfOvertaken
  <1> QED
    BY <1>7, <1>8, <1>9, <1>10, <1>11, <1>12 DEF MacroInv

-----------------------------------------------------------------------------
(* Theorems *)

LEMMA MacroStep == MacroInv /\ [MacroNext]_macroVars => MacroInv'
  <1> SUFFICES ASSUME MacroInv, [MacroNext]_macroVars
               PROVE  MacroInv'
    OBVIOUS
  <1>1. CASE ReactionNext /\ UNCHANGED <<cardRows, route>>
    <2>1. CASE HorizonEnds \/ \E r \in Row, t \in 1..LastHorizon : PriceArrives(r, t)
      BY <1>1, <2>1, ClockAndMarketSound
    <2>2. CASE \E o \in Filler : Reconcile(o) \/ FillRows(o) \/ CrashFiller(o)
      BY <1>1, <2>2, ReconcileSound, FillSound, EndOfBatchSound DEF FillRows
    <2>3. CASE \E o \in Observer, r \in Confirmation : ConfirmStory(o, r)
      BY <1>1, <2>3, ConfirmStorySound
    <2> QED
      BY <1>1, <2>1, <2>2, <2>3 DEF ReactionNext
  <1>2. CASE \E p \in Publisher : \/ RefuseCard(p) \/ InsertCard(p) \/ CommitCard(p)
                                  \/ \E e \in Release : ReadCurrent(p, e)
    BY <1>2, RefuseCardSound, InsertCardSound, CommitCardSound, ReadCurrentSound
  <1>3. CASE \E o \in Observer :
               \/ FinishStage(o)
               \/ \E e \in Release, s \in LaterStage : StartStageJob(o, e, s)
    <2>1. Observer \subseteq Filler
      BY DEF Filler
    <2> QED
      BY <1>3, <2>1, ReadStageSound, WriteStageSound, CommitStageSound, StartStageJobSound
      DEF FinishStage
  <1>4. CASE UNCHANGED macroVars
    <2>1. UNCHANGED <<now, exists, observed, priced, told, obs, card, pointer, refused, route>>
      BY <1>4 DEF macroVars, reactionVars, reactionRows, cardRows
    <2> QED
      BY <2>1 DEF MacroInv, ReactionsTyped, CardsTyped, TaskIsEarned, RouteIsSound, CardsAreSound,
                  RefusedOnlyIfOvertaken, Carded, Earned, EarnedBy
  <1> QED
    BY <1>1, <1>2, <1>3, <1>4 DEF MacroNext

\* What routers and workers keep together: types, stages that are earned wherever
\* one is held, cards that stay, and one writer of the pointer at a time.
THEOREM MacroInvariant == MacroSpec => []MacroInv
  <1> QED
    BY MacroInitSound, MacroStep, PTL DEF MacroSpec

\* No card and no pointer shows a stage that neither its event nor that of a card
\* before it has earned, by its payload or by its own clock.
THEOREM StagesAreEarned == MacroSpec => []StageIsEarned
  <1>1. MacroInv => StageIsEarned
    BY DEF MacroInv, CardsAreSound, StageIsEarned, Carded
  <1> QED
    BY <1>1, MacroInvariant, PTL

\* An event is refused a card only when a revision of it has one.
THEOREM RefusalMeansOvertaken == MacroSpec => []RefusedOnlyIfOvertaken
  <1>1. MacroInv => RefusedOnlyIfOvertaken
    BY DEF MacroInv
  <1> QED
    BY <1>1, MacroInvariant, PTL
-----------------------------------------------------------------------------
(* Observed prices *)

\* What a row shows is stored and over: no price from before its horizon, and
\* none that was never stored, although rows are written back from readings of
\* any age.  A row that shows a price was created, and a job of a headline that
\* counts as done has left its row (story_confirmation.py: calculate_story_confirmation,
\* reaction_windows.py: _pending_rows and _resolve_window).
PricesAreReal ==
  /\ \A r \in Row : observed[r] \subseteq Visible(r)
  /\ \A r \in Row : observed[r] # {} => r \in exists
  /\ \A job \in told : job[1] \in exists

\* What a worker has found is real as well, and the row of its headline is
\* still to be looked at, looked at, or written.
FoundIsReal(task) == \A r \in Row : task.found[r] \subseteq Visible(r)
HasItsRow(task) ==
  task.for = "headline" => task.job[1] \in task.todo \cup task.wrote \cup {task.row}

ReactionInv ==
  /\ PricesAreReal
  /\ \A o \in Filler : FoundIsReal(obs[o]) /\ HasItsRow(obs[o])

\* The clock goes on, and prices are not taken back.
LEMMA VisibleStays ==
  ASSUME ReactionsTyped, now' >= now, now' \in Nat, priced \subseteq priced', NEW r \in Row
  PROVE  Visible(r) \subseteq Visible(r)'
  <1>1. now \in Nat /\ Horizons[r] \subseteq Nat
    BY StageFacts, ReactionAssumption DEF ReactionsTyped
  <1>2. ASSUME NEW t \in Horizons[r], t <= now PROVE t <= now'
    BY <1>1, <1>2
  <1> QED
    BY <1>2 DEF Visible

LEMMA AsleepIsReal == FoundIsReal(Asleep) /\ HasItsRow(Asleep)
  <1>1. /\ Asleep.for = "nothing" /\ Asleep.found = [r \in Row |-> {}]
    BY DEF Asleep
  <1> QED
    BY <1>1 DEF FoundIsReal, HasItsRow

\* A step of one worker that writes no row.
LEMMA QuietStepReal ==
  ASSUME MacroInv, ReactionInv, NEW o \in Filler, NEW t, obs' = [obs EXCEPT ![o] = t],
         UNCHANGED reactionRows, FoundIsReal(t), HasItsRow(t)
  PROVE  ReactionInv'
  <1>1. obs'[o] = t /\ \A q \in Filler \ {o} : obs'[q] = obs[q]
    BY DEF MacroInv, ReactionsTyped
  <1>2. \A r \in Row : Visible(r)' = Visible(r)
    BY DEF Visible, reactionRows
  <1>3. PricesAreReal'
    BY <1>2 DEF ReactionInv, PricesAreReal, reactionRows
  <1>4. ASSUME NEW q \in Filler PROVE FoundIsReal(obs[q])' /\ HasItsRow(obs[q])'
    <2>1. CASE q = o
      BY <1>1, <1>2, <2>1 DEF FoundIsReal, HasItsRow
    <2>2. CASE q # o
      BY <1>1, <1>2, <2>2 DEF ReactionInv, FoundIsReal, HasItsRow
    <2> QED
      BY <2>1, <2>2
  <1> QED
    BY <1>3, <1>4 DEF ReactionInv

\* A worker commits the rows it wrote.
LEMMA KeptStepReal ==
  ASSUME MacroInv, ReactionInv, NEW o \in Filler, NEW t, obs' = [obs EXCEPT ![o] = t],
         KeepRows(o), UNCHANGED <<now, priced>>, FoundIsReal(t), HasItsRow(t),
         \A job \in told' : job \in told \/ job[1] \in obs[o].wrote
  PROVE  ReactionInv'
  <1>1. obs'[o] = t /\ \A q \in Filler \ {o} : obs'[q] = obs[q]
    BY DEF MacroInv, ReactionsTyped
  <1>2. \A r \in Row : Visible(r)' = Visible(r)
    BY DEF Visible
  <1>3. /\ \A r \in Row : observed'[r] = IF r \in obs[o].wrote THEN obs[o].found[r] ELSE observed[r]
        /\ exists' = exists \cup obs[o].wrote
    BY DEF KeepRows
  <1>4. PricesAreReal'
    <2>1. \A r \in Row : observed'[r] \subseteq Visible(r)'
      BY <1>2, <1>3 DEF ReactionInv, PricesAreReal, FoundIsReal
    <2>2. \A r \in Row : observed'[r] # {} => r \in exists'
      BY <1>3 DEF ReactionInv, PricesAreReal
    <2>3. \A job \in told' : job[1] \in exists'
      BY <1>3 DEF ReactionInv, PricesAreReal
    <2> QED
      BY <2>1, <2>2, <2>3 DEF PricesAreReal
  <1>5. ASSUME NEW q \in Filler PROVE FoundIsReal(obs[q])' /\ HasItsRow(obs[q])'
    <2>1. CASE q = o
      BY <1>1, <1>2, <2>1 DEF FoundIsReal, HasItsRow
    <2>2. CASE q # o
      BY <1>1, <1>2, <2>2 DEF ReactionInv, FoundIsReal, HasItsRow
    <2> QED
      BY <2>1, <2>2
  <1> QED
    BY <1>4, <1>5 DEF ReactionInv

LEMMA MarketReal ==
  ASSUME MacroInv, ReactionInv,
         HorizonEnds \/ \E r \in Row, t \in 1..LastHorizon : PriceArrives(r, t)
  PROVE  ReactionInv'
  <1>1. now' >= now /\ now' \in Nat /\ priced \subseteq priced'
    <2>1. now \in Nat
      BY StageFacts DEF MacroInv, ReactionsTyped
    <2>2. (now' = now + 1 \/ now' = now) /\ priced \subseteq priced'
      BY DEF HorizonEnds, PriceArrives
    <2> QED
      BY <2>1, <2>2
  <1>2. UNCHANGED <<exists, observed, told, obs>>
    BY DEF HorizonEnds, PriceArrives
  <1>3. \A r \in Row : Visible(r) \subseteq Visible(r)'
    BY <1>1, VisibleStays DEF MacroInv
  <1>4. PricesAreReal'
    BY <1>2, <1>3 DEF ReactionInv, PricesAreReal
  <1>5. \A o \in Filler : FoundIsReal(obs[o])' /\ HasItsRow(obs[o])'
    BY <1>2, <1>3 DEF ReactionInv, FoundIsReal, HasItsRow
  <1> QED
    BY <1>4, <1>5 DEF ReactionInv

\* A batch begins without findings; that of a headline is its row.
LEMMA BeginReal ==
  ASSUME MacroInv, ReactionInv, NEW o \in Filler, NEW rows, NEW reason, NEW job,
         Begin(o, rows, reason, job), reason = "headline" => job[1] \in rows
  PROVE  ReactionInv'
  <1> DEFINE t == [Asleep EXCEPT !.at = "filling", !.for = reason, !.job = job, !.todo = rows]
  <1>1. obs' = [obs EXCEPT ![o] = t] /\ UNCHANGED reactionRows
    BY DEF Begin, Turn
  <1>2. t.for = reason /\ t.job = job /\ t.todo = rows /\ t.found = [r \in Row |-> {}]
    BY DEF Asleep
  <1> HIDE DEF t
  <1>3. FoundIsReal(t) /\ HasItsRow(t)
    BY <1>2 DEF FoundIsReal, HasItsRow
  <1> QED
    BY <1>1, <1>3, QuietStepReal

LEMMA LookAtPricesReal ==
  ASSUME MacroInv, ReactionInv, NEW o \in Filler, LookAtPrices(o)
  PROVE  ReactionInv'
  <1>1. PICK r \in obs[o].todo :
           Turn(o, [obs[o] EXCEPT !.row = r, !.todo = @ \ {r}, !.found[r] = Visible(r)])
    BY DEF LookAtPrices
  <1> DEFINE t == [obs[o] EXCEPT !.row = r, !.todo = @ \ {r}, !.found[r] = Visible(r)]
  <1>2. obs[o] \in Task /\ obs[o].row = Nothing /\ r \in Row
    BY DEF MacroInv, ReactionsTyped, LookAtPrices, Task
  <1>3. /\ t.for = obs[o].for /\ t.job = obs[o].job /\ t.row = r
        /\ t.todo = obs[o].todo \ {r} /\ t.wrote = obs[o].wrote
        /\ t.found = [obs[o].found EXCEPT ![r] = Visible(r)]
    BY <1>2 DEF Task
  <1>4. \A q \in Row : t.found[q] = IF q = r THEN Visible(r) ELSE obs[o].found[q]
    BY <1>2, <1>3 DEF Task
  <1>5. obs' = [obs EXCEPT ![o] = t] /\ UNCHANGED reactionRows
    BY <1>1 DEF Turn
  <1> HIDE DEF t
  <1>6. FoundIsReal(t)
    BY <1>4 DEF ReactionInv, FoundIsReal
  <1>7. HasItsRow(t)
    <2> SUFFICES ASSUME obs[o].for = "headline"
                 PROVE  obs[o].job[1] \in t.todo \cup t.wrote \cup {t.row}
      BY <1>3 DEF HasItsRow
    <2>1. obs[o].job \in HeadlineJob
      BY DEF MacroInv, TaskIsEarned, LookAtPrices
    <2>2. obs[o].job[1] # Nothing
      BY <2>1, ReactionAssumption DEF HeadlineJob, Row
    <2>3. obs[o].job[1] \in obs[o].todo \cup obs[o].wrote
      BY <1>2, <2>2 DEF ReactionInv, HasItsRow
    <2> QED
      BY <1>3, <2>3
  <1> QED
    BY <1>5, <1>6, <1>7, QuietStepReal

LEMMA WriteRowReal ==
  ASSUME MacroInv, ReactionInv, NEW o \in Filler, WriteRow(o)
  PROVE  ReactionInv'
  <1> DEFINE t == [obs[o] EXCEPT !.row = Nothing, !.wrote = @ \cup {obs[o].row}]
  <1>1. obs' = [obs EXCEPT ![o] = t] /\ UNCHANGED reactionRows
    BY DEF WriteRow, Turn
  <1>2. obs[o] \in Task
    BY DEF MacroInv, ReactionsTyped
  <1>3. /\ t.for = obs[o].for /\ t.job = obs[o].job /\ t.todo = obs[o].todo
        /\ t.wrote = obs[o].wrote \cup {obs[o].row} /\ t.found = obs[o].found
    BY <1>2 DEF Task
  <1> HIDE DEF t
  <1>4. FoundIsReal(t) /\ HasItsRow(t)
    BY <1>3 DEF ReactionInv, FoundIsReal, HasItsRow
  <1> QED
    BY <1>1, <1>4, QuietStepReal

\* The steps of a stage job between its batch and its commit keep its findings.
LEMMA StageStepReal ==
  ASSUME MacroInv, ReactionInv, NEW o \in Filler, ReadStage(o) \/ WriteStage(o)
  PROVE  ReactionInv'
  <1>1. obs[o] \in Task
    BY DEF MacroInv, ReactionsTyped
  <1>2. PICK at \in {"deciding", "staged", "done"}, for \in StageName \cup {"release", obs[o].for} :
           /\ obs' = [obs EXCEPT ![o].at = at, ![o].for = for]
           /\ UNCHANGED reactionRows /\ (for = "headline" => obs[o].for = "headline")
    <2>1. CASE ReadStage(o)
      <3> DEFINE current == pointer.card = obs[o].job[1]
                 next == Forward(pointer.stage, obs[o].job[2])
      <3>1. /\ obs' = [obs EXCEPT ![o].at = IF current THEN "deciding" ELSE "done",
                                  ![o].for = IF current THEN next ELSE "release"]
            /\ UNCHANGED reactionRows /\ obs[o].at = "filling" /\ obs[o].for = "release"
        BY <2>1 DEF ReadStage, Filled
      <3>2. next \in StageName
        <4>1. obs[o].job[2] \in StageName
          BY <3>1, StageFacts DEF MacroInv, TaskIsEarned, StageJob
        <4>2. pointer.stage \in StageName
          BY DEF MacroInv, CardsTyped, Pointing
        <4> QED
          BY <4>1, <4>2, ForwardIsOneOfThem
      <3> HIDE DEF current, next
      <3> QED
        BY <3>1, <3>2 DEF StageName
    <2>2. CASE WriteStage(o)
      <3> DEFINE next == IF pointer.card = obs[o].job[1] THEN "staged" ELSE "done"
      <3>1. obs' = [obs EXCEPT ![o].at = next] /\ UNCHANGED reactionRows
        BY <2>2 DEF WriteStage
      <3>2. next \in {"staged", "done"}
        OBVIOUS
      <3> HIDE DEF next
      <3>3. obs' = [obs EXCEPT ![o].at = next, ![o].for = obs[o].for]
        BY <1>1, <3>1 DEF MacroInv, ReactionsTyped, Task
      <3> QED
        BY <3>1, <3>2, <3>3
    <2> QED
      BY <2>1, <2>2
  <1> DEFINE t == [obs[o] EXCEPT !.at = at, !.for = for]
  <1>3. obs' = [obs EXCEPT ![o] = t]
    BY <1>2 DEF MacroInv, ReactionsTyped
  <1>4. /\ t.for = for /\ t.job = obs[o].job /\ t.todo = obs[o].todo
        /\ t.wrote = obs[o].wrote /\ t.found = obs[o].found /\ t.row = obs[o].row
    BY <1>1 DEF Task
  <1> HIDE DEF t
  <1>5. FoundIsReal(t) /\ HasItsRow(t)
    BY <1>2, <1>4 DEF ReactionInv, FoundIsReal, HasItsRow
  <1> QED
    BY <1>2, <1>3, <1>5, QuietStepReal

\* A worker ends its batch, or dies over it.
LEMMA EndOfBatchReal ==
  ASSUME MacroInv, ReactionInv, NEW o \in Filler,
         CommitWindows(o) \/ CommitConfirmations(o) \/ CommitStage(o) \/ CrashFiller(o)
  PROVE  ReactionInv'
  <1>1. CASE CommitWindows(o)
    <2> DEFINE t == [Asleep EXCEPT !.at = "filling", !.for = "confirmations",
                                   !.todo = FirstOf(Pending(Confirmation))]
    <2>1. /\ obs' = [obs EXCEPT ![o] = t] /\ KeepRows(o) /\ UNCHANGED <<now, priced, told>>
      BY <1>1 DEF CommitWindows
    <2>2. t.for = "confirmations" /\ t.found = [r \in Row |-> {}]
      BY DEF Asleep
    <2> HIDE DEF t
    <2>3. FoundIsReal(t) /\ HasItsRow(t)
      BY <2>2 DEF FoundIsReal, HasItsRow
    <2> QED
      BY <2>1, <2>3, KeptStepReal
  <1>2. CASE CommitConfirmations(o)
    <2>1. /\ obs' = [obs EXCEPT ![o] = Asleep] /\ KeepRows(o) /\ UNCHANGED <<now, priced>>
          /\ Filled(o) /\ obs[o].for \in {"confirmations", "headline"}
      BY <1>2 DEF CommitConfirmations
    <2>2. obs[o].for = "headline" => obs[o].job[1] \in obs[o].wrote
      <3>1. obs[o].for = "headline" => obs[o].job \in HeadlineJob
        BY <2>1 DEF MacroInv, TaskIsEarned, Filled
      <3>2. obs[o].for = "headline" => obs[o].job[1] # Nothing
        BY <3>1, ReactionAssumption DEF HeadlineJob, Row
      <3> QED
        BY <2>1, <3>2 DEF ReactionInv, HasItsRow, Filled
    <2>3. \A job \in told' : job \in told \/ job[1] \in obs[o].wrote
      BY <1>2, <2>1, <2>2 DEF CommitConfirmations
    <2> QED
      BY <2>1, <2>3, AsleepIsReal, KeptStepReal
  <1>3. CASE CommitStage(o)
    <2>1. /\ obs' = [obs EXCEPT ![o] = Asleep] /\ KeepRows(o) /\ UNCHANGED <<now, priced, told>>
      BY <1>3 DEF CommitStage
    <2> QED
      BY <2>1, AsleepIsReal, KeptStepReal
  <1>4. CASE CrashFiller(o)
    BY <1>4, AsleepIsReal, QuietStepReal DEF CrashFiller
  <1> QED
    BY <1>1, <1>2, <1>3, <1>4

LEMMA ReactionStep == MacroInv /\ ReactionInv /\ [MacroNext]_macroVars => ReactionInv'
  <1> SUFFICES ASSUME MacroInv, ReactionInv, [MacroNext]_macroVars PROVE ReactionInv'
    OBVIOUS
  <1>0. Observer \subseteq Filler /\ Reconciler \subseteq Filler
    BY DEF Filler
  <1>1. CASE HorizonEnds \/ \E r \in Row, t \in 1..LastHorizon : PriceArrives(r, t)
    BY <1>1, MarketReal
  <1>2. ASSUME NEW o \in Filler,
               Reconcile(o) \/ FillRows(o) \/ CrashFiller(o) \/ (o \in Observer /\ FinishStage(o))
        PROVE  ReactionInv'
    <2>1. CASE Reconcile(o)
      BY <2>1, BeginReal DEF Reconcile
    <2> QED
      BY <1>2, <2>1, LookAtPricesReal, WriteRowReal, StageStepReal, EndOfBatchReal
      DEF FillRows, FinishStage
  <1>3. ASSUME NEW o \in Observer, NEW r \in Confirmation, ConfirmStory(o, r) PROVE ReactionInv'
    <2>1. PICK t \in Horizons[r] : Begin(o, {r}, "headline", <<r, t>>)
      BY <1>3 DEF ConfirmStory
    <2> QED
      BY <1>0, <2>1, BeginReal
  <1>4. ASSUME NEW o \in Observer, NEW e \in Release, NEW s \in LaterStage,
               StartStageJob(o, e, s)
        PROVE  ReactionInv'
    BY <1>0, <1>4, BeginReal DEF StartStageJob
  <1>5. ASSUME UNCHANGED <<now, priced, observed, told, obs>>, exists \subseteq exists'
        PROVE  ReactionInv'
    <2>1. \A r \in Row : Visible(r)' = Visible(r)
      BY <1>5 DEF Visible
    <2> QED
      BY <1>5, <2>1 DEF ReactionInv, PricesAreReal, FoundIsReal, HasItsRow
  <1>6. ASSUME NEW p \in Publisher,
               \/ RefuseCard(p) \/ InsertCard(p) \/ CommitCard(p)
               \/ \E e \in Release : ReadCurrent(p, e)
        PROVE  UNCHANGED <<now, priced, observed, told, obs>> /\ exists \subseteq exists'
    BY <1>6 DEF RefuseCard, InsertCard, CommitCard, ReadCurrent, reactionVars, reactionRows
  <1>7. CASE UNCHANGED macroVars
    BY <1>5, <1>7 DEF macroVars, reactionVars, reactionRows
  <1> QED
    BY <1>0, <1>1, <1>2, <1>3, <1>4, <1>5, <1>6, <1>7 DEF MacroNext, ReactionNext

\* No row of a reaction shows a price before its horizon is over and the price
\* is stored, whichever workers fill it, die over it or write it back.
THEOREM ReactionsAreReal == MacroSpec => []PricesAreReal
  <1>1. MacroInit => ReactionInv
    <2> SUFFICES ASSUME MacroInit PROVE ReactionInv
      OBVIOUS
    <2>1. /\ observed = [r \in Row |-> {}] /\ told = {} /\ obs = [o \in Filler |-> Asleep]
      BY DEF MacroInit, ReactionInit
    <2>2. PricesAreReal
      BY <2>1 DEF PricesAreReal
    <2> QED
      BY <2>1, <2>2, AsleepIsReal DEF ReactionInv
  <1>2. ReactionInv => PricesAreReal
    BY DEF ReactionInv
  <1> QED
    BY <1>1, <1>2, ReactionStep, MacroInvariant, PTL DEF MacroSpec
=============================================================================
