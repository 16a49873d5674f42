----------------------------- MODULE MCFastPath -----------------------------
(* Three questions, explored one after the other: how headlines are filed,  *)
(* how the cards of a release move while prices are missing, and how prices *)
(* reach the rows that wait for them.  part says which of them a behaviour  *)
(* is about; variables of the other components keep their initial values.   *)
EXTENDS StoryClusters, MacroReleases
CONSTANTS h1, h2, h3, h4, i1, i2, i3, s1, s2, ka, kb, r1, r2,
          m0, m1, x1, x2, y1, c1, o1, o2, o3, p1, p2
VARIABLE part

HeadlineItem == [h \in Headline |-> CASE h \in {h1, h2} -> i1 [] h = h3 -> i2 [] OTHER -> i3]
ItemOutlet == [i \in Item |-> IF i = i2 THEN s2 ELSE s1]
HeadlineKey == [h \in Headline |-> IF h = h4 THEN kb ELSE ka]
RowHorizons == [r \in Row |-> CASE r = x1 -> {1} [] r = x2 -> {2} [] r = y1 -> {1} [] OTHER -> {1, 2}]
RowRank == [r \in Row |-> CASE r = x1 -> 2 [] r = x2 -> 3 [] r = y1 -> 1 [] OTHER -> 4]
EventWindows == [e \in Release |-> IF e = m0 THEN {x1, y1} ELSE {x2}]
\* The revision comes later, so its horizons do, but for the end of the session.
Stage_Time == [e \in Release |-> [s \in LaterStage |->
                 CASE s = "developing" -> IF e = m0 THEN 0 ELSE 1
                   [] s = "reaction" -> IF e = m0 THEN 1 ELSE 2
                   [] OTHER -> 2]]
Own_Stages == [e \in Release |-> IF e = m0 THEN {"t0", "developing"} ELSE {"t0", "final"}]

CardsNext ==
  \/ (HorizonEnds \/ \E o \in Observer : LookAtPrices(o) \/ WriteRow(o) \/ CrashFiller(o))
     /\ UNCHANGED <<cardRows, route>>
  \/ \E p \in Publisher :
       RefuseCard(p) \/ InsertCard(p) \/ CommitCard(p) \/ \E e \in Release : ReadCurrent(p, e)
  \/ \E o \in Observer :
       \/ FinishStage(o)
       \/ \E s \in LaterStage : StartStageJob(o, IF o = o2 THEN m0 ELSE m1, s)
PricesNext ==
  \/ \/ HorizonEnds
     \/ \E r \in Row, t \in 1..LastHorizon : PriceArrives(r, t)
     \/ \E o \in {o1, o2} : Reconcile(o) \/ FillRows(o) \/ CrashFiller(o) \/ ConfirmStory(o, c1)
     /\ UNCHANGED <<cardRows, route>>
  \/ ReadCurrent(p1, m0) \/ InsertCard(p1) \/ CommitCard(p1)

FastInit == StoryInit /\ MacroInit /\ part \in {"stories", "cards", "prices"}
FastNext ==
  /\ part' = part
  /\ \/ part = "stories" /\ StoryNext /\ UNCHANGED macroVars
     \/ part = "cards" /\ CardsNext /\ UNCHANGED storyVars
     \/ part = "prices" /\ PricesNext /\ UNCHANGED storyVars
fastVars == <<storyVars, macroVars, part>>
FastSpec == FastInit /\ [][FastNext]_fastVars /\ (part = "prices" => MacroFairness)

\* Every variable of the components keeps its type.
FastTypeOK == StoryTypeOK /\ MacroTypeOK
=============================================================================
