---------------------------- MODULE MCPublication ----------------------------
(* The two ways to publish what readers see, explored one after the other:  *)
(* part says whether a behaviour is about the jobs of the analysis lane and *)
(* their section snapshots, or about the news feed of two sources, one of   *)
(* which publishes more than a fetch shows.                                 *)
EXTENDS AnalysisQueue, NewsPublication
CONSTANTS w1, w2, reuters, kobeissi
VARIABLE part

MoreFromReuters == [i \in Item |-> IF i \in {2, 5} THEN kobeissi ELSE reuters]

PublicationInit == Init /\ NewsInit /\ part \in {"sections", "news"}
PublicationNext ==
  /\ part' = part
  /\ \/ part = "sections" /\ Next /\ UNCHANGED newsVars
     \/ part = "news" /\ NewsNext /\ UNCHANGED vars
publicationVars == <<vars, newsVars, part>>
PublicationSpec ==
  /\ PublicationInit /\ [][PublicationNext]_publicationVars
  /\ (part = "sections" => Fairness) /\ (part = "news" => NewsFairness)

\* JobsEnd and ItemsBecomeEvents of the behaviours that are about them.
SectionJobsEnd == part = "sections" => JobsEnd
NewsBecomesEvents == part = "news" => ItemsBecomeEvents
=============================================================================
