---------------------------- MODULE MacroReleases ----------------------------
(***************************************************************************)
(* The cards of one macro release: the release event and its revisions,   *)
(* each routed by one transaction that inserts a card and moves a pointer  *)
(* to it, and the jobs that advance the stage of the card when a horizon   *)
(* is over.  Routing creates the reaction windows of the event, and a job  *)
(* fills due windows before it touches the card.                           *)
(***************************************************************************)
EXTENDS PriceReactions

CONSTANTS
  Release,        \* events of the release
  Original,       \* the one that revises no other
  WindowsOf,      \* the reaction windows of each event
  StageTime,      \* when the job of each later stage of an event is due
  OwnStages,      \* the stages an event may have by its payload
  NoCard,
  Publisher       \* transactions that route events

LaterStage == {"developing", "reaction", "final"}

ASSUME ReleaseAssumption ==
  /\ Original \in Release /\ NoCard \notin Release
  /\ WindowsOf \in [Release -> SUBSET Window]
  /\ StageTime \in [Release -> [LaterStage -> 0..LastHorizon]]
  /\ OwnStages \in [Release -> SUBSET ({"t0"} \cup LaterStage)]

VARIABLES
  card,       \* the card of each event: NoCard, or its number and stage
  pointer,    \* the current card and its stage
  refused,    \* events whose routing the database has rejected
  ran,        \* stage jobs that are done
  route       \* the open transaction of each router

cardRows == <<card, pointer, refused, ran>>
macroVars == <<reactionVars, cardRows, route>>

Stages == <<"t0", "developing", "reaction", "final">>
Position(s) == CHOOSE i \in 1..4 : Stages[i] = s
NoPointer == [card |-> NoCard, stage |-> "t0"]
Unrouted == [number |-> 0, stage |-> "t0", on |-> FALSE]
Carded == {e \in Release : card[e].on}
Resting == [at |-> "idle", of |-> NoCard, seen |-> NoPointer, stage |-> "t0"]

\* advance_stage: forward only, but for a card that was developing.
Forward(current, candidate) ==
  IF current = "developing" /\ candidate = "t0" THEN "t0"
  ELSE Stages[IF Position(candidate) > Position(current)
              THEN Position(candidate) ELSE Position(current)]

\* The row of the pointer is locked by whoever has written it.
PointerHeld == (\E p \in Publisher : route[p].at = "written")
               \/ (\E o \in Observer : obs[o].at = "staged")

-----------------------------------------------------------------------------
(* upsert_macro_release_card *)

ReadCurrent(p, e) ==
  /\ route[p] = Resting /\ ~card[e].on
  /\ \A q \in Publisher : route[q].of # e
  /\ route' = [route EXCEPT ![p] = [Resting EXCEPT !.at = "read", !.of = e, !.seen = pointer]]
  /\ UNCHANGED <<reactionVars, cardRows>>

\* Fault: the number of a first card defaults to one.
NumberFromOne(seen) == IF seen.card = NoCard THEN 1 ELSE card[seen.card].number + 1

Number(seen) == IF seen.card = NoCard THEN 0 ELSE card[seen.card].number + 1

\* The schema wants an event before the one of a card with a number.
Refused(p) == Number(route[p].seen) > 0 /\ route[p].of = Original

RefuseCard(p) ==
  /\ route[p].at = "read" /\ Refused(p)
  /\ refused' = refused \cup {route[p].of}
  /\ route' = [route EXCEPT ![p] = Resting]
  /\ UNCHANGED <<reactionVars, card, pointer, ran>>

\* A payload names the stage of its card, or it follows from what the payload
\* holds: a final mark, a reaction, an actual value, nothing.  The card starts
\* at that stage, or at the one of the pointer if that is ahead.
InsertCard(p) ==
  /\ route[p].at = "read" /\ ~Refused(p) /\ ~PointerHeld
  /\ \E own \in OwnStages[route[p].of] :
       route' = [route EXCEPT ![p].at = "written",
                   ![p].stage = IF route[p].seen.card = NoCard THEN own
                                ELSE Forward(route[p].seen.stage, own)]
  /\ UNCHANGED <<reactionVars, cardRows>>

CommitCard(p) ==
  /\ route[p].at = "written"
  /\ LET e == route[p].of
     IN /\ card' = [card EXCEPT ![e] = [number |-> Number(route[p].seen),
                                        stage |-> route[p].stage, on |-> TRUE]]
        /\ pointer' = [card |-> e, stage |-> route[p].stage]
        /\ exists' = exists \cup WindowsOf[e]
  /\ route' = [route EXCEPT ![p] = Resting]
  /\ UNCHANGED <<now, observed, priced, told, obs, observerCrashes, refused, ran>>

-----------------------------------------------------------------------------
(* update_macro_release_reactions *)

\* Fault: the job does not wait for its time.
StageAtOnce(e, s) == e \in Release /\ s \in LaterStage

\* Every event of a release has its own horizons.
StageDue(e, s) == StageTime[e][s] <= now

StartStageJob(o, e, s) ==
  /\ o \in Observer /\ card[e].on /\ <<e, s>> \notin ran /\ StageDue(e, s)
  /\ \A q \in Observer : obs[q].job # <<e, s>>
  /\ Begin(o, FirstOf(Pending(Window)), "release", <<e, s>>)
  /\ UNCHANGED <<cardRows, route>>

\* A card that is not the current one any more is left alone.
ReadStage(o) ==
  /\ Filled(o) /\ obs[o].for = "release"
  /\ LET e == obs[o].job[1] s == obs[o].job[2]
     IN obs' = [obs EXCEPT ![o].at = IF pointer.card = e THEN "deciding" ELSE "done",
                           ![o].for = IF pointer.card = e THEN Forward(pointer.stage, s)
                                      ELSE "release"]
  /\ UNCHANGED <<reactionRows, observerCrashes, cardRows, route>>

\* The update counts only if the pointer still is at that card.
WriteStage(o) ==
  /\ obs[o].at = "deciding" /\ ~PointerHeld
  /\ obs' = [obs EXCEPT ![o].at = IF pointer.card = obs[o].job[1] THEN "staged" ELSE "done"]
  /\ UNCHANGED <<reactionRows, observerCrashes, cardRows, route>>

CommitStage(o) ==
  /\ obs[o].at \in {"staged", "done"}
  /\ KeepRows(o)
  /\ pointer' = IF obs[o].at = "staged" THEN [pointer EXCEPT !.stage = obs[o].for] ELSE pointer
  /\ ran' = ran \cup {obs[o].job}
  /\ obs' = [obs EXCEPT ![o] = Asleep]
  /\ UNCHANGED <<now, priced, told, observerCrashes, card, refused, route>>

MacroInit ==
  /\ ReactionInit
  /\ card = [e \in Release |-> Unrouted] /\ pointer = NoPointer
  /\ refused = {} /\ ran = {} /\ route = [p \in Publisher |-> Resting]

FinishStage(o) == ReadStage(o) \/ WriteStage(o) \/ CommitStage(o)

MacroNext ==
  \/ ReactionNext /\ UNCHANGED <<cardRows, route>>
  \/ \E p \in Publisher :
       \/ RefuseCard(p) \/ InsertCard(p) \/ CommitCard(p)
       \/ \E e \in Release : ReadCurrent(p, e)
  \/ \E o \in Observer :
       \/ FinishStage(o)
       \/ \E e \in Release, s \in LaterStage : StartStageJob(o, e, s)

MacroFairness ==
  /\ \A o \in Reconciler : WF_macroVars(Reconcile(o) /\ UNCHANGED <<cardRows, route>>)
  /\ \A o \in Filler : WF_macroVars(FillRows(o) /\ UNCHANGED <<cardRows, route>>)
  /\ \A o \in Observer : WF_macroVars(FinishStage(o))
  /\ \A p \in Publisher : WF_macroVars(CommitCard(p))
MacroSpec == MacroInit /\ [][MacroNext]_macroVars /\ MacroFairness

-----------------------------------------------------------------------------
(* Properties *)

MacroTypeOK ==
  /\ ReactionTypeOK
  /\ pointer.card \in Carded \cup {NoCard} /\ refused \subseteq Release
  /\ \A e \in Release : card[e].number \in Nat /\ card[e].stage \in {Stages[i] : i \in 1..4}

\* A stage that an event has by its payload, or by its own clock.
EarnedBy(e, s) ==
  s = "t0" \/ s \in OwnStages[e] \/ (s \in LaterStage /\ StageTime[e][s] <= now)

\* The event of a card has earned a stage, or that of a card before it.
Earned(e, s) ==
  \E f \in Carded : (f = e \/ card[f].number < card[e].number) /\ EarnedBy(f, s)

\* No card and no pointer shows a stage out of nothing, whatever cards and jobs of
\* the release race with one another.  A revision may take over a stage that its
\* own clock has not reached, but only one that an event of a card before it has
\* earned; a later revision never lends its stage to an earlier one.
StageIsEarned ==
  /\ \A e \in Carded : Earned(e, card[e].stage)
  /\ pointer.card # NoCard => Earned(pointer.card, pointer.stage)

\* An event is refused a card only when a revision of it was faster, so that
\* there is a card all the same.
RefusedOnlyIfOvertaken ==
  refused # {} => refused = {Original} /\ Carded \ {Original} # {} /\ pointer # NoPointer
=============================================================================
