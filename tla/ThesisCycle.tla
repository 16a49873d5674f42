----------------------------- MODULE ThesisCycle -----------------------------
(* One durable job of the thesis desk (thesis_autonomy.py): collect evidence,*)
(* ask every role for candidates, audit their citations, challenge what is   *)
(* left (thesis_tournament.py, thesis_challenges.py) and stage what passed.  *)
(* An attempt is one database transaction of the worker; the model calls it  *)
(* pays for are not undone with it.                                          *)
EXTENDS Naturals, Sequences, FiniteSets, FiniteSetsExt, SequencesExt

CONSTANTS
  Roles,           \* the sequence of the generating roles
  Candidate,       \* candidate keys: subject, direction, horizon, mechanism
  Item,            \* pieces of evidence
  SideOf,          \* the direction of a candidate
  ExposureOf,      \* its subject and horizon, what candidates compete for
  OriginOf,        \* the origin_key of a piece of evidence
  AdapterOf,       \* the adapter that collected it
  Collectable,     \* what a collection may find
  Answers,         \* the sets of drafts a role may answer with
  Stranger,        \* evidence nobody collected
  Share,           \* the part of the run's budget of each ledger
  Price,           \* what a call may be charged
  MaxPrice,        \* the most a call is charged
  MaxSupplied,     \* the evidence a tournament takes
  MaxPerRole, MaxBatch, MaxPromoted, MaxChallenges, MaxErrors,
  NeedsOpposition, \* require_opposing_variants
  MaxTries,        \* max_attempts of the job
  MaxUncharged,    \* bound: calls that are billed and not charged
  MaxDeskCrashes   \* bound: crashes of the worker

Ledger  == {"generation", "falsification"}
Draft   == [key : Candidate, refs : SUBSET Item]
\* What an answer of the auditor says of a draft.  An answer is flawed by a
\* decision of another draft, a second one of the same, or one against its form.
Verdict == {"entailed", "mixed", "undecided"}

\* A share, and every charge, in units of the smallest charge; a role answers
\* with a list.
ASSUME DeskAssumption ==
  /\ Share \in [Ledger -> Nat] /\ MaxPrice \in Nat /\ Price \subseteq 0..MaxPrice
  /\ Roles \in Seq(STRING) /\ MaxPerRole \in Nat /\ MaxChallenges \in Nat
  /\ MaxTries \in Nat /\ MaxDeskCrashes \in Nat /\ MaxErrors \in Nat
  /\ MaxPromoted \in Nat /\ MaxBatch \in Nat \ {0}
  /\ \A answer \in Answers : answer \subseteq Draft /\ IsFiniteSet(answer)

VARIABLES
  deskJob, tries, deskCrashes, \* the job
  stage, todo, repair,         \* where the attempt is and what is left of its stage
  catalog, drafts,             \* what was collected and what the roles said of it
  audits,                      \* the auditor's answers, as they came
  survivors, ranked,           \* the tournament
  challenged, passed,          \* the challenges
  accepted, staged,            \* the promotion
  aborted, errors,             \* the transaction, and the errors the cycle swallowed
  spent, paid,                 \* the ledgers of the attempt; all the job's ledgers were charged
  uncharged                    \* the calls of the job that were billed and not charged

workVars   == <<catalog, drafts, audits, survivors, ranked, challenged, passed, accepted,
                staged, aborted, errors>>
moneyVars  == <<spent, paid, uncharged>>
jobOfDesk  == <<deskJob, tries, deskCrashes>>
deskVars   == <<jobOfDesk, stage, todo, repair, workVars, moneyVars>>

-----------------------------------------------------------------------------
(* One call of a model: _call_stage_once and the ledger it is charged to.    *)

LedgerOf == [s \in {"roles", "audit", "challenge"} |->
               IF s = "challenge" THEN "falsification" ELSE "generation"]

\* Fault: the ledger is not looked at before a call.
MayAlways(l) == TRUE

MayCall(l) == spent[l] < Share[l]

Adapters(d) == {AdapterOf[i] : i \in d.refs}

\* The source gate and the actionability gate.
Actionable(d) == {"trend", "sentiment", "analysis"} \subseteq Adapters(d)

ToChallenge ==
  /\ stage = "challenge"
  /\ todo # <<>>
  /\ Actionable(Head(todo))
  /\ challenged < MaxChallenges

Asking ==
  \/ stage \in {"roles", "audit"} /\ todo # <<>>
  \/ ToChallenge

\* The model answers and the answer is charged.
Pay(l, price) ==
  /\ MayCall(l)
  /\ spent' = [spent EXCEPT ![l] = @ + price]
  /\ paid' = paid + price
  /\ UNCHANGED uncharged

\* The provider bills a call the ledger never hears of: the stage raises before
\* the charge (its deadline, an answer of 200 that cannot be read), or the answer
\* does not report its cost, which is then charged as nothing.
BilledOnly(l) ==
  /\ MayCall(l)
  /\ uncharged < MaxUncharged
  /\ uncharged' = uncharged + 1
  /\ UNCHANGED <<spent, paid>>

\* The charge leaves the ledger something, so that the answer is looked at, and
\* its audit row is written.
Heard(l) ==
  /\ ~aborted
  /\ \/ \E price \in Price : Pay(l, price) /\ spent'[l] < Share[l]
     \/ BilledOnly(l)

\* The adapter raises: the ledger is used up or the provider fails, having
\* billed the call or not; the charge uses the ledger up; the audit row of a
\* call cannot be written, which aborts the transaction; or the second answer
\* is not of the schema either.
Raises(l) ==
  \/ UNCHANGED <<moneyVars, aborted>>
  \/ MayCall(l) /\ aborted' = TRUE /\ UNCHANGED moneyVars
  \/ BilledOnly(l) /\ aborted' \in {aborted, TRUE}
  \/ \E price \in Price :
       /\ Pay(l, price)
       /\ \/ spent'[l] >= Share[l] /\ UNCHANGED aborted
          \/ spent'[l] < Share[l] /\ aborted' = TRUE
          \/ spent'[l] < Share[l] /\ repair /\ UNCHANGED aborted

\* The first answer is not of the schema: it is sent back once.
AskAgain ==
  /\ Asking
  /\ ~repair
  /\ Heard(LedgerOf[stage])
  /\ repair' = TRUE
  /\ UNCHANGED <<jobOfDesk, stage, todo, workVars>>

Answered(l) == Heard(l) /\ repair' = FALSE /\ UNCHANGED aborted

Refused(l) == Raises(l) /\ repair' = FALSE

NextOfStage == todo' = Tail(todo) /\ UNCHANGED <<jobOfDesk, stage>>

\* What the cycle holds in memory when it begins, and when it is gone.
Blank ==
  /\ todo' = <<>> /\ repair' = FALSE
  /\ catalog' = {} /\ drafts' = {} /\ audits' = {} /\ survivors' = {} /\ ranked' = <<>>
  /\ challenged' = 0 /\ passed' = {} /\ accepted' = {} /\ staged' = {}
  /\ aborted' = FALSE /\ errors' = 0
  /\ spent' = [l \in Ledger |-> 0]

-----------------------------------------------------------------------------
(* Collection and the tournament.                                            *)

\* _collect_evidence; a statement of an adapter that fails is swallowed, but
\* the next one of the transaction, the system theme's, raises.  A tournament
\* raises at more evidence than it takes.
Collect ==
  /\ stage = "collect"
  /\ \/ /\ catalog' \in Collectable
        /\ Cardinality(catalog') <= MaxSupplied
        /\ stage' = "roles"
        /\ todo' = Roles
        /\ UNCHANGED aborted
     \/ /\ aborted' = TRUE
        /\ stage' = "finish"
        /\ UNCHANGED <<catalog, todo>>
  /\ UNCHANGED <<jobOfDesk, repair, drafts, audits, survivors, ranked, challenged,
                 passed, accepted, staged, errors, moneyVars>>

\* _parse_candidate: every citation is a piece of the supplied evidence.
Grounded(d) == d.refs # {} /\ d.refs \subseteq catalog

RoleAnswers ==
  /\ stage = "roles"
  /\ todo # <<>>
  /\ Answered("generation")
  /\ \E output \in Answers :
     \E taken \in kSubset(Min({Cardinality(output), MaxPerRole}), output) :
       drafts' = drafts \cup {d \in taken : Grounded(d)}
  /\ NextOfStage
  /\ UNCHANGED <<catalog, audits, survivors, ranked, challenged, passed, accepted, staged,
                 errors>>

\* One role never sinks the desk.
RoleFails ==
  /\ stage = "roles"
  /\ todo # <<>>
  /\ Refused("generation")
  /\ NextOfStage
  /\ UNCHANGED <<catalog, drafts, audits, survivors, ranked, challenged, passed, accepted,
                 staged, errors>>

\* A key that several drafts share is represented by one of them as it is.
Representatives ==
  {kept \in SUBSET drafts : /\ \A d \in drafts : \E k \in kept : k.key = d.key
                            /\ \A k, l \in kept : k.key = l.key => k = l}

Batches(s) ==
  [n \in 1..((Len(s) + MaxBatch - 1) \div MaxBatch) |->
     ToSet(SubSeq(s, (n - 1) * MaxBatch + 1, Min({n * MaxBatch, Len(s)})))]

Compact ==
  /\ stage = "roles"
  /\ todo = <<>>
  /\ \E kept \in Representatives : \E s \in SetToSeqs(kept) : todo' = Batches(s)
  /\ stage' = "audit"
  /\ UNCHANGED <<jobOfDesk, repair, workVars, moneyVars>>

\* Fault: the decisions that are well formed are taken from a flawed answer too.
EntailedAnyway(answer) == {d \in DOMAIN answer.verdict : answer.verdict[d] = "entailed"}

\* One bad decision fails its whole batch; a draft without a decision is out.
Entailed(answer) ==
  {d \in DOMAIN answer.verdict : ~answer.flawed /\ answer.verdict[d] = "entailed"}

AuditAnswers ==
  /\ stage = "audit"
  /\ todo # <<>>
  /\ Answered("generation")
  /\ \E answer \in [verdict : [Head(todo) -> Verdict], flawed : BOOLEAN] :
       /\ audits' = audits \cup {answer}
       /\ survivors' = survivors \cup Entailed(answer)
  /\ NextOfStage
  /\ UNCHANGED <<catalog, drafts, ranked, challenged, passed, accepted, staged, errors>>

\* The auditor raises: every draft of the batch is out.
AuditFails ==
  /\ stage = "audit"
  /\ todo # <<>>
  /\ Refused("generation")
  /\ NextOfStage
  /\ UNCHANGED <<catalog, drafts, audits, survivors, ranked, challenged, passed, accepted,
                 staged, errors>>

\* The complete survivors in the order of their scores, at most max_promoted.
Rank ==
  /\ stage = "audit"
  /\ todo = <<>>
  /\ \E complete \in SUBSET survivors : \E s \in SetToSeqs(complete) :
       ranked' = SubSeq(s, 1, Min({Len(s), MaxPromoted}))
  /\ todo' = ranked'
  /\ stage' = "challenge"
  /\ UNCHANGED <<jobOfDesk, repair, catalog, drafts, audits, survivors, challenged,
                 passed, accepted, staged, aborted, errors, moneyVars>>

-----------------------------------------------------------------------------
(* The challenges.                                                           *)

\* The candidate is not worth a challenge, or the run has no challenge left.
Unchallenged ==
  /\ stage = "challenge"
  /\ todo # <<>>
  /\ ~repair
  /\ ~Actionable(Head(todo)) \/ challenged >= MaxChallenges
  /\ NextOfStage
  /\ UNCHANGED <<repair, workVars, moneyVars>>

\* audit_citations of the challenge: over all that was collected, not over
\* what the candidate cites.
SharedOrigin == \E i, j \in catalog : i # j /\ OriginOf[i] = OriginOf[j]

\* A challenge that cites what nobody collected counts as a failed one.
ChallengeAnswered ==
  /\ ToChallenge
  /\ Answered("falsification")
  /\ challenged' = challenged + 1
  /\ \E cites \in {{}, {Stranger}} \cup {{i} : i \in catalog} :
       passed' = IF cites \subseteq catalog /\ ~SharedOrigin
                 THEN passed \cup {Head(todo)}
                 ELSE passed
  /\ NextOfStage
  /\ UNCHANGED <<catalog, drafts, audits, survivors, ranked, accepted, staged, errors>>

ChallengeFails ==
  /\ ToChallenge
  /\ Refused("falsification")
  /\ challenged' = challenged + 1
  /\ NextOfStage
  /\ UNCHANGED <<catalog, drafts, audits, survivors, ranked, passed, accepted, staged, errors>>

\* The bookkeeping around a challenge raises; after too many errors the loop ends.
ChallengeStumbles ==
  /\ ToChallenge
  /\ ~repair
  /\ challenged' \in {challenged, challenged + 1}
  /\ errors' = errors + 1
  /\ todo' = IF errors' >= MaxErrors THEN <<>> ELSE Tail(todo)
  /\ UNCHANGED <<jobOfDesk, stage, repair, catalog, drafts, audits, survivors, ranked,
                 passed, accepted, staged, aborted, moneyVars>>

Promotion ==
  /\ stage = "challenge"
  /\ todo = <<>>
  /\ stage' = "promote"
  /\ todo' = ranked
  /\ UNCHANGED <<jobOfDesk, repair, workVars, moneyVars>>

-----------------------------------------------------------------------------
(* The promotion, and the end of the transaction.                            *)

Opposes(d, e) ==
  /\ ExposureOf[d.key] = ExposureOf[e.key]
  /\ {SideOf[d.key], SideOf[e.key]} = {"long", "short"}

Opposed(d) == NeedsOpposition => \E e \in passed : Opposes(d, e)

SameExposure(d, e) ==
  ExposureOf[d.key] = ExposureOf[e.key] /\ SideOf[d.key] = SideOf[e.key]

Eligible(d) ==
  /\ d \in passed
  /\ Opposed(d)
  /\ ~\E e \in accepted : SameExposure(d, e)

\* investment_theses in schema.sql, and the columns the match selects from it.
ThesisColumns ==
  {"id", "theme_id", "company", "symbol", "claim", "variant_perception", "status", "horizon",
   "direction", "mechanism", "canonical_key", "catalyst_summary", "confidence_score",
   "opportunity_score", "evidence_strength", "contradiction_strength", "updated_at"}

MatchColumns ==
  {"id", "subject", "claim", "variant_perception", "catalyst_summary", "direction", "horizon",
   "mechanism", "confidence_score", "opportunity_score", "evidence_strength",
   "contradiction_strength", "version", "updated_at"}

Promote ==
  /\ stage = "promote"
  /\ todo # <<>>
  /\ LET d == Head(todo)
         stored == ~aborted /\ MatchColumns \subseteq ThesisColumns
     IN  IF Eligible(d)
         THEN /\ accepted' = accepted \cup {d}
              /\ staged' = IF stored THEN staged \cup {d} ELSE staged
              /\ aborted' = ~stored
              /\ errors' = IF stored THEN errors ELSE errors + 1
         ELSE UNCHANGED <<accepted, staged, aborted, errors>>
  /\ todo' = IF errors' > errors /\ errors' >= MaxErrors THEN <<>> ELSE Tail(todo)
  /\ UNCHANGED <<jobOfDesk, stage, repair, catalog, drafts, audits, survivors, ranked,
                 challenged, passed, moneyVars>>

GivenBack == IF tries >= MaxTries THEN "failed_terminal" ELSE "failed_retryable"

\* succeed_job in the transaction of the cycle, or its rollback and retry_job.
FinishDesk ==
  /\ \/ stage = "promote" /\ todo = <<>>
     \/ stage = "finish"
  /\ deskJob' = IF aborted THEN GivenBack ELSE "succeeded"
  /\ stage' = "idle"
  /\ Blank
  /\ UNCHANGED <<tries, deskCrashes, paid, uncharged>>

-----------------------------------------------------------------------------
(* The job.                                                                  *)

ClaimDesk ==
  /\ deskJob \in {"queued", "failed_retryable"}
  /\ tries < MaxTries
  /\ deskJob' = "running"
  /\ tries' = tries + 1
  /\ stage' = "collect"
  /\ Blank
  /\ UNCHANGED <<deskCrashes, paid, uncharged>>

\* The worker dies: its transaction is rolled back, the job stays running; a
\* call it had sent may still be billed.
DeskCrash ==
  /\ stage # "idle"
  /\ deskCrashes < MaxDeskCrashes
  /\ deskCrashes' = deskCrashes + 1
  /\ stage' = "idle"
  /\ Blank
  /\ \/ UNCHANGED uncharged
     \/ Asking /\ MayCall(LedgerOf[stage]) /\ uncharged < MaxUncharged
        /\ uncharged' = uncharged + 1
  /\ UNCHANGED <<deskJob, tries, paid>>

\* reconcile_jobs, once the lease of the dead worker has run out.
DeskReclaimed ==
  /\ deskJob = "running"
  /\ stage = "idle"
  /\ deskJob' = GivenBack
  /\ UNCHANGED <<tries, deskCrashes, stage, todo, repair, workVars, moneyVars>>

DeskInit ==
  /\ deskJob = "queued" /\ tries = 0 /\ deskCrashes = 0
  /\ stage = "idle" /\ todo = <<>> /\ repair = FALSE
  /\ catalog = {} /\ drafts = {} /\ audits = {} /\ survivors = {}
  /\ ranked = <<>> /\ challenged = 0 /\ passed = {} /\ accepted = {} /\ staged = {}
  /\ aborted = FALSE /\ errors = 0
  /\ spent = [l \in Ledger |-> 0] /\ paid = 0 /\ uncharged = 0

DeskNext ==
  \/ ClaimDesk \/ Collect \/ AskAgain
  \/ RoleAnswers \/ RoleFails \/ Compact
  \/ AuditAnswers \/ AuditFails \/ Rank
  \/ Unchallenged \/ ChallengeAnswered \/ ChallengeFails \/ ChallengeStumbles
  \/ Promotion \/ Promote \/ FinishDesk
  \/ DeskCrash \/ DeskReclaimed

DeskSpec == DeskInit /\ [][DeskNext]_deskVars

-----------------------------------------------------------------------------
\* Types; outside an attempt nothing is left of one.
DeskTypeOK ==
  /\ deskJob \in {"queued", "running", "succeeded", "failed_retryable", "failed_terminal"}
  /\ tries \in 0..MaxTries /\ deskCrashes \in 0..MaxDeskCrashes
  /\ stage \in DOMAIN LedgerOf \cup {"idle", "collect", "promote", "finish"}
  /\ repair \in BOOLEAN /\ aborted \in BOOLEAN
  /\ catalog \subseteq Item /\ drafts \subseteq Draft /\ survivors \subseteq drafts
  /\ {ToSet(ranked), passed, accepted, staged} \subseteq SUBSET drafts
  /\ challenged \in 0..MaxChallenges /\ errors \in Nat
  /\ spent \in [Ledger -> Nat] /\ paid \in Nat /\ uncharged \in 0..MaxUncharged
  /\ stage = "idle" => todo = <<>> /\ drafts = {} /\ accepted = {}

\* A candidate the cycle accepts (run_autonomous_thesis_cycle) cites only what
\* was collected; an answer of the auditor that is well formed as a whole calls
\* it entailed; it survived its challenge, and so did, when opposition is
\* required, a candidate of the other direction for the same exposure.
PromotionIsEarned ==
  \A d \in accepted :
    /\ d.refs \subseteq catalog
    /\ \E answer \in audits :
         ~answer.flawed /\ d \in DOMAIN answer.verdict /\ answer.verdict[d] = "entailed"
    /\ d \in passed
    /\ NeedsOpposition => \E e \in passed : Opposes(d, e)

\* The most an attempt is charged, in units of the smallest charge: the last
\* call of a ledger may cost more than is left of its share.
Ceiling(l) == IF Share[l] = 0 THEN 0 ELSE Share[l] - 1 + MaxPrice
AttemptCeiling == Ceiling("generation") + Ceiling("falsification")

\* Two calls for each role, batch of drafts and challenge.
AttemptCalls == 2 * (Len(Roles) + Len(Roles) * MaxPerRole + MaxChallenges)

\* What a job's ledgers are charged never exceeds the ceiling of an attempt times
\* the attempts begun, whatever fails and is asked again (_ModelBudget, one pair
\* of ledgers per attempt): a retry is charged anew, because the cycle forgets
\* its ledgers with the transaction that failed.  What the provider billed is
\* more by the calls that no ledger was charged for, which are bounded in number
\* only: no ledger stops them, the pieces of an attempt's work run out.
JobSpendingIsBounded ==
  /\ paid <= tries * AttemptCeiling
  /\ uncharged <= tries * AttemptCalls
=============================================================================
