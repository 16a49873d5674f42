------------------------ MODULE InvestmentDocuments ------------------------
(* Filings and uploads of companies and their analyses (investment_ingest,  *)
(* investment_filings, filing_deltas, investment_service).  A document is   *)
(* its content; the row of a document is claimed by its status, which has   *)
(* no lease, while the queue's job for it has one.  Each step of an         *)
(* analysis is a transaction of its own.                                    *)
EXTENDS Integers, FiniteSets

CONSTANTS
  Doc,          \* contents, of one company
  Newer(_, _),  \* the first was reported after the second
  Interim,      \* filed as annual reports, while their text says interim accounts
  Industry,
  Caller,       \* threads of the API
  Collector,    \* filing collections
  Replica,      \* workers of the analysis queue
  NoDoc, NoReplica,
  MaxAttempts,  \* max_attempts of a job
  MaxAnalyses,  \* bound on the analyses of a document
  MaxDocMishaps \* bound on deaths, lapsed leases and lost failure records

Actor == Caller \cup Collector \cup Replica
ASSUME DocumentAssumption ==
  /\ Interim \subseteq Doc /\ NoDoc \notin Doc /\ NoReplica \notin Replica
  /\ Caller \cap Collector = {} /\ (Caller \cup Collector) \cap Replica = {}
  /\ MaxAttempts \in Nat \ {0} /\ MaxAnalyses \in Nat /\ MaxDocMishaps \in Nat

VARIABLES
  document,    \* investment_documents
  analysis,    \* investment_analyses: [number, prior]; number 0: there is none
  observed,    \* the report's rows of investment_research_observations
  delta,       \* the document investment_filing_deltas compares with
  docJob,      \* the queue's job for a document: [state, attempts, owner]
  actor,       \* what an actor is at, and what it has read
  docMishaps

documentVars == <<document, analysis, observed, delta, docJob, actor, docMishaps>>
-----------------------------------------------------------------------------
NoRow == [status |-> "absent", text |-> FALSE, type |-> "annual", filing |-> FALSE,
          industry |-> "none"]
Resting == [step |-> "rest", doc |-> NoDoc, text |-> FALSE, type |-> "annual",
            filing |-> FALSE, prior |-> NoDoc]
DocumentType == {"annual", "quarterly", "other"}
\* _FINANCIAL_REPORT_TYPES; presentations, other filings and the rest are admitted too.
Reported  == {"annual", "quarterly"}
Analysing == {"prepare", "text", "model", "save"}
NoJobYet == [state |-> "none", attempts |-> 0, owner |-> NoReplica]

Moves(x, step) == actor' = [actor EXCEPT ![x].step = step]
Rests(x) == actor' = [actor EXCEPT ![x] = Resting]
\* How a call of analyze_document ends for the one who made it.
Returns(x, verdict) ==
  IF x \in Replica THEN Moves(x, verdict) ELSE Rests(x)
-----------------------------------------------------------------------------
(* Ingestion *)

\* store_document_path: the row of a content that is known is completed and
\* keeps its type.
Stored(d, text, filing, type) ==
  IF document[d].status = "absent"
  THEN [NoRow EXCEPT !.status = "ingested", !.text = text, !.filing = filing, !.type = type]
  ELSE [document[d] EXCEPT !.filing = @ \/ filing]

\* An upload keeps its file and leaves the extraction to the worker.
Upload(x, d, type) ==
  /\ x \in Caller /\ actor[x].step = "rest"
  /\ document' = [document EXCEPT ![d] = Stored(d, FALSE, FALSE, type)]
  /\ actor' = [actor EXCEPT ![x] = [Resting EXCEPT !.step = "enqueue", !.doc = d]]
  /\ UNCHANGED <<analysis, observed, delta, docJob, docMishaps>>

\* enqueue_investment_analysis: one active job for a document.
EnqueueAnalysis(x) ==
  /\ actor[x].step = "enqueue"
  /\ docJob' = IF docJob[actor[x].doc].state \in {"queued", "running"} THEN docJob
               ELSE [docJob EXCEPT ![actor[x].doc] = [NoJobYet EXCEPT !.state = "queued"]]
  /\ Rests(x)
  /\ UNCHANGED <<document, analysis, observed, delta, docMishaps>>

\* _already_ingested, before the filing is fetched.
CheckFiling(x, d) ==
  /\ x \in Collector /\ actor[x].step = "rest" /\ ~document[d].filing
  /\ actor' = [actor EXCEPT ![x] = [Resting EXCEPT !.step = "store", !.doc = d]]
  /\ UNCHANGED <<document, analysis, observed, delta, docJob, docMishaps>>

\* readable: a text could be extracted from what was fetched.
StoreFiling(x, readable, type) ==
  /\ actor[x].step = "store"
  /\ document' = [document EXCEPT ![actor[x].doc] = Stored(actor[x].doc, readable, TRUE, type)]
  /\ Moves(x, "delta")
  /\ UNCHANGED <<analysis, observed, delta, docJob, docMishaps>>

\* The fetch or the store fails: the next collection finds the filing again.
FailFiling(x) ==
  /\ actor[x].step = "store"
  /\ Rests(x)
  /\ UNCHANGED <<document, analysis, observed, delta, docJob, docMishaps>>

\* compute_filing_delta: the last report before this one that is stored as the
\* same type.
ComputeDelta(x) ==
  /\ actor[x].step = "delta"
  /\ LET d == actor[x].doc
         earlier == {e \in Doc : /\ Newer(d, e) /\ document[e].status # "absent"
                                 /\ document[e].type = document[d].type}
         last == {e \in earlier : \A f \in earlier : ~Newer(f, e)}
     IN  delta' = [delta EXCEPT ![d] = IF last = {} THEN NoDoc ELSE CHOOSE e \in last : TRUE]
  /\ Moves(x, "load")
  /\ UNCHANGED <<document, analysis, observed, docJob, docMishaps>>
\* What fails in it is logged and left.
SkipDelta(x) ==
  /\ actor[x].step = "delta"
  /\ Moves(x, "load")
  /\ UNCHANGED <<document, analysis, observed, delta, docJob, docMishaps>>
-----------------------------------------------------------------------------
(* The queue's job for a document *)

ClaimAnalysis(x, d) ==
  /\ x \in Replica /\ actor[x].step = "rest" /\ docJob[d].state = "queued"
  /\ docJob' = [docJob EXCEPT ![d] = [state |-> "running", attempts |-> @.attempts + 1, owner |-> x]]
  /\ actor' = [actor EXCEPT ![x] = [Resting EXCEPT !.step = "load", !.doc = d]]
  /\ UNCHANGED <<document, analysis, observed, delta, docMishaps>>

Requeued(j) == IF j.attempts < MaxAttempts THEN "queued" ELSE "failed"

\* succeed_job, or a retry or the terminal failure of the job.
ReportJob(x) ==
  /\ actor[x].step \in {"succeeded", "failed"}
  /\ LET d == actor[x].doc
     IN  docJob' = IF docJob[d].owner # x THEN docJob
                   ELSE [docJob EXCEPT ![d] =
                          [state |-> IF actor[x].step = "succeeded" THEN "done" ELSE Requeued(@),
                           attempts |-> @.attempts, owner |-> NoReplica]]
  /\ Rests(x)
  /\ UNCHANGED <<document, analysis, observed, delta, docMishaps>>

\* The lease runs out, with its owner alive or dead.
LapseLease(d) ==
  /\ docJob[d].state = "running"
  /\ \/ docMishaps < MaxDocMishaps /\ docMishaps' = docMishaps + 1
     \/ actor[docJob[d].owner].doc # d /\ docMishaps' = docMishaps
  /\ docJob' = [docJob EXCEPT ![d] = [state |-> Requeued(@), attempts |-> @.attempts,
                                       owner |-> NoReplica]]
  /\ UNCHANGED <<document, analysis, observed, delta, actor>>
-----------------------------------------------------------------------------
(* analyze_document *)

\* A call of the API for an analysis at once.
AnalyseNow(x, d) ==
  /\ x \in Caller /\ actor[x].step = "rest" /\ document[d].status # "absent"
  /\ actor' = [actor EXCEPT ![x] = [Resting EXCEPT !.step = "load", !.doc = d]]
  /\ UNCHANGED <<document, analysis, observed, delta, docJob, docMishaps>>

\* The row is read before it is claimed.
LoadDocument(x) ==
  /\ actor[x].step = "load"
  /\ LET d == actor[x].doc
     IN  actor' = [actor EXCEPT ![x] =
           [step |-> "claim", doc |-> d, text |-> document[d].text, type |-> document[d].type,
            filing |-> document[d].filing, prior |-> NoDoc]]
  /\ UNCHANGED <<document, analysis, observed, delta, docJob, docMishaps>>

\* Fault: a document that is being analysed may be claimed.
ClaimAnyway(x) ==
  /\ actor[x].step = "claim"
  /\ document' = [document EXCEPT ![actor[x].doc].status = "analyzing"]
  /\ Moves(x, "prepare")
  /\ UNCHANGED <<analysis, observed, delta, docJob, docMishaps>>

ClaimDocument(x) ==
  /\ actor[x].step = "claim" /\ document[actor[x].doc].status # "analyzing"
  /\ analysis[actor[x].doc].number < MaxAnalyses
  /\ document' = [document EXCEPT ![actor[x].doc].status = "analyzing"]
  /\ Moves(x, "prepare")
  /\ UNCHANGED <<analysis, observed, delta, docJob, docMishaps>>

\* AnalysisInProgress, which leaves the row alone.
RefuseAnalysis(x) ==
  /\ actor[x].step = "claim"
  /\ \/ document[actor[x].doc].status = "analyzing"
     \/ analysis[actor[x].doc].number = MaxAnalyses
  /\ Returns(x, "failed")
  /\ UNCHANGED <<document, analysis, observed, delta, docJob, docMishaps>>

\* _ensure_extracted_text; with a text, _correct_interim_document_type retypes
\* the document and drops its observations.
PrepareText(x, readable) ==
  /\ actor[x].step = "prepare"
  /\ LET d == actor[x].doc
         corrected == /\ actor[x].text \/ readable
                      /\ d \in Interim /\ actor[x].filing /\ actor[x].type = "annual"
     IN  /\ document' = IF corrected THEN [document EXCEPT ![d].type = "quarterly"] ELSE document
         /\ observed' = IF corrected THEN [observed EXCEPT ![d] = {}] ELSE observed
  /\ Moves(x, IF ~actor[x].text /\ readable THEN "text" ELSE "model")
  /\ UNCHANGED <<analysis, delta, docJob, docMishaps>>

StoreText(x) ==
  /\ actor[x].step = "text"
  /\ document' = [document EXCEPT ![actor[x].doc].text = TRUE]
  /\ Moves(x, "model")
  /\ UNCHANGED <<analysis, observed, delta, docJob, docMishaps>>

\* The model has answered; _previous_analysis looks for what to compare with.
ReadPrevious(x) ==
  /\ actor[x].step = "model"
  /\ LET d == actor[x].doc
         earlier == {e \in Doc : Newer(d, e) /\ analysis[e].number > 0}
         last == {e \in earlier : \A f \in earlier : ~Newer(f, e)}
     IN  actor' = [actor EXCEPT ![x].step = "save",
                                ![x].prior = IF last = {} THEN NoDoc ELSE CHOOSE e \in last : TRUE]
  /\ UNCHANGED <<document, analysis, observed, delta, docJob, docMishaps>>

\* upsert_report_observation: one row per financial report, of the industry of
\* the day; what is told of any other document is not observed.
Observe(rows, type, industry, number) ==
  IF type \in Reported THEN {[industry |-> industry, number |-> number]} ELSE rows

\* One transaction: the analysis, the status, the observation.  (The read of the
\* answer that follows it is taken to succeed.)
SaveAnalysis(x, industry) ==
  /\ actor[x].step = "save"
  /\ LET d == actor[x].doc
         number == analysis[d].number + 1
     IN  /\ analysis' = [analysis EXCEPT ![d] = [number |-> number, prior |-> actor[x].prior]]
         /\ document' = [document EXCEPT ![d].status = "analyzed", ![d].industry = industry]
         /\ observed' = [observed EXCEPT ![d] = Observe(@, actor[x].type, industry, number)]
  /\ Returns(x, "succeeded")
  /\ UNCHANGED <<delta, docJob, docMishaps>>

\* Fault: the failure is raised and not recorded.
RaiseOnly(x) ==
  /\ actor[x].step \in Analysing
  /\ Returns(x, "failed")
  /\ UNCHANGED <<document, analysis, observed, delta, docJob, docMishaps>>

FailAnalysis(x) ==
  /\ actor[x].step \in Analysing
  /\ document' = [document EXCEPT ![actor[x].doc].status = "failed"]
  /\ Returns(x, "failed")
  /\ UNCHANGED <<analysis, observed, delta, docJob, docMishaps>>

\* The transaction that records the failure fails itself.
LoseRecord(x) ==
  /\ actor[x].step \in Analysing /\ docMishaps < MaxDocMishaps
  /\ docMishaps' = docMishaps + 1
  /\ Returns(x, "failed")
  /\ UNCHANGED <<document, analysis, observed, delta, docJob>>

\* The actor dies: nobody takes its claim of the document back.
LoseActor(x) ==
  /\ actor[x].step # "rest" /\ docMishaps < MaxDocMishaps
  /\ docMishaps' = docMishaps + 1
  /\ Rests(x)
  /\ UNCHANGED <<document, analysis, observed, delta, docJob>>
-----------------------------------------------------------------------------
DocumentInit ==
  /\ document = [d \in Doc |-> NoRow]
  /\ analysis = [d \in Doc |-> [number |-> 0, prior |-> NoDoc]]
  /\ observed = [d \in Doc |-> {}]
  /\ delta = [d \in Doc |-> NoDoc]
  /\ docJob = [d \in Doc |-> NoJobYet]
  /\ actor = [x \in Actor |-> Resting]
  /\ docMishaps = 0

GoOn(x) ==
  \/ EnqueueAnalysis(x) \/ FailFiling(x) \/ ComputeDelta(x) \/ SkipDelta(x) \/ ReportJob(x)
  \/ LoadDocument(x) \/ ClaimDocument(x) \/ RefuseAnalysis(x) \/ StoreText(x)
  \/ ReadPrevious(x) \/ FailAnalysis(x)
  \/ \E readable \in BOOLEAN, type \in DocumentType : StoreFiling(x, readable, type)
  \/ \E readable \in BOOLEAN : PrepareText(x, readable)
  \/ \E industry \in Industry : SaveAnalysis(x, industry)

DocumentNext ==
  \/ \E x \in Actor : GoOn(x) \/ LoseRecord(x) \/ LoseActor(x)
  \/ \E x \in Actor, d \in Doc :
       \/ CheckFiling(x, d) \/ ClaimAnalysis(x, d) \/ AnalyseNow(x, d)
       \/ \E type \in DocumentType : Upload(x, d, type)
  \/ \E d \in Doc : LapseLease(d)

DocumentSpec == DocumentInit /\ [][DocumentNext]_documentVars
-----------------------------------------------------------------------------
(* Properties *)

Steps == {"rest", "enqueue", "store", "delta", "load", "claim", "succeeded", "failed"} \cup Analysing
DocumentRow == [status: {"absent", "ingested", "analyzing", "analyzed", "failed"}, text: BOOLEAN,
                type: DocumentType, filing: BOOLEAN, industry: Industry \cup {"none"}]
ActorState == [step: Steps, doc: Doc \cup {NoDoc}, text: BOOLEAN, type: DocumentType,
               filing: BOOLEAN, prior: Doc \cup {NoDoc}]

DocumentTypeOK ==
  /\ document \in [Doc -> DocumentRow]
  /\ analysis \in [Doc -> [number: Nat, prior: Doc \cup {NoDoc}]]
  /\ observed \in [Doc -> SUBSET [industry: Industry, number: Nat]]
  /\ delta \in [Doc -> Doc \cup {NoDoc}]
  /\ docJob \in [Doc -> [state: {"none", "queued", "running", "done", "failed"},
                         attempts: Nat, owner: Replica \cup {NoReplica}]]
  /\ actor \in [Actor -> ActorState]
  /\ docMishaps \in 0..MaxDocMishaps

\* A document that says analyzed has its analysis and, if it is a financial
\* report, one observation, which is of that analysis and of the document's
\* industry, although an analysis drops observations before it knows whether it
\* will succeed and goes by the type it has read before its claim; a document of
\* another type has none.
AnalysedIsObserved ==
  \A d \in Doc :
    document[d].status = "analyzed"
    => /\ analysis[d].number > 0
       /\ observed[d] =
            IF document[d].type \in Reported
            THEN {[industry |-> document[d].industry, number |-> analysis[d].number]} ELSE {}

\* A document is claimed as long as somebody analyses it, and by one only: a
\* claim is left behind by nothing but the mishaps the code cannot answer.
ClaimHasItsAnalysis ==
  \A d \in Doc :
    LET analysing == {x \in Actor : actor[x].doc = d /\ actor[x].step \in Analysing}
    IN  /\ \A x, y \in analysing : x = y
        /\ analysing # {} => document[d].status = "analyzing"
        /\ document[d].status = "analyzing" => analysing # {} \/ docMishaps > 0
=============================================================================
