--------------------------- MODULE LearningReview ---------------------------
(***************************************************************************)
(* Automatic grading of a student's writing (learning.js) and the queue of *)
(* what waits for it (learning-retry-queue.js): one student's answer to    *)
(* one activity.  The queue keeps one row for it; the grader takes the row *)
(* away, asks a service, and saves the review if nothing newer was written *)
(* meanwhile.  Other students appear as a full queue, a grader that cools  *)
(* down and a spent budget.                                                *)
(***************************************************************************)
EXTENDS Naturals

CONSTANTS
    Graders,     \* grading services that can be configured
    MaxEdits,    \* edits of the answer, a bound of the model
    MaxReplies   \* replies to classmates, a bound of the model

VARIABLES
    writing,    \* revision of the answer, and the newest scored reply
    pending,    \* row of learning_grading_pending
    review,     \* newest row of learning_reviews
    job,        \* the queued job that is being graded, and its await
    ai,         \* the configured grading service, or "off"
    accepted    \* history: the newest writing the Hub took for grading

vars == <<writing, pending, review, job, ai, accepted>>

(* A fingerprint is a hash of the snapshot: the revisions it was made of.  *)
Writings == [edit : 0..MaxEdits, reply : 0..MaxReplies]
None == [is |-> "none"]
Rows == [is : {"row"}, fp : Writings, attempts : 0..2, ready : BOOLEAN]
Statuses == {"grading", "needs_review", "approved", "unavailable", "superseded"}
Reviews == [is : {"review"}, fp : Writings, status : Statuses]
Jobs == [is : {"grading", "sync"}, fp : Writings, attempts : 0..2, ai : Graders, requeued : BOOLEAN]

TypeOK ==
    /\ writing \in Writings
    /\ pending \in Rows \cup {None}
    /\ review \in Reviews \cup {None}
    /\ job \in Jobs \cup {None}
    /\ ai \in Graders \cup {"off"}
    /\ accepted \in Writings \cup {None}

Init ==
    /\ writing = [edit |-> 0, reply |-> 0]
    /\ pending = None /\ review = None /\ job = None
    /\ ai \in Graders \cup {"off"}
    /\ accepted = None

------------------------------------------------------------------------------
(* The queue                                                               *)

Row(fp, attempts, ready) == [is |-> "row", fp |-> fp, attempts |-> attempts, ready |-> ready]

(* enqueue(): the row of an identical writing keeps its place; another one *)
(* is replaced; a student without a row may find the queue full.           *)
Enqueue(row, full) ==
    pending' = IF (pending = None /\ full) \/ (pending # None /\ pending.fp = row.fp)
               THEN pending ELSE row

Queued(fp) == pending' # None /\ pending'.fp = fp

(* remove(): only the row of this writing.                                 *)
Removed(fp) == IF pending # None /\ pending.fp = fp THEN None ELSE pending

Reviewed(r, fp) == r # None /\ r.fp = fp /\ r.status \in {"grading", "needs_review", "approved"}

Review(fp, status) == [is |-> "review", fp |-> fp, status |-> status]

------------------------------------------------------------------------------
(* Writing                                                                 *)

(* acceptWriting(): what has a review keeps it; with grading off a review  *)
(* for the teacher is made at once (submitWriting), unless its retry is    *)
(* already scheduled or the day's requests are spent (refused).            *)
Accept(w, r, refused) ==
    /\ IF Reviewed(r, w)
       THEN review' = r /\ UNCHANGED <<pending, accepted>>
       ELSE IF ai # "off"
            THEN /\ Enqueue(Row(w, 0, TRUE), refused)
                 /\ review' = r
                 /\ accepted' = IF Queued(w) THEN w ELSE accepted
            ELSE IF refused \/ (pending # None /\ pending.fp = w /\ ~pending.ready)
                 THEN review' = r /\ UNCHANGED <<pending, accepted>>
                 ELSE /\ review' = Review(w, "unavailable")
                      /\ pending' = Removed(w)
                      /\ accepted' = w
    /\ UNCHANGED <<job, ai>>

(* edit(): every review of the student is superseded.                      *)
Edit(refused) ==
    /\ writing.edit < MaxEdits
    /\ writing' = [writing EXCEPT !.edit = @ + 1]
    /\ Accept(writing', IF review = None THEN None ELSE [review EXCEPT !.status = "superseded"], refused)

(* post(): a newer reply is selected, the reviews stay as they are.        *)
Post(refused) ==
    /\ writing.reply < MaxReplies
    /\ writing' = [writing EXCEPT !.reply = @ + 1]
    /\ Accept(writing', review, refused)

Submit(refused) ==
    /\ Accept(writing, review, refused)
    /\ UNCHANGED writing

(* approve(): the teacher publishes a review of writing that is unchanged. *)
Approve ==
    /\ review # None /\ review.status \in {"needs_review", "unavailable", "approved"}
    /\ review.fp.edit = writing.edit
    /\ review' = [review EXCEPT !.status = "approved"]
    /\ UNCHANGED <<writing, pending, job, ai, accepted>>

Configure(service) ==
    /\ service # ai /\ ai' = service
    /\ UNCHANGED <<writing, pending, review, job, accepted>>

------------------------------------------------------------------------------
(* Grading                                                                 *)

(* The clock: the row's time has come.                                     *)
Due ==
    /\ pending # None /\ ~pending.ready
    /\ pending' = [pending EXCEPT !.ready = TRUE]
    /\ UNCHANGED <<writing, review, job, ai, accepted>>

(* drain() and submitWriting() before its await.  The row of an answer     *)
(* that was edited, or that has a review, is removed; it is postponed      *)
(* while the grader cools down or the budget is spent; otherwise it makes  *)
(* place for a review in progress.                                         *)
Drain(postponed) ==
    /\ ai # "off" /\ job = None /\ pending # None /\ pending.ready
    /\ IF pending.fp.edit # writing.edit \/ Reviewed(review, pending.fp)
       THEN pending' = None /\ UNCHANGED <<review, job>>
       ELSE IF postponed
            THEN pending' = [pending EXCEPT !.ready = FALSE] /\ UNCHANGED <<review, job>>
            ELSE /\ pending' = None
                 /\ review' = Review(pending.fp, "grading")
                 /\ job' = [is |-> "grading", fp |-> pending.fp, attempts |-> pending.attempts,
                            ai |-> ai, requeued |-> FALSE]
    /\ UNCHANGED <<writing, ai, accepted>>

Mine == review.fp = job.fp /\ review.status = "grading"

Settle(status) == review' = IF Mine THEN [review EXCEPT !.status = status] ELSE review

(* The service, the writing and the choice of reply are as they were.      *)
StillWanted ==
    /\ ai = job.ai
    /\ job.fp.edit = writing.edit
    /\ pending = None \/ pending.fp = job.fp

(* The service answered.  The outcome is published, or left to the         *)
(* teacher, if it is still wanted.                                         *)
Graded(status) ==
    /\ job.is = "grading"
    /\ Settle(IF StillWanted THEN status ELSE "unavailable")
    /\ job' = [job EXCEPT !.is = "sync"]
    /\ UNCHANGED <<writing, pending, ai, accepted>>

(* It did not: a temporary failure is queued again, twice at most.         *)
GradingFailed(retryable, full) ==
    /\ job.is = "grading"
    /\ Settle("unavailable")
    /\ IF retryable /\ job.attempts < 2 /\ ai # "off"
       THEN /\ Enqueue(Row(job.fp, job.attempts + 1, FALSE), full)
            /\ job' = [job EXCEPT !.is = "sync", !.requeued = pending # None \/ ~full]
       ELSE /\ job' = [job EXCEPT !.is = "sync"]
            /\ UNCHANGED pending
    /\ UNCHANGED <<writing, ai, accepted>>

(* The grade book has been told; the queue forgets what is done.           *)
Synced ==
    /\ job.is = "sync"
    /\ pending' = IF job.requeued THEN pending ELSE Removed(job.fp)
    /\ job' = None
    /\ UNCHANGED <<writing, review, ai, accepted>>

(* The process ends and starts: what was being graded is left to the       *)
(* teacher, what was not started stays queued.                             *)
Restart ==
    /\ job' = None
    /\ review' = IF review # None /\ review.status = "grading"
                 THEN [review EXCEPT !.status = "unavailable"] ELSE review
    /\ UNCHANGED <<writing, pending, ai, accepted>>

------------------------------------------------------------------------------
Request ==
    \/ \E refused \in BOOLEAN : Edit(refused) \/ Post(refused) \/ Submit(refused)
    \/ Approve
    \/ \E service \in Graders \cup {"off"} : Configure(service)

Step ==
    \/ \E status \in {"needs_review", "approved"} : Graded(status)
    \/ \E retryable, full \in BOOLEAN : GradingFailed(retryable, full)
    \/ Synced

Timer == \E postponed \in BOOLEAN : Drain(postponed)

Next == Request \/ Due \/ Timer \/ Step \/ Restart

Spec == Init /\ [][Next]_vars

------------------------------------------------------------------------------
(* Writing that the Hub took for automatic grading waits in the queue or   *)
(* has a review of its own: a newer revision replaces the row of an older  *)
(* one, never the other way round (acceptWriting, enqueue).                *)
AcceptedWritingIsKept ==
    accepted # None =>
        \/ pending # None /\ pending.fp = accepted
        \/ review # None /\ review.fp = accepted

(* A grade is given to the answer it was asked for: not after it was       *)
(* edited, and not while a newer choice of reply waits (submitWriting,     *)
(* approve).                                                               *)
GradesAreOfThisWriting ==
    [][review' # review /\ review'.status \in {"needs_review", "approved"} =>
          /\ review'.fp.edit = writing'.edit
          /\ job' # job => pending' = None \/ pending'.fp = review'.fp]_vars

==============================================================================
