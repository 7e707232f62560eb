------------------------------ MODULE WikiReview ------------------------------
(***************************************************************************)
(* The review of a succeeded build (internal/knowledge/wiki_review.go,     *)
(* wiki_review_repo.go): which pages a reviewer sees, what its answers     *)
(* amount to, and what several reviews of one build leave on its row.      *)
(* They may run at the same time; the row lock of RecordReviewResult puts  *)
(* them in an order, which is that of the sequence here.                   *)
(***************************************************************************)
EXTENDS Naturals, Sequences, FiniteSets

CONSTANTS
  Paths,   \* page paths, numbers in their order
  Docs,    \* documents
  Models,  \* models that compile or review
  None     \* no model

\* A page cites each document once; a build writes all its pages or, if it is an
\* increment, some.
Pages == [generated : BOOLEAN, cites : SUBSET Docs, written : BOOLEAN]

\* A reviewer's answer about a page: one that can be parsed, and what it lists.
Answers == [ok : BOOLEAN, findings : SUBSET {"usable", "unusable"}]

\* auto: the review after the commit; the others are ReviewBuild's.  same: the
\* reviewer is configured as the same model as today's compiler.
Reviews == [auto : BOOLEAN, reviewer : Models \cup {None}, same : BOOLEAN,
            limit : Nat, answers : [Paths -> Answers]]

\* A build, the reviewer that was configured when it was queued, which may be its
\* compiler or nobody, and the reviews it gets.
Inputs == [pages : [Paths -> Pages], docs : SUBSET Docs, compiler : Models,
           configured : Models \cup {None}, succeeded : BOOLEAN, reviews : Seq(Reviews)]

-----------------------------------------------------------------------------
\* reviewSkipReason.
Skips(x, r) == r.reviewer = None \/ r.reviewer = x.compiler \/ r.same

\* reviewablePages.
Eligible(x, r) ==
  {p \in Paths : ~x.pages[p].generated /\ (r.auto => x.pages[p].written)}

Before(x, p, q) ==
  LET m == Cardinality(x.pages[p].cites)
      n == Cardinality(x.pages[q].cites)
  IN m > n \/ (m = n /\ p < q)

\* runReview stops at reviewPageLimit.
Examined(x, r) ==
  LET E == Eligible(x, r)
  IN {p \in E : Cardinality({q \in E : Before(x, q, p)}) < r.limit}

\* The sources of buildReviewPrompt; a page none of whose sources could be loaded
\* is not shown to the reviewer.
Sources(x, p) == x.pages[p].cites \cap x.docs
Sourced(x, p) == x.pages[p].cites = {} \/ Sources(x, p) # {}

\* Mutant: findings that cannot be used are passed over.
AnsweredAll(x, r) == {p \in Examined(x, r) : Sourced(x, p) /\ r.answers[p].ok}

\* reviewOnePage: the call, parseReviewOutput, and findings to make sense of.
Answered(x, r) ==
  {p \in Examined(x, r) :
     /\ Sourced(x, p) /\ r.answers[p].ok
     /\ r.answers[p].findings # {} => "usable" \in r.answers[p].findings}

Found(x, r) == {p \in Answered(x, r) : "usable" \in r.answers[p].findings}

\* reviewOutcome.
Outcome(eligible, succeeded, found) ==
  CASE eligible = 0 -> "skipped"
    [] eligible # 0 /\ succeeded = 0 -> "failed"
    [] succeeded # 0 /\ found # 0 -> "flagged"
    [] succeeded # 0 /\ found = 0 /\ succeeded < eligible -> "partial"
    [] succeeded # 0 /\ found = 0 /\ succeeded >= eligible -> "clean"

\* runReview.
Result(x, r) ==
  IF Skips(x, r)
  THEN [status |-> "skipped", findings |-> {}, examined |-> 0, total |-> 0,
        reviewer |-> None]
  ELSE [status |-> Outcome(Cardinality(Eligible(x, r)), Cardinality(Answered(x, r)),
                           Cardinality(Found(x, r))),
        findings |-> Found(x, r), examined |-> Cardinality(Answered(x, r)),
        total |-> Cardinality(Eligible(x, r)), reviewer |-> r.reviewer]

\* CreateBuild: a new row has the reviewer of its enqueue, whoever reviews it later.
Unreviewed(x) == [status |-> "skipped", findings |-> {}, examined |-> 0, total |-> 0,
                  reviewer |-> x.configured]

\* RecordReviewResult: a skip keeps the findings and the reviewer, not the rest.
RecordReviewResult(row, s) ==
  [s EXCEPT !.findings = IF s.status = "skipped" THEN row.findings \cup @ ELSE @,
            !.reviewer = IF @ = None THEN row.reviewer ELSE @]

\* ReviewBuild refuses a build that has not succeeded.
Runs(x, r) == r.auto \/ x.succeeded

\* The row after the first n reviews.
Rows(x) ==
  LET row[n \in 0 .. Len(x.reviews)] ==
        IF n = 0 THEN Unreviewed(x)
        ELSE IF Runs(x, x.reviews[n])
             THEN RecordReviewResult(row[n - 1], Result(x, x.reviews[n]))
             ELSE row[n - 1]
  IN row

-----------------------------------------------------------------------------
\* An answer that says the page is faithful, after the reviewer saw a source.
Passed(x, r, p) == Sourced(x, p) /\ r.answers[p].ok /\ r.answers[p].findings = {}

Concluded(x, n) == Runs(x, x.reviews[n]) /\ Result(x, x.reviews[n]).status # "skipped"

\* "A status may never claim more coverage than review achieved": a clean build was
\* passed page by page, all of its content if the review was asked for; a verdict is of
\* a model that did not write the pages; findings are one review's, the last that came
\* to a verdict, and none is lost to a review that could not run.  (The status is: a
\* skip replaces it, and it keeps the reviewer of the enqueue, the compiler or not.)
VerdictIsEarned(x) ==
  \A n \in 1 .. Len(x.reviews) :
    LET row == Rows(x)[n]
        r   == x.reviews[n]
        C   == {m \in 1 .. n : Concluded(x, m)}
    IN /\ Runs(x, r) /\ row.status = "clean" =>
            \A p \in Paths : ~x.pages[p].generated /\ (r.auto => x.pages[p].written)
                               => Passed(x, r, p)
       /\ row.status = "flagged" => row.findings # {}
       /\ row.status \in {"clean", "partial", "failed"} => row.findings = {}
       /\ row.status # "skipped" => row.reviewer \notin {None, x.compiler}
       /\ \A m \in C : (\A k \in C : k <= m) =>
            row.findings = {p \in Answered(x, x.reviews[m]) :
                              x.reviews[m].answers[p].findings # {}}
       /\ C = {} => row.findings = {}
=============================================================================
