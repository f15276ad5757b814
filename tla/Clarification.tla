--------------------------- MODULE Clarification ---------------------------
(***************************************************************************)
(* The one public write of the licence work:                               *)
(* scripts/run-sw-g2-mls-rs-license-upstream-clarification.py.             *)
(*                                                                         *)
(* A creator asks four questions of the GitHub API, records that it is     *)
(* about to write, posts one issue and publishes what happened; a reader,  *)
(* given the run of a creator that succeeded, collects the answers.  Each  *)
(* works in a hidden partial directory, writes a manifest and checksums,   *)
(* renames the directory to its final name and validates it there.  Either *)
(* may be killed between any two steps, any answer may be lost, and a lost *)
(* POST may still create the issue later.  That load_github_token finds no *)
(* token before the first request (line 778) is left out: such a run has   *)
(* asked nothing and stops.                                                *)
(*                                                                         *)
(* validate_api_result (line 746) refuses every body that starts with a    *)
(* brace or a bracket, which is every JSON body, where its message speaks  *)
(* of an empty or HTML-like one.  ScreenAsWritten is TRUE for the line as  *)
(* it is, and no run then gets past its first answer; FALSE is the line    *)
(* its message describes, under which the rest of the protocol is checked. *)
(***************************************************************************)
EXTENDS Naturals, Sequences

CONSTANTS
    ScreenAsWritten,   \* see above
    MaxCommits         \* at most 3 commits referenced by comments are read

ASSUME ClarificationAssumption == ScreenAsWritten \in BOOLEAN /\ MaxCommits \in Nat

VARIABLES
    proc,      \* each run's process: where it is, its NetworkBudget, its outcome
    disk,      \* each run's evidence directory
    server     \* GitHub: POSTs received, whether the issue exists, or still may

clarificationVars == <<proc, disk, server>>

Runs == {"create", "read"}

\* CREATE_REQUEST_LIMIT and READ_REQUEST_LIMIT
RequestLimit == [create |-> 20, read |-> 10]

NoManifest == [stage |-> "none"]

ClarificationInit ==
    /\ proc = [r \in Runs |-> [at |-> "idle", requests |-> 0, posts |-> 0, records |-> 0, late |-> FALSE,
                               account |-> FALSE, issue |-> FALSE, paged |-> FALSE, commits |-> 0,
                               stage |-> "none"]]
    /\ disk = [r \in Runs |-> [name |-> "none", observed |-> 0, observedPost |-> FALSE, intent |-> FALSE,
                               manifest |-> NoManifest, sums |-> FALSE]]
    /\ server = [posts |-> 0, issue |-> FALSE, pending |-> FALSE]

(***************************************************************************)
(* What validate_evidence accepts.                                         *)
(***************************************************************************)
\* validate_network
NetworkValid(r, m) ==
    /\ m.requests <= RequestLimit[r]
    /\ m.posts <= (IF r = "create" THEN 1 ELSE 0)
    /\ m.records <= m.requests

\* validate_observations
ObservationsValid(r, m) ==
    /\ disk[r].observed = m.records
    /\ disk[r].observedPost => m.posts = 1
    /\ m.records = m.requests => (disk[r].observedPost <=> m.posts = 1)
    /\ m.posts = 1 => disk[r].intent

\* validate_manifest, mode issue-create: what each stage has to agree with.
StageValid(m) ==
    CASE m.stage = "issue-created" ->
            m.account /\ m.posts = 1 /\ m.issue /\ m.records = m.requests
      [] m.stage = "ambiguous-external-write" ->
            m.account /\ m.posts = 1 /\ ~m.issue /\ m.records < m.requests
      [] m.stage = "external-write-rejected" ->
            m.account /\ m.posts = 1 /\ ~m.issue /\ m.records = m.requests
      [] m.stage \in {"preflight", "evidence-contract"} -> m.posts = 0 /\ ~m.issue
      [] OTHER -> FALSE

\* validate_manifest, mode response-read.
ReadStageValid(m) ==
    /\ m.stage \in {"awaiting-upstream", "response-collected", "evidence-limit", "evidence-contract"}
    /\ m.stage \in {"awaiting-upstream", "response-collected"} => m.account
    /\ m.paged => m.stage = "evidence-limit"

ManifestValid(r) ==
    LET m == disk[r].manifest
    IN  /\ m # NoManifest /\ disk[r].sums
        /\ ~m.late
        /\ NetworkValid(r, m) /\ ObservationsValid(r, m)
        /\ IF r = "create" THEN StageValid(m) ELSE ReadStageValid(m)

\* A reader's source has to be valid, and to have created the issue.
SourceValid == ManifestValid("create") /\ disk["create"].manifest.stage = "issue-created"

Valid(r) == ManifestValid(r) /\ (r = "read" => SourceValid)

(***************************************************************************)
(* A run, up to the POST.                                                  *)
(***************************************************************************)
\* The questions of each run in the order they are asked.
Questions == [create |-> <<"user", "repository", "commit", "search">>,
              read |-> <<"user", "issue", "comments", "events", "commits">>]

Following(r, q) ==
    LET n == CHOOSE i \in DOMAIN Questions[r] : Questions[r][i] = q
    IN  IF n < Len(Questions[r]) THEN Questions[r][n + 1]
        ELSE IF r = "create" THEN "intent" ELSE "answered"

\* The exceptions that end a run, as the stage its manifest will name.
StageAfter(p, r, error) ==
    CASE r = "create" /\ error = "ambiguous" -> "ambiguous-external-write"
      [] r = "create" /\ error = "stop" -> IF p.posts = 1 THEN "external-write-rejected" ELSE "preflight"
      [] r = "read" /\ error = "stop" -> "evidence-limit"
      [] OTHER -> "evidence-contract"

Raise(p, r, error) == [p EXCEPT !.at = "manifest", !.stage = StageAfter(p, r, error)]

\* local_preflight and the partial directory; a reader needs a source.
RunBegins(r) ==
    /\ proc[r].at = "idle"
    /\ r = "read" => disk["create"].name = "final" /\ Valid("create") /\ SourceValid
    /\ proc' = [proc EXCEPT ![r].at = "user"]
    /\ disk' = [disk EXCEPT ![r].name = "partial"]
    /\ UNCHANGED server

\* NetworkBudget.begin refuses a request after DEADLINE_SECONDS or past the limit.
Spent(p, r) == p.late \/ p.requests >= RequestLimit[r]

\* The deadline passes.
Late(r) ==
    /\ proc[r].at \notin {"idle", "ended", "dead"} /\ ~proc[r].late
    /\ proc' = [proc EXCEPT ![r].late = TRUE]
    /\ UNCHANGED <<disk, server>>

\* validate_api_result for a body that is JSON: line 746 refuses it.
Readable == ~ScreenAsWritten

\* What the run makes of an answer it could read.  A creator stops where Issues
\* are unavailable or one like its own exists; what differs from the frozen
\* identities is invalid.
CreateVerdict ==
    [user |-> {"ok", "invalid"}, repository |-> {"ok", "stop", "invalid"},
     commit |-> {"ok", "invalid"}, search |-> {"ok", "stop", "invalid"}]

\* A reader takes comments and events together: it stops where they refer to
\* too many commits.
ReadVerdict ==
    [user |-> {"ok", "invalid"}, issue |-> {"ok", "invalid"}, comments |-> {"ok"},
     events |-> {"ok", "stop", "invalid"}, commits |-> {"ok", "invalid"}]

Verdict(r) == IF r = "create" THEN CreateVerdict ELSE ReadVerdict

\* A GET whose answer is lost or too large.
GetUnanswered(r) ==
    /\ proc[r].at \in {Questions[r][i] : i \in DOMAIN Questions[r]}
    /\ LET p == proc[r]
           asked == IF Spent(p, r) THEN p ELSE [p EXCEPT !.requests = @ + 1]
       IN  proc' = [proc EXCEPT ![r] = Raise(asked, r, "stop")]
    /\ UNCHANGED <<disk, server>>

\* A GET that is answered.  The account's answer is filtered, and therefore
\* screened and refused if it is no object, before it is recorded, every other
\* one after.
GetAnswered(r) ==
    /\ proc[r].at \in {Questions[r][i] : i \in DOMAIN Questions[r]}
    /\ ~Spent(proc[r], r)
    /\ \E json, recorded, more \in BOOLEAN, verdict \in Verdict(r)[proc[r].at] :
          LET q == proc[r].at
              asked == [proc[r] EXCEPT !.requests = @ + 1, !.records = @ + 1]
              read == json /\ Readable
              next == [asked EXCEPT
                         !.account = @ \/ q = "user",
                         !.paged = @ \/ (q = "events" /\ more),
                         !.commits = IF q = "commits" THEN @ + 1 ELSE @,
                         !.at = IF q = "commits" /\ more /\ asked.commits + 1 < MaxCommits THEN "commits"
                                ELSE Following(r, q)]
          IN  IF q = "user" /\ (~read \/ (verdict = "invalid" /\ ~recorded)) THEN
                  /\ proc' = [proc EXCEPT ![r] = Raise(asked, r, IF read THEN "invalid" ELSE "stop")]
                  /\ UNCHANGED disk
              ELSE IF ~recorded THEN
                  /\ proc' = [proc EXCEPT ![r] = Raise([asked EXCEPT !.records = @ - 1], r, "invalid")]
                  /\ UNCHANGED disk
              ELSE
                  /\ disk' = [disk EXCEPT ![r].observed = @ + 1]
                  /\ proc' = [proc EXCEPT ![r] =
                        IF ~read THEN Raise(asked, r, "stop")
                        ELSE IF verdict # "ok" THEN Raise(asked, r, verdict)
                        ELSE next]
    /\ UNCHANGED server

\* The comments name no commit, or no further one; the reader's stage.
ReadEnds ==
    /\ proc["read"].at \in {"commits", "answered"}
    /\ \E comments \in BOOLEAN :
          proc' = [proc EXCEPT !["read"].at = "manifest",
                               !["read"].stage = IF proc["read"].paged THEN "evidence-limit"
                                                 ELSE IF comments THEN "response-collected"
                                                 ELSE "awaiting-upstream"]
    /\ UNCHANGED <<disk, server>>

(***************************************************************************)
(* The POST.                                                               *)
(***************************************************************************)
\* Mutant: the intent is recorded with the answer.
PostIntent_later ==
    /\ proc["create"].at = "intent"
    /\ proc' = [proc EXCEPT !["create"].at = "post"]
    /\ UNCHANGED <<disk, server>>

\* post_intent: durable before the request is begun.
PostIntent ==
    /\ proc["create"].at = "intent"
    /\ proc' = [proc EXCEPT !["create"].at = "post"]
    /\ disk' = [disk EXCEPT !["create"].intent = TRUE]
    /\ UNCHANGED server

\* budget.begin may still refuse, with the intent recorded and nothing sent.
PostRefused ==
    /\ proc["create"].at = "post"
    /\ Spent(proc["create"], "create")
    /\ proc' = [proc EXCEPT !["create"] = Raise(@, "create", "stop")]
    /\ UNCHANGED <<disk, server>>

\* The request leaves; GitHub creates the issue now, later or not at all.
PostSend ==
    /\ proc["create"].at = "post"
    /\ ~Spent(proc["create"], "create")
    /\ proc' = [proc EXCEPT !["create"].requests = @ + 1, !["create"].posts = @ + 1, !["create"].at = "posted"]
    /\ \E effect \in {"now", "later", "never"} :
          server' = [posts |-> server.posts + 1, issue |-> effect = "now", pending |-> effect = "later"]
    /\ UNCHANGED disk

IssueAppears ==
    /\ server.pending
    /\ server' = [server EXCEPT !.issue = TRUE, !.pending = FALSE]
    /\ UNCHANGED <<proc, disk>>

\* No answer, one that is too large, or one that could not be recorded.
PostUnanswered ==
    /\ proc["create"].at = "posted"
    /\ proc' = [proc EXCEPT !["create"] = Raise(@, "create", "ambiguous")]
    /\ UNCHANGED <<disk, server>>

\* parse_created_issue: any status but 201 and the five refusals.
Uncertain(status) == status = "other"

\* parse_created_issue, issue_from_response and validate_issue.  GitHub
\* answers 201 only for an issue it created and a refusal only for one it did
\* not and will not create.
PostAnswered ==
    /\ proc["create"].at = "posted"
    /\ \E status \in {"created", "refused", "other"}, answer \in {"exact", "different", "unaccepted"} :
          /\ status = "created" => server.issue
          /\ status = "refused" => ~server.issue /\ ~server.pending
          /\ LET got == [proc["create"] EXCEPT !.records = @ + 1]
             IN  proc' = [proc EXCEPT !["create"] =
                    IF status # "created"
                    THEN Raise(got, "create", IF Uncertain(status) THEN "ambiguous" ELSE "stop")
                    ELSE IF ~Readable \/ answer = "different" THEN Raise(got, "create", "ambiguous")
                    ELSE IF answer = "unaccepted" THEN Raise(got, "create", "invalid")
                    ELSE [got EXCEPT !.issue = TRUE, !.stage = "issue-created", !.at = "manifest"]]
    /\ disk' = [disk EXCEPT !["create"].observed = @ + 1, !["create"].observedPost = TRUE]
    /\ UNCHANGED server

(***************************************************************************)
(* finalize_directory.                                                     *)
(***************************************************************************)
\* base_manifest: the elapsed time is taken here.
WriteManifest(r) ==
    /\ proc[r].at = "manifest"
    /\ LET p == proc[r]
       IN  disk' = [disk EXCEPT ![r].manifest =
              [stage |-> p.stage, requests |-> p.requests, posts |-> p.posts, records |-> p.records,
               late |-> p.late, account |-> p.account, issue |-> p.issue, paged |-> p.paged]]
    /\ proc' = [proc EXCEPT ![r].at = "sums"]
    /\ UNCHANGED server

\* Suspected credentials or too much evidence: the partial directory stays.
Withheld(r) ==
    /\ proc[r].at = "sums"
    /\ proc' = [proc EXCEPT ![r].at = "ended"]
    /\ UNCHANGED <<disk, server>>

WriteSums(r) ==
    /\ proc[r].at = "sums"
    /\ proc' = [proc EXCEPT ![r].at = "publish"]
    /\ disk' = [disk EXCEPT ![r].sums = TRUE]
    /\ UNCHANGED server

\* os.replace, and validate_evidence, which can no longer undo it.
Publish(r) ==
    /\ proc[r].at = "publish"
    /\ proc' = [proc EXCEPT ![r].at = "ended"]
    /\ disk' = [disk EXCEPT ![r].name = "final"]
    /\ UNCHANGED server

RunDies(r) ==
    /\ proc[r].at \notin {"idle", "ended", "dead"}
    /\ proc' = [proc EXCEPT ![r].at = "dead"]
    /\ UNCHANGED <<disk, server>>

----------------------------------------------------------------------------
ClarificationNext ==
    \/ \E r \in Runs :
          \/ RunBegins(r) \/ Late(r) \/ GetUnanswered(r) \/ GetAnswered(r)
          \/ WriteManifest(r) \/ Withheld(r) \/ WriteSums(r) \/ Publish(r) \/ RunDies(r)
    \/ ReadEnds
    \/ PostIntent \/ PostRefused \/ PostSend \/ PostUnanswered \/ PostAnswered \/ IssueAppears

ClarificationSpec == ClarificationInit /\ [][ClarificationNext]_clarificationVars

----------------------------------------------------------------------------
(***************************************************************************)
(* Properties.                                                             *)
(***************************************************************************)

\* The evidence tells the truth about the one public write.  At every instant,
\* a crash included, a POST that was sent has its durable intent.  Evidence that
\* validates agrees with GitHub: a stage that claims no write means no POST was
\* sent, a rejection that no issue exists or will, a created issue that it
\* exists; and what a reader publishes is about an issue that exists.
EvidenceTruth ==
    /\ server.posts > 0 => disk["create"].intent
    /\ disk["create"].name = "final" /\ Valid("create") =>
          LET stage == disk["create"].manifest.stage
          IN  /\ stage \in {"preflight", "evidence-contract"} => server.posts = 0
              /\ stage = "external-write-rejected" => ~server.issue /\ ~server.pending
              /\ stage = "issue-created" => server.issue
    /\ disk["read"].name = "final" /\ Valid("read") => server.issue

\* main prints "INVALID before R1d-U-X network/evidence" (and the same for
\* R1d-U-R) when a run raises InvalidClarification: evidence under a final name
\* that its own validation refuses belongs to a run that asked nothing.
RefusalComesFirst ==
    \A r \in Runs : disk[r].name = "final" /\ ~Valid(r) => proc[r].requests = 0

=============================================================================
