--------------------------- MODULE LicenseReview ---------------------------
(***************************************************************************)
(* One collection of licence evidence:                                     *)
(* scripts/run-sw-g2-mls-rs-license-review.py, action collect.             *)
(*                                                                         *)
(* For every pinned commit the run fetches the commit, its tree, the       *)
(* manifests and licence files its packages need and the files those       *)
(* manifests refer to, each once and without retry; it then maps every     *)
(* package to the licence texts found in its own files.  What it has, also *)
(* after a failure, goes into a manifest that is validated before the      *)
(* directory is renamed to its final name.  The process may be killed      *)
(* between any two steps, and the 600 seconds may run out at any time.     *)
(*                                                                         *)
(* A file is its URL: the kind of object, the commit and the path.         *)
(***************************************************************************)
EXTENDS Naturals, Sequences

CONSTANTS
    Commits,        \* COMMITS, in order
    PackagesAt,     \* the packages pinned to each commit
    Initial,        \* the manifests and licence candidates of each package
    References,     \* what each package's manifest refers to beside those
    Declared,       \* the licences of each package's SPDX expression
    Texts,          \* what a fetched file may turn out to hold, by path
    HttpLimit       \* REQUEST_LIMIT

\* COMMITS is not empty, and every package is pinned to one commit.
ASSUME ReviewAssumption ==
    /\ Commits \in Seq(DOMAIN PackagesAt)
    /\ Commits # <<>>
    /\ \A i, j \in DOMAIN Commits :
          i # j => PackagesAt[Commits[i]] \cap PackagesAt[Commits[j]] = {}
    /\ HttpLimit \in Nat

VARIABLES
    review,     \* where collect is, and the outcome it has reached
    session,    \* HttpSession
    evidence    \* the run's directory, and the records it will be judged by

reviewVars == <<review, session, evidence>>

Packages == UNION {PackagesAt[Commits[i]] : i \in DOMAIN Commits}

ReviewInit ==
    /\ review = [at |-> "preflight", n |-> 1, todo |-> {}, outcome |-> "none", late |-> FALSE]
    /\ session = [requests |-> 0, listed |-> 0, answered |-> {}]
    /\ evidence = [name |-> "none", files |-> {}, commits |-> {}, texts |-> << >>, mapped |-> << >>,
                   manifest |-> "none", sums |-> "none", sound |-> TRUE]

Commit == Commits[review.n]

\* local_preflight, and a partial directory of the run's own.
ReviewBegins ==
    /\ review.at = "preflight"
    /\ review' = [review EXCEPT !.at = "commit"]
    /\ evidence' = [evidence EXCEPT !.name = "partial"]
    /\ UNCHANGED session

DeadlinePasses ==
    /\ review.at \notin {"preflight", "ended", "dead"} /\ ~review.late
    /\ review' = [review EXCEPT !.late = TRUE]
    /\ UNCHANGED <<session, evidence>>

(***************************************************************************)
(* HttpSession.get.                                                        *)
(***************************************************************************)
\* The exceptions of collect_remote, as the outcome collect gives them.
Raised(outcome) == [review EXCEPT !.at = "sidecars", !.todo = {}, !.outcome = outcome]

\* Nothing is sent past the limit or the deadline.
MaySend == session.requests < HttpLimit /\ ~review.late

\* An HTTP error or no answer is listed; a status other than 200 that is no
\* error, a body that is too large or no JSON is counted, and not listed.
GetFails ==
    /\ review.at \in {"commit", "tree", "blobs"}
    /\ review.at = "blobs" => review.todo # {}
    /\ IF MaySend
       THEN \E listed \in {0, 1} :
               session' = [session EXCEPT !.requests = @ + 1, !.listed = @ + listed]
       ELSE UNCHANGED session
    /\ review' = Raised("STOP")
    /\ UNCHANGED evidence

\* An answer that is listed and saved; `verdict` is what its validation says.
Got(url) ==
    /\ MaySend
    /\ session' = [requests |-> session.requests + 1, listed |-> session.listed + 1,
                   answered |-> session.answered \cup {url}]

(***************************************************************************)
(* collect_remote.                                                         *)
(***************************************************************************)
\* save_http_payload writes the answer, and stops at the evidence budget.
Saved == {"ok", "STOP"}

\* validate_commit_payload: an identity that drifted is no stop but invalid.
CommitVerdict == Saved \cup {"INVALID"}

CommitAnswered ==
    /\ review.at = "commit"
    /\ Got(<<"commit", Commit, "">>)
    /\ evidence' = [evidence EXCEPT !.files = @ \cup {<<"commit", Commit, "">>}]
    /\ \E verdict \in CommitVerdict :
          review' = IF verdict = "ok" THEN [review EXCEPT !.at = "tree"] ELSE Raised(verdict)

\* select_initial_paths: the ancestors' manifests and the licence candidates.
Selected(p) == Initial[p]

\* validate_tree_payload: another tree, a truncated one, or duplicate paths.
TreeVerdict == Saved \cup {"INVALID"}

\* The selection stops at a missing manifest or an irregular candidate.
TreeAnswered ==
    /\ review.at = "tree"
    /\ Got(<<"tree", Commit, "">>)
    /\ \E verdict \in TreeVerdict :
          /\ review' = IF verdict = "ok"
                       THEN [review EXCEPT !.at = "blobs",
                                           !.todo = UNION {Selected(p) : p \in PackagesAt[Commit]}]
                       ELSE Raised(verdict)
          /\ evidence' = [evidence EXCEPT !.files = @ \cup {<<"tree", Commit, "">>},
                                          !.commits = IF verdict = "ok" THEN @ \cup {Commit} ELSE @]

\* validate_selected_blob_entry refuses a tree entry before anything is sent.
EntryRefused ==
    /\ review.at = "blobs" /\ review.todo # {}
    /\ \E outcome \in {"STOP", "INVALID"} : review' = Raised(outcome)
    /\ UNCHANGED <<session, evidence>>

Held(path) == <<Commit, path>> \in DOMAIN evidence.texts

\* validate_blob_payload: what is not the tree's object is invalid, what is not
\* a text stops the review.
BlobVerdict == Saved \cup {"INVALID"}

\* fetch_selected_blob: the envelope is saved before validate_blob_payload
\* checks it against the tree's entry; the decoded file and its record come
\* after.
BlobAnswered ==
    /\ review.at = "blobs"
    /\ \E path \in review.todo, verdict \in BlobVerdict :
          LET url == <<"blob", Commit, path>>
          IN  /\ path = CHOOSE first \in review.todo : TRUE
              /\ Got(url)
              /\ review' = IF verdict = "ok" THEN [review EXCEPT !.todo = @ \ {path}] ELSE Raised(verdict)
              /\ \E text \in Texts[path] :
                    evidence' = [evidence EXCEPT
                        !.files = @ \cup {url},
                        !.texts = IF verdict # "ok" THEN @
                                  ELSE [b \in DOMAIN @ \cup {<<Commit, path>>} |->
                                           IF b \in DOMAIN @ THEN @[b] ELSE text]]

\* manifest_identity_and_references: whatever differs from the pinned package
\* stops the review.
ManifestVerdict == {"ok", "STOP"}

\* The references of every package of the commit: files already fetched are not
\* fetched again.
ReferencesRead ==
    /\ review.at = "blobs" /\ review.todo = {}
    /\ \E verdict \in ManifestVerdict :
          LET referred == UNION {References[p] : p \in PackagesAt[Commit]}
              missing == {path \in referred : ~Held(path)}
          IN  review' = IF verdict # "ok" THEN Raised(verdict)
                        ELSE IF missing # {} THEN [review EXCEPT !.todo = missing]
                        ELSE [review EXCEPT !.at = "map"]
    /\ UNCHANGED <<session, evidence>>

\* Mutant: a package is credited with every file of its commit.
FilesOf_commit(p) ==
    {b \in DOMAIN evidence.texts : \E i \in DOMAIN Commits : b[1] = Commits[i] /\ p \in PackagesAt[Commits[i]]}

\* selected[package]: its candidates and what its manifest refers to.
FilesOf(p) ==
    {b \in DOMAIN evidence.texts :
        /\ \E i \in DOMAIN Commits : b[1] = Commits[i] /\ p \in PackagesAt[Commits[i]]
        /\ b[2] \in Selected(p) \cup References[p]}

\* classify_license_text over a package's files.
Detected(p) == UNION {evidence.texts[b] : b \in FilesOf(p)}

\* The packages of a commit are mapped once all their files are there.
MapPackages ==
    /\ review.at = "map"
    /\ evidence' = [evidence EXCEPT !.mapped =
          [p \in DOMAIN @ \cup PackagesAt[Commit] |->
              IF p \in DOMAIN @ THEN @[p] ELSE [detected |-> Detected(p), files |-> FilesOf(p)]]]
    /\ review' = IF review.n < Len(Commits) THEN [review EXCEPT !.n = @ + 1, !.at = "commit"]
                 ELSE [review EXCEPT !.at = "judge"]
    /\ UNCHANGED session

\* required_license_ids less what was detected.
Missing(p) == Declared[p] \ evidence.mapped[p].detected

\* collect: one declared alternative without its text is no pass.
Judge ==
    /\ review.at = "judge"
    /\ review' = [review EXCEPT !.at = "sidecars",
                                !.outcome = IF \E p \in DOMAIN evidence.mapped : Missing(p) # {}
                                            THEN "STOP" ELSE "PASS"]
    /\ UNCHANGED <<session, evidence>>

(***************************************************************************)
(* The manifest and its validation.                                        *)
(***************************************************************************)
\* validate_network_contract: every request is listed, within the limits.
NetworkContract(late) == session.requests = session.listed /\ session.requests <= HttpLimit /\ ~late

\* validate_schema2_manifest: each record has its file and its listed answer,
\* and a pass maps every blob.
RecordsHold(outcome) ==
    /\ \A c \in evidence.commits : {<<"commit", c, "">>, <<"tree", c, "">>} \subseteq evidence.files \cap session.answered
    /\ \A b \in DOMAIN evidence.texts :
          <<"blob", b[1], b[2]>> \in evidence.files \cap session.answered /\ b[1] \in evidence.commits
    /\ \A p \in DOMAIN evidence.mapped : evidence.mapped[p].files \subseteq DOMAIN evidence.texts
    /\ outcome = "PASS" => UNION {evidence.mapped[p].files : p \in DOMAIN evidence.mapped} = DOMAIN evidence.texts

\* Mutant: the manifest is validated only by the checker, afterwards.
Validated_later(outcome) == TRUE

Validated(outcome) == NetworkContract(review.late) /\ RecordsHold(outcome)

\* The sidecars and the manifest; running out of a budget overrides the outcome.
ReviewManifest ==
    /\ review.at = "sidecars"
    /\ \E spent \in BOOLEAN :
          LET outcome == IF review.late \/ spent THEN "STOP" ELSE review.outcome
          IN  IF Validated(outcome) /\ ~spent
              THEN /\ evidence' = [evidence EXCEPT !.manifest = outcome]
                   /\ review' = [review EXCEPT !.at = "sums", !.outcome = outcome]
              ELSE /\ review' = [review EXCEPT !.at = "ended", !.outcome = outcome]
                   /\ UNCHANGED evidence
    /\ UNCHANGED session

\* finalize_run: checksums of what is there, changed since the validation or
\* not; they are verified before the rename, the records are not again.
ReviewSums ==
    /\ review.at = "sums"
    /\ evidence' = [evidence EXCEPT !.sums = "match"]
    /\ review' = [review EXCEPT !.at = "rename"]
    /\ UNCHANGED session

Rename ==
    /\ review.at = "rename"
    /\ evidence' = [evidence EXCEPT !.name = "final"]
    /\ review' = [review EXCEPT !.at = "verify"]
    /\ UNCHANGED session

\* A file changes on disk while the run is being finalised: it is no longer
\* what the manifest records, nor what its checksum says if that was there.
FileRots ==
    /\ review.at \in {"sums", "rename", "verify"}
    /\ evidence.sound \/ evidence.sums = "match"
    /\ evidence' = [evidence EXCEPT !.sound = FALSE, !.sums = IF @ = "match" THEN "differ" ELSE @]
    /\ UNCHANGED <<review, session>>

\* Verified again under the final name; a mismatch takes the name away.
VerifyFinal ==
    /\ review.at = "verify"
    /\ evidence' = IF evidence.sums = "match" THEN evidence ELSE [evidence EXCEPT !.name = "invalid"]
    /\ review' = [review EXCEPT !.at = "ended"]
    /\ UNCHANGED session

ReviewDies ==
    /\ review.at \notin {"preflight", "ended", "dead"}
    /\ review' = [review EXCEPT !.at = "dead"]
    /\ UNCHANGED <<session, evidence>>

----------------------------------------------------------------------------
ReviewNext ==
    \/ ReviewBegins \/ DeadlinePasses \/ GetFails \/ CommitAnswered \/ TreeAnswered \/ EntryRefused \/ BlobAnswered
    \/ ReferencesRead \/ MapPackages \/ Judge
    \/ ReviewManifest \/ ReviewSums \/ Rename \/ FileRots \/ VerifyFinal \/ ReviewDies

ReviewSpec == ReviewInit /\ [][ReviewNext]_reviewVars

----------------------------------------------------------------------------
(***************************************************************************)
(* Properties.                                                             *)
(***************************************************************************)

\* validate_review_evidence, by which the repository's checker admits a run:
\* the manifest's contract, the files as its records have them, and every file
\* as its checksum says.
Admitted ==
    /\ evidence.manifest # "none" /\ evidence.sound /\ evidence.sums = "match"
    /\ evidence.commits \subseteq {Commits[i] : i \in DOMAIN Commits}
    /\ evidence.manifest = "PASS" =>
          /\ evidence.commits = {Commits[i] : i \in DOMAIN Commits}
          /\ DOMAIN evidence.mapped = Packages
    /\ NetworkContract(FALSE) /\ RecordsHold(evidence.manifest)

\* Whatever a run leaves under a final name, wherever it was killed and
\* whatever it had collected by then, is a whole run that the checker admits,
\* unless a file changed on disk after the manifest was validated: that was
\* before the rename.  A collection with a request it did not list stays
\* partial.  And where finalize_run returned, the checksums it published hold,
\* whenever a file changed: the run was verified again under its final name.
\* (Killed between the rename and that, a run whose file changed keeps the name
\* and the checker refuses it.)
PublishedIsAdmitted ==
    evidence.name = "final" =>
        /\ evidence.sound => Admitted
        /\ review.at = "ended" => evidence.sums = "match"

\* A published pass is complete: every pinned commit was fetched, and every
\* package has the text of each licence it declares in a file of its own that
\* GitHub answered for.
PassIsComplete ==
    evidence.name = "final" /\ evidence.manifest = "PASS" =>
        /\ evidence.commits = {Commits[i] : i \in DOMAIN Commits}
        /\ \A i \in DOMAIN Commits : \A p \in PackagesAt[Commits[i]] : \A licence \in Declared[p] :
              \E path \in Initial[p] \cup References[p] :
                 /\ <<"blob", Commits[i], path>> \in session.answered
                 /\ licence \in evidence.texts[<<Commits[i], path>>]

=============================================================================
