-------------------------- MODULE ReviewPublication --------------------------
(***************************************************************************)
(* Publication of a review, over repeated runs on one pull request:        *)
(* filterHighPrecisionFindings and publishPullRequestReview, with a head   *)
(* that may move between any two requests, requests that fail, lose their  *)
(* answer or land late, and runs that die.                                 *)
(*                                                                         *)
(* A comment stays on the commit and the line it was created for, as the   *)
(* publisher's own comment says ("GitHub cannot relocate an existing       *)
(* inline thread to another commit"). GitHub may show a thread that is not *)
(* outdated on the new commit; that is left out.                           *)
(***************************************************************************)
EXTENDS DiffMap

CONSTANTS
    Files,          \* for each revision of the head, the files GitHub lists
    Results,        \* the findings an Agent may report, in its order
    MaxFindings,    \* the max-findings input
    MaxRuns,        \* bound on the runs
    MaxFaults       \* bound on failing requests and dying runs

ASSUME BoundsAssumption == /\ MaxFindings \in Nat /\ MaxRuns \in Nat \ {0}
                           /\ MaxFaults \in Nat /\ Len(Files) \in Nat \ {0}

VARIABLES
    head,       \* the revision of the pull request on GitHub
    comments,   \* its review comments, in the order of their creation
    summary,    \* the findings that the sticky summary carries: those it shows, those cut off
    adrift,     \* requests given up that GitHub may still serve
    runs, faults,
    at,         \* what the run awaits, or "idle"
    snapshot,   \* the revision it reviewed
    selected,   \* the findings it publishes
    todo,       \* those it has not come to
    existing,   \* the earlier threads: for each fingerprint the comment's number and content
    fallback,   \* findings that the summary must carry
    failures,   \* a publication request has failed
    outcome,    \* of the last run
    excused,    \* fingerprints with a late landing, or shared by two findings of a review
    settled     \* what the last publication without failures was about

remoteVars == <<head, comments, summary, adrift>>
runVars == <<snapshot, selected>>
loopVars == <<todo, existing, fallback, failures>>
pastVars == <<outcome, excused, settled>>
vars == <<remoteVars, runs, faults, at, runVars, loopVars, pastVars>>

Revisions == 1..Len(Files)
Diff == [r \in Revisions |-> ParsedDiff(Files[r])]

-----------------------------------------------------------------------------
(* Findings *)

\* fingerprintFinding: the source around it, or, without one, where and what it is.
Fingerprint(f, context) ==
    IF context # NoContext THEN <<"source", f.path, context>>
    ELSE <<"location", f.category, f.path, f.side,
           IF f.startSide # Unset THEN f.startSide ELSE f.side,
           IF f.start # NoLine THEN f.start ELSE f.line, f.line>>

Categories == {"correctness", "security", "concurrency", "regression"}
Severities == <<"critical", "high", "medium">>
Rank(f) == SelectInSeq(Severities, LAMBDA s : s = f.severity)

\* filterHighPrecisionFindings: sure and grave enough, the gravest first, one for
\* each place and category, and not too many.
HighPrecision(result) ==
    LET Worthy(f) == f.sure /\ f.category \in Categories /\ Rank(f) # 0
        kept == SelectSeq(result, Worthy)
        Before(i, j) == \/ Rank(kept[i]) < Rank(kept[j])
                        \/ Rank(kept[i]) = Rank(kept[j]) /\ i < j
        sorted == SetToSortSeq(1..Len(kept), Before)
        Key(k) == Fingerprint(kept[sorted[k]], NoContext)
        distinct == SetToSortSeq({k \in 1..Len(kept) : \A j \in 1..(k - 1) : Key(j) # Key(k)}, <)
        few == SubSeq(distinct, 1, Min({Len(distinct), MaxFindings}))
    IN  [k \in 1..Len(few) |-> kept[sorted[few[k]]]]

\* What a run may come to publish.
Selections == {HighPrecision(result) : result \in Results}

\* Sorting and cutting make a sequence of some of the findings.
ASSUME SelectionsAssumption ==
    Selections \subseteq Seq(UNION {ToSet(result) : result \in Results})

\* GitHub lists a file once, by its name.  A file has another name than before only if it
\* was renamed, hence not if it was removed, and its old name is then no other file's.
ASSUME FilesAssumption ==
    \A r \in Revisions :
        /\ Files[r] \in Seq(ToSet(Files[r]))
        /\ \A file \in ToSet(Files[r]) :
              /\ IsPatch(file.patch)
              /\ file.truncated \in BOOLEAN /\ file.binary \in BOOLEAN
              /\ file.filename # NoPath
              /\ file.status = "removed" => file.previous = file.filename
        /\ \A i, j \in DOMAIN Files[r] :
              i # j => Files[r][i].filename \notin {Files[r][j].filename, Files[r][j].previous}

\* mapFinding and fingerprintFinding, for every finding on every head.
Reported == UNION {ToSet(result) : result \in Results}
Locations == [r \in Revisions |-> [f \in Reported |-> MapFinding(Diff[r], f)]]
Sources == [r \in Revisions |-> [f \in Reported |->
               Fingerprint(f, AnchorContext(Diff[r], Locations[r][f]))]]

\* What the schema lets pass (review/schema.ts), as far as a place depends on it.
ASSUME FindingsAssumption ==
    \A f \in Reported : /\ f.path # NoPath /\ f.side \in Sides \cup {Unset}
                         /\ f.line \in Nat /\ f.start \in Nat \cup {NoLine}

Location(f) == Locations[snapshot][f]
Source(f) == Sources[snapshot][f]

\* The rendered comment: its marker and what the Agent wrote, but no line number.
Body(f) == <<Source(f), f.category, f.severity, f.prose>>

Comment(f) == [rev |-> snapshot, loc |-> [path |-> Location(f).path, line |-> Location(f).line,
                                          side |-> Location(f).side],
               start |-> Location(f).start, fp |-> Source(f), body |-> Body(f), about |-> f]

\* Mutants: threads of an earlier head are not looked for; the first one counts.
IndexedHere ==
    [fp \in {comments[i].fp : i \in {j \in 1..Len(comments) : comments[j].rev = snapshot}} |->
        LET i == SelectLastInSeq(comments, LAMBDA c : c.fp = fp)
        IN  [id |-> i, comment |-> comments[i]]]

\* indexTrackingComments: of the threads with one fingerprint, the last listed.
Indexed ==
    [fp \in {c.fp : c \in ToSet(comments)} |->
        LET i == SelectLastInSeq(comments, LAMBDA c : c.fp = fp)
        IN  [id |-> i, comment |-> comments[i]]]

-----------------------------------------------------------------------------

Init ==
    /\ head = 1 /\ comments = <<>> /\ adrift = {}
    /\ summary = [shows |-> {}, cut |-> {}]
    /\ runs = 0 /\ faults = 0
    /\ at = "idle" /\ snapshot = 1 /\ selected = <<>> /\ todo = <<>>
    /\ existing = <<>> /\ fallback = {} /\ failures = FALSE
    /\ outcome = "none" /\ excused = {} /\ settled = {}

\* The publication returns or throws, and forgets its loop.
Ends(how) ==
    /\ at' = "idle" /\ outcome' = how
    /\ todo' = <<>> /\ existing' = <<>> /\ fallback' = {} /\ failures' = FALSE
    /\ UNCHANGED <<runs, runVars>>

\* Two findings of one review with the same source around them.
Shared(fs) ==
    {Source(fs[i]) : i \in {j \in DOMAIN fs :
        /\ Location(fs[j]) # Nowhere
        /\ \E k \in DOMAIN fs \ {j} : Location(fs[k]) # Nowhere /\ Source(fs[k]) = Source(fs[j])}}

\* A run has reviewed the head of the moment, and its result is filtered.
Begin ==
    /\ at = "idle" /\ runs < MaxRuns
    /\ selected' \in Selections /\ todo' = selected'
    /\ runs' = runs + 1
    /\ snapshot' = head
    /\ at' = "list" /\ outcome' = "none"
    /\ UNCHANGED <<remoteVars, faults, existing, fallback, failures, excused, settled>>

\* The threads are listed once, before the loop.
ListThreads ==
    /\ at = "list"
    /\ existing' = Indexed
    /\ excused' = excused \cup Shared(selected)
    /\ at' = "assert"
    /\ UNCHANGED <<remoteVars, runs, faults, runVars, todo, fallback, failures, outcome, settled>>

\* assertPullRequestSnapshotCurrent, before every finding and before the summary.
AssertSnapshot ==
    /\ at = "assert"
    /\ IF head # snapshot THEN Ends("failed")
       ELSE /\ at' = IF todo # <<>> THEN "publish" ELSE "summary"
            /\ UNCHANGED <<runs, runVars, loopVars, outcome>>
    /\ UNCHANGED <<remoteVars, faults, excused, settled>>

-----------------------------------------------------------------------------
(* The finding at hand *)

Finding == Head(todo)
Prior == existing[Source(Finding)]
HasPrior == Location(Finding) # Nowhere /\ Source(Finding) \in DOMAIN existing
PriorMatches == /\ Prior.comment.rev = snapshot
                /\ Prior.comment.loc = Comment(Finding).loc

Handled(inSummary) ==
    /\ at' = "assert"
    /\ todo' = Tail(todo)
    /\ fallback' = IF inSummary THEN fallback \cup {Finding} ELSE fallback
    /\ UNCHANGED <<runs, existing, runVars, outcome, excused>>

\* No place for it in the diff, or its thread is somewhere else and cannot be moved.
SummaryOnly ==
    /\ at = "publish"
    /\ Location(Finding) = Nowhere \/ (HasPrior /\ ~PriorMatches)
    /\ Handled(Location(Finding) # Nowhere)
    /\ UNCHANGED <<remoteVars, faults, failures, settled>>

SkipDuplicate ==
    /\ at = "publish" /\ Location(Finding) # Nowhere
    /\ HasPrior /\ PriorMatches /\ Prior.comment.body = Body(Finding)
    /\ Handled(FALSE)
    /\ UNCHANGED <<remoteVars, faults, failures, settled>>

\* The request that this finding calls for: a new thread (number 0), or new prose.
Request == [id |-> IF HasPrior THEN Prior.id ELSE 0, comment |-> Comment(Finding)]
NeedsRequest ==
    /\ at = "publish" /\ Location(Finding) # Nowhere
    /\ HasPrior => PriorMatches /\ Prior.comment.body # Body(Finding)

\* An update gives a comment new prose, where it stands.
WithProse(old, new) ==
    [rev |-> old.rev, loc |-> old.loc, start |-> old.start, fp |-> old.fp,
     body |-> new.body, about |-> new.about]

Served(r) ==
    comments' = IF r.id = 0 THEN Append(comments, r.comment)
                ELSE [comments EXCEPT ![r.id] = WithProse(@, r.comment)]

Publish ==
    /\ NeedsRequest
    /\ Served(Request)
    /\ Handled(FALSE)
    /\ UNCHANGED <<head, summary, adrift, faults, failures, settled>>

\* A mutant: a failed request is only counted.
PublishFailsUnheeded ==
    /\ NeedsRequest /\ faults < MaxFaults
    /\ faults' = faults + 1
    /\ failures' = TRUE
    /\ \/ Served(Request) /\ UNCHANGED adrift
       \/ UNCHANGED <<comments, adrift>>
       \/ adrift' = adrift \cup {Request} /\ UNCHANGED comments
    /\ Handled(FALSE)
    /\ UNCHANGED <<head, summary, settled>>

\* Refused, lost, or served though its answer is lost, now or later: the loop goes on,
\* and the summary carries the finding.
PublishFails ==
    /\ NeedsRequest /\ faults < MaxFaults
    /\ faults' = faults + 1
    /\ failures' = TRUE
    /\ \/ Served(Request) /\ UNCHANGED adrift
       \/ UNCHANGED <<comments, adrift>>
       \/ adrift' = adrift \cup {Request} /\ UNCHANGED comments
    /\ Handled(TRUE)
    /\ UNCHANGED <<head, summary, settled>>

-----------------------------------------------------------------------------
(* The summary, and the ends of a run *)

Carried == {f \in ToSet(selected) : Location(f) = Nowhere \/ f \in fallback}

\* formatSummaryWithDiff lists them as they were selected, behind the Agent's text and the
\* warnings, and cuts the whole off at GITHUB_BODY_LIMIT: some first ones are shown.
Summaries ==
    LET UpTo(n) == {f \in Carried : \E i \in 1..n : f = selected[i]}
    IN  {[shows |-> UpTo(n), cut |-> Carried \ UpTo(n)] : n \in 0..Len(selected)}

PublishSummary ==
    /\ at = "summary"
    /\ summary' \in Summaries
    /\ settled' = IF failures THEN {} ELSE {<<snapshot, selected>>}
    /\ Ends("published")
    /\ UNCHANGED <<head, comments, adrift, faults, excused>>

\* A request of the run's own, other than a finding's, fails; the summary may have
\* been written all the same. Or the run is cancelled, or dies.
RunFails ==
    /\ at # "idle" /\ faults < MaxFaults
    /\ faults' = faults + 1
    /\ Ends("failed")
    /\ \/ UNCHANGED summary
       \/ at = "summary" /\ summary' \in Summaries
    /\ UNCHANGED <<head, comments, adrift, excused, settled>>

HeadMoves ==
    /\ head < Len(Files)
    /\ head' = head + 1
    /\ UNCHANGED <<comments, summary, adrift, runs, faults, at, runVars, loopVars, pastVars>>

Lands ==
    /\ \E r \in adrift :
          /\ Served(r)
          /\ adrift' = adrift \ {r}
          /\ excused' = excused \cup {r.comment.fp}
    /\ settled' = {}
    /\ UNCHANGED <<head, summary, runs, faults, at, runVars, loopVars, outcome>>

PublicationStep ==
    \/ ListThreads \/ AssertSnapshot
    \/ SummaryOnly \/ SkipDuplicate \/ Publish \/ PublishFails
    \/ PublishSummary \/ RunFails

Next == Begin \/ PublicationStep \/ HeadMoves \/ Lands

Spec == Init /\ [][Next]_vars

-----------------------------------------------------------------------------
(* Properties *)

\* The file a finding speaks of: the one that has its path now or, failing that, had.
Meant(f, files) ==
    LET now == {i \in 1..Len(files) : files[i].filename = f.path}
        once == {i \in 1..Len(files) : files[i].previous = f.path}
    IN  IF now # {} THEN now ELSE once

Shown == [r \in Revisions |-> [i \in 1..Len(Files[r]) |->
             [side \in Sides |-> LinesShown(Files[r][i].patch, side)]]]
Entire == [r \in Revisions |-> {i \in 1..Len(Files[r]) :
              LET file == Files[r][i] IN Whole(file.patch) /\ ~file.truncated /\ ~file.binary}]

\* A comment stands on a line which the complete patch of the file that its finding
\* speaks of really shows, whichever hunk, side, name or cut-off neighbour the file
\* has (map.ts: "Returns null rather than guessing").
InlineOnItsLine ==
    \A c \in ToSet(comments) :
        \E i \in Meant(c.about, Files[c.rev]) \cap Entire[c.rev] :
            /\ c.loc.path = Files[c.rev][i].filename
            /\ c.loc.line = c.about.line
            /\ (IF c.start = NoLine THEN c.loc.line ELSE c.start)..c.loc.line
                  \subseteq Shown[c.rev][i][c.loc.side]

\* What a published review found can be read: on its line of this head, or in the summary,
\* after moved heads, earlier threads and failed requests alike. The summary's limit
\* (publisher.ts:192) may take carried findings away, but then the last ones of the selection,
\* the least grave, and never one that the summary was not to carry. Findings that share their
\* source with another one are left to IdenticalRerunSkips.
EveryFindingTold ==
    outcome = "published" =>
        \A i \in 1..Len(selected) : LET f == selected[i] IN
            \/ f \in summary.shows
            \/ f \in summary.cut /\ summary.shows \subseteq {selected[j] : j \in 1..(i - 1)}
            \/ Location(f) # Nowhere /\ Source(f) \in excused
            \/ \E c \in ToSet(comments) :
                  /\ c.rev = snapshot /\ c.loc = Comment(f).loc /\ c.body = Body(f)

\* However often the review is repeated, a place in the source has one thread
\* (README.md, "a rerun without duplicate comments").
OneThread ==
    \A i, j \in 1..Len(comments) :
        i # j /\ comments[i].fp = comments[j].fp => comments[i].fp \in excused

\* A review repeated without any difference touches no comment
\* (test/review-publisher.test.ts: "skips an identical rerun").
IdenticalRerunSkips ==
    [][(at = "publish" /\ <<snapshot, selected>> \in settled) => (comments' = comments)]_vars
=============================================================================
