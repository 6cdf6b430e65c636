---------------------------- MODULE FixOperation ----------------------------
(***************************************************************************)
(* executeWrite: the writes of PullRequestOperation, and beside them       *)
(* finishFix, which puts a commit on the head branch of the pull request   *)
(* that the run is about (a fix, or a task asked for there).  There is     *)
(* nothing to find from an earlier attempt: each binds the head it meets.  *)
(* What matters is what others do to that branch meanwhile.                *)
(*                                                                         *)
(* A branch is the sequence of its commits: an attempt's number is the     *)
(* commit it made, a negative number one that somebody pushed.             *)
(***************************************************************************)
EXTENDS PullRequestOperation, SequencesExt

VARIABLES
    head,       \* the pull request's branch
    from,       \* the branch as each attempt was bound to it (boundHeadSha)
    landed,     \* what each attempt's commit was put upon, or NoHead
    updateReq,  \* its updateRef request
    pullOpen    \* the pull request is still the open one of the same branch

fixVars == <<head, from, landed, updateReq, pullOpen>>
writeVars == <<vars, fixVars>>

NoHead == <<0>>

InitWrite ==
    /\ Init
    /\ head = <<>>
    /\ from = [a \in Attempts |-> <<>>]
    /\ landed = [a \in Attempts |-> NoHead]
    /\ updateReq = [a \in Attempts |-> "unsent"]
    /\ pullOpen = TRUE

-----------------------------------------------------------------------------
(* finishFix *)

FixStep(step) == At(step) /\ UNCHANGED <<attemptVars, sha, gitHubVars, requestVars, aborted>>

\* revalidatePullRequestIdentity: open, and its head the bound one.
SamePull == pullOpen /\ head = from[n]

FixRevalidate(step, next) ==
    /\ FixStep(step)
    /\ GoToIf(SamePull, next)
    /\ UNCHANGED <<tested, faults, excused, fixVars>>

\* assertRemoteBranchHead on the branch itself.
CheckPullHead ==
    /\ FixStep("head")
    /\ GoToIf(head = from[n], "update")
    /\ UNCHANGED <<tested, faults, excused, fixVars>>

SendUpdate ==
    /\ FixStep("update")
    /\ GoTo("update-sent")
    /\ updateReq' = [updateReq EXCEPT ![n] = "sent"]
    /\ UNCHANGED <<tested, faults, excused, head, from, landed, pullOpen>>

\* updateRemoteBranch: acknowledged; or refused or lost, and then success only if the
\* branch is found at exactly this commit.
UpdateSettles ==
    /\ FixStep("update-sent")
    /\ \/ updateReq[n] = "applied" /\ GoTo("publish")
       \/ updateReq[n] \in {"refused", "lost"} /\ GoToIf(head = Append(from[n], n), "publish")
    /\ UNCHANGED <<tested, faults, excused, fixVars>>

PublishFix ==
    /\ FixStep("publish")
    /\ End("success")
    /\ UNCHANGED <<tested, faults, excused, fixVars>>

\* The commit is pushed: neither a failing comment nor a cancellation makes that a
\* failure.
PublishFixFails ==
    /\ pc = "publish"
    /\ IF aborted THEN UNCHANGED <<faults, excused>> ELSE Fault("failure")
    /\ End("partial")
    /\ UNCHANGED <<attemptVars, sha, tested, aborted, gitHubVars, requestVars, fixVars>>

FixAttempt ==
    \/ FixRevalidate("revalidate", "tests")
    \/ FixRevalidate("boundary", "objects")
    \/ FixRevalidate("recheck", "head")
    \/ CheckPullHead \/ SendUpdate \/ UpdateSettles
    \/ PublishFix \/ PublishFixFails

\* What finishFix has in common with the other writes.
FixShares ==
    /\ TestsPass \/ CreateCommit \/ Cancel \/ Crash \/ (pc # "publish" /\ (Fails \/ CancelStops))
    /\ UNCHANGED fixVars

\* A re-run is bound to the branch as it is by now, an earlier attempt's commit included.
FixRerun ==
    /\ NewAttempt
    /\ \E t \in Trees : made' = [made EXCEPT ![n + 1] = t]
    /\ from' = [from EXCEPT ![n + 1] = head]
    /\ excused' = (~pullOpen \/ \E a \in Attempts : updateReq[a] = "sent")
    /\ UNCHANGED <<head, landed, updateReq, pullOpen>>

-----------------------------------------------------------------------------
(* GitHub and the people who use it *)

\* A mutant: force: true.
FastForwardsForced(a) == TRUE

\* updateRef with force: false: the commit must descend from what the branch holds.
FastForwards(a) == IsPrefix(head, from[a])

ServeUpdate ==
    /\ \E a \in Attempts :
          /\ updateReq[a] = "sent"
          /\ \/ /\ FastForwards(a)
                /\ head' = Append(from[a], a)
                /\ landed' = [landed EXCEPT ![a] = head]
                /\ updateReq' = [updateReq EXCEPT ![a] = "applied"]
             \/ /\ ~FastForwards(a)
                /\ updateReq' = [updateReq EXCEPT ![a] = "refused"]
                /\ UNCHANGED <<head, landed>>
    /\ UNCHANGED <<vars, from, pullOpen>>

LoseUpdate ==
    /\ Fault("loss")
    /\ \E a \in Attempts :
          /\ updateReq[a] \in {"sent", "applied"}
          /\ updateReq' = [updateReq EXCEPT ![a] = "lost"]
    /\ UNCHANGED <<attemptVars, pc, sha, tested, outcome, aborted, gitHubVars, requestVars,
                   head, from, landed, pullOpen>>

\* Somebody pushes to the branch, takes its last commit away, or closes the pull request.
FixDrift ==
    /\ world.base < MaxDrift
    /\ world' = [world EXCEPT !.base = @ + 1]
    /\ \/ head' = Append(head, -world'.base) /\ UNCHANGED pullOpen
       \/ head # <<>> /\ head' = Front(head) /\ UNCHANGED pullOpen
       \/ pullOpen /\ pullOpen' = FALSE /\ UNCHANGED head
    /\ excused' = TRUE
    /\ UNCHANGED <<attemptVars, pc, sha, tested, outcome, faultVars, branch, pulls, open,
                   requestVars, from, landed, updateReq>>

NextWrite ==
    \/ kind # "fix" /\ Next /\ UNCHANGED fixVars
    \/ /\ kind = "fix"
       /\ \/ FixAttempt \/ FixShares \/ FixRerun
          \/ ServeUpdate \/ LoseUpdate \/ FixDrift

SpecWrite == InitWrite /\ [][NextWrite]_writeVars

-----------------------------------------------------------------------------
(* Properties *)

\* A fix that is reported as pushed, even if only in part, is a commit of tested files
\* that GitHub put on the branch the Agent was given, and it removed no commit that
\* the Agent had not seen (fix.ts: "The branch update is the authoritative write").
FixIsItsOwn ==
    \A a \in Attempts : kind = "fix" /\ outcome[a] \in {"success", "partial"} =>
        a \in tested /\ IsPrefix(landed[a], from[a])
=============================================================================
