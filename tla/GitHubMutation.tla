---------------------------- MODULE GitHubMutation ----------------------------
(***************************************************************************)
(* One idempotent mutation of a GitHub entity: the revalidation at the end *)
(* of GitHubAuthorityGateway.invoke, mutateGitHubWithPostcondition with    *)
(* its bounded retry, callGitHubApi with its deadline and cancellation,    *)
(* and the HTTP requests themselves, against a network that loses, delays  *)
(* and refuses requests and people who edit the same entity.               *)
(***************************************************************************)
EXTENDS Integers, FiniteSets

CONSTANTS
    Values,             \* what the mutated attribute may hold
    Target,             \* the value the mutation asks for
    MaxDrift,           \* bound on the environment's edits of the entity
    HookReplacesSignal  \* the client was created with a run signal, so that its
                        \* request hook replaces the signal of each call

ASSUME TargetAssumption == Target \in Values
ASSUME DriftAssumption == MaxDrift \in Nat
ASSUME HookAssumption == HookReplacesSignal \in BOOLEAN

VARIABLES
    pc,         \* the outstanding API call, or "done"
    attempts,   \* write attempts begun
    possible,   \* possibleExternalEffect: an earlier write may have landed
    effect,     \* "open", then "updated", "unchanged" or "failed"
    external,   \* externalEffect of a failed mutation
    aborted,    \* the run signal was aborted (SIGTERM, or the run deadline)
    expired,    \* the flush deadline has passed
    request,    \* the write request of each attempt, as GitHub sees it
    late,       \* attempts whose write was sent after the mutation reported
    straggler,  \* an abandoned attempt's revalidation is still outstanding
    alive,      \* the Controller process has not exited
    remote,     \* the attribute of the entity on GitHub
    bound,      \* the entity still has the identity and state bound at admission
    drift       \* environment edits so far

outcomeVars == <<effect, external>>
envVars == <<aborted, expired, drift>>
netVars == <<request, late, straggler, alive>>
vars == <<pc, attempts, possible, effect, external, aborted, expired,
          request, late, straggler, alive, remote, bound, drift>>

MaxAttempts == 2
Attempts == 1..MaxAttempts
Calls == {"prevalidate", "before", "validate", "write", "after", "reconcile"}
RequestStates == {"unsent", "sent", "applied", "refused", "lost"}

TypeOK ==
    /\ pc \in Calls \cup {"done"}
    /\ attempts \in 0..MaxAttempts
    /\ possible \in BOOLEAN
    /\ effect \in {"open", "updated", "unchanged", "failed"}
    /\ external \in {"none", "possible", "confirmed"}
    /\ aborted \in BOOLEAN
    /\ expired \in BOOLEAN
    /\ request \in [Attempts -> RequestStates]
    /\ late \in SUBSET Attempts
    /\ straggler \in BOOLEAN
    /\ alive \in BOOLEAN
    /\ remote \in Values
    /\ bound \in BOOLEAN
    /\ drift \in 0..MaxDrift

Init ==
    /\ pc = "prevalidate"
    /\ attempts = 0
    /\ possible = FALSE
    /\ effect = "open"
    /\ external = "none"
    /\ aborted = FALSE
    /\ expired = FALSE
    /\ request = [a \in Attempts |-> "unsent"]
    /\ late = {}
    /\ straggler = FALSE
    /\ alive = TRUE
    /\ remote \in Values
    /\ bound \in BOOLEAN
    /\ drift = 0

-----------------------------------------------------------------------------
(* Ways to go on after a call has settled *)

\* callGitHubApi refuses to start a call after cancellation or the deadline.
CanCall == ~aborted /\ ~expired

\* The mutation throws; ext is what its error says about the outside world.
Fail(ext) ==
    /\ pc' = "done"
    /\ effect' = "failed"
    /\ external' = ext

\* The mutation returns with the postcondition observed.
Succeed(e) ==
    /\ pc' = "done"
    /\ effect' = e
    /\ UNCHANGED external

\* Start the next call, or fail at once if it may not be started.
CallOr(next, refused) ==
    IF CanCall THEN pc' = next /\ UNCHANGED outcomeVars ELSE Fail(refused)

\* The claim of a failure that adds no effect of its own.
Uncertain(maybe) == IF maybe THEN "possible" ELSE "none"

\* A mutant: the retry does not count as an attempt.
BeginAttemptUncounted(maybe) ==
    /\ attempts' = IF maybe THEN attempts ELSE attempts + 1
    /\ CallOr("validate", Uncertain(maybe))

\* An attempt is one call: revalidate, then write.
BeginAttempt(maybe) ==
    /\ attempts' = attempts + 1
    /\ CallOr("validate", Uncertain(maybe))

-----------------------------------------------------------------------------
(* Calls that settle with an answer, while the signal is not aborted *)

\* invoke: the first revalidation, outside the mutation's own error handling.
PrevalidateOk ==
    /\ pc = "prevalidate" /\ ~aborted /\ bound
    /\ CallOr("before", "none")
    /\ UNCHANGED <<attempts, possible, remote, bound>>

ReadBefore ==
    /\ pc = "before" /\ ~aborted
    /\ IF remote = Target
       THEN Succeed("unchanged") /\ UNCHANGED attempts
       ELSE BeginAttempt(possible)
    /\ UNCHANGED <<possible, remote, bound>>

\* The entity was revalidated: the same closure sends the write at once.
ValidateAndSend ==
    /\ pc = "validate" /\ ~aborted /\ bound
    /\ pc' = "write"
    /\ request' = [request EXCEPT ![attempts] = "sent"]
    /\ UNCHANGED <<attempts, possible, outcomeVars, late, straggler, alive, remote, bound>>

\* The entity drifted, or its revalidation failed or was cancelled.
ValidateFails ==
    /\ pc = "validate"
    /\ Fail(Uncertain(possible))
    /\ UNCHANGED <<attempts, possible, remote, bound>>

WriteAcked ==
    /\ pc = "write" /\ ~aborted /\ request[attempts] = "applied"
    /\ CallOr("after", "confirmed")
    /\ UNCHANGED <<attempts, possible, remote, bound>>

\* A definite 4xx answer: GitHub did not apply this write.
WriteRefused ==
    /\ pc = "write" /\ ~aborted /\ request[attempts] = "refused"
    /\ Fail(Uncertain(possible))
    /\ UNCHANGED <<attempts, possible, remote, bound>>

\* Mutants: the ambiguous write is not remembered; it counts as an acknowledgement.
WriteAmbiguousForgotten ==
    /\ pc = "write" /\ ~aborted
    /\ CallOr("reconcile", "possible")
    /\ UNCHANGED <<attempts, possible, remote, bound>>

WriteAmbiguousAcked ==
    /\ pc = "write" /\ ~aborted
    /\ CallOr("after", "confirmed")
    /\ UNCHANGED <<attempts, possible, remote, bound>>

\* No answer, 408, 429, 5xx or a timeout: the write may have been applied.
WriteAmbiguous ==
    /\ pc = "write" /\ ~aborted
    /\ possible' = TRUE
    /\ CallOr("reconcile", "possible")
    /\ UNCHANGED <<attempts, remote, bound>>

\* A mutant: a write cancelled in flight is reported like one that never started.
WriteAbortedDenied ==
    /\ pc = "write" /\ aborted
    /\ Fail(Uncertain(possible))
    /\ UNCHANGED <<attempts, possible, remote, bound>>

WriteAborted ==
    /\ pc = "write" /\ aborted
    /\ Fail("possible")
    /\ UNCHANGED <<attempts, possible, remote, bound>>

ReadAfter ==
    /\ pc = "after" /\ ~aborted
    /\ IF remote = Target THEN Succeed("updated") ELSE Fail("confirmed")
    /\ UNCHANGED <<attempts, possible, remote, bound>>

\* A mutant: one attempt too many.
ReadReconcileOffByOne ==
    /\ pc = "reconcile" /\ ~aborted
    /\ \/ remote = Target /\ Succeed("updated") /\ UNCHANGED attempts
       \/ remote # Target /\ attempts <= MaxAttempts /\ BeginAttempt(possible)
       \/ remote # Target /\ attempts > MaxAttempts /\ Fail(Uncertain(possible))
          /\ UNCHANGED attempts
    /\ UNCHANGED <<possible, remote, bound>>

ReadReconcile ==
    /\ pc = "reconcile" /\ ~aborted
    /\ \/ remote = Target /\ Succeed("updated") /\ UNCHANGED attempts
       \/ remote # Target /\ attempts < MaxAttempts /\ BeginAttempt(possible)
       \/ remote # Target /\ attempts = MaxAttempts /\ Fail(Uncertain(possible))
          /\ UNCHANGED attempts
    /\ UNCHANGED <<possible, remote, bound>>

\* A read that fails, times out or is cancelled.
ReadFails ==
    /\ \/ pc \in {"prevalidate", "before"} /\ Fail("none")
       \/ pc = "after" /\ Fail("confirmed")
       \/ pc = "reconcile" /\ Fail("possible")
    /\ UNCHANGED <<attempts, possible, remote, bound>>

-----------------------------------------------------------------------------
(* The client *)

Settle ==
    /\ \/ PrevalidateOk \/ ReadBefore
       \/ ValidateFails
       \/ WriteAcked \/ WriteRefused \/ WriteAmbiguous \/ WriteAborted
       \/ ReadAfter \/ ReadReconcile \/ ReadFails
    /\ UNCHANGED <<netVars, envVars>>

Send ==
    /\ ValidateAndSend
    /\ UNCHANGED envVars

\* The call's timer fires during the revalidation: callGitHubApi rejects, so the
\* mutation reports a failure before its write. The abandoned closure goes on
\* unless the HTTP request honours the call's own signal.
ValidateTimesOut ==
    /\ pc = "validate" /\ ~aborted
    /\ Fail(Uncertain(possible))
    /\ straggler' = HookReplacesSignal
    /\ UNCHANGED <<attempts, possible, request, late, alive, remote, bound, envVars>>

\* The abandoned closure's revalidation answers after all, and it writes.
StragglerSends ==
    /\ straggler /\ alive /\ ~aborted /\ bound
    /\ straggler' = FALSE
    /\ request' = [request EXCEPT ![attempts] = "sent"]
    /\ late' = late \cup {attempts}
    /\ UNCHANGED <<pc, attempts, possible, outcomeVars, alive, remote, bound, envVars>>

\* index.ts exits explicitly once the run has finished.
ProcessExit ==
    /\ pc = "done" /\ alive
    /\ alive' = FALSE
    /\ UNCHANGED <<pc, attempts, possible, outcomeVars, request, late, straggler,
                   remote, bound, envVars>>

-----------------------------------------------------------------------------
(* GitHub and the people who use it *)

ServerApplies(a) ==
    /\ request[a] = "sent"
    /\ request' = [request EXCEPT ![a] = "applied"]
    /\ remote' = Target

ServerDrops(a, state) ==
    /\ request[a] = "sent"
    /\ request' = [request EXCEPT ![a] = state]
    /\ UNCHANGED remote

Server ==
    /\ \E a \in Attempts :
          ServerApplies(a) \/ \E state \in {"refused", "lost"} : ServerDrops(a, state)
    /\ UNCHANGED <<pc, attempts, possible, outcomeVars, late, straggler, alive, bound, envVars>>

HumanEdits ==
    /\ drift < MaxDrift
    /\ drift' = drift + 1
    /\ \/ /\ \E v \in Values : v # remote /\ remote' = v
          /\ UNCHANGED bound
       \/ /\ bound' = ~bound
          /\ UNCHANGED remote
    /\ UNCHANGED <<pc, attempts, possible, outcomeVars, netVars, aborted, expired>>

Cancel ==
    /\ ~aborted
    /\ aborted' = TRUE
    /\ UNCHANGED <<pc, attempts, possible, outcomeVars, netVars, remote, bound, expired, drift>>

Expire ==
    /\ ~expired
    /\ expired' = TRUE
    /\ UNCHANGED <<pc, attempts, possible, outcomeVars, netVars, remote, bound, aborted, drift>>

Environment == Server \/ HumanEdits \/ Cancel \/ Expire

Next == Settle \/ Send \/ ValidateTimesOut \/ StragglerSends \/ ProcessExit \/ Environment

\* Every call has a timer of at most 15 s, and a timer fires; nothing is assumed
\* of the network.
Fairness == WF_vars(ReadFails /\ UNCHANGED <<netVars, envVars>>)
         /\ WF_vars(WriteAmbiguous /\ UNCHANGED <<netVars, envVars>>)
         /\ WF_vars(WriteAborted /\ UNCHANGED <<netVars, envVars>>)
         /\ WF_vars(ValidateFails /\ UNCHANGED <<netVars, envVars>>)

Spec == Init /\ [][Next]_vars
FairSpec == Spec /\ Fairness

-----------------------------------------------------------------------------
(* Properties *)

Denied == effect = "unchanged" \/ (effect = "failed" /\ external = "none")
Harmless(a) == request[a] \in {"unsent", "refused"}

\* A result that denies an external effect is true of every write sent before it
\* was given: GitHub has refused each of them, whatever was lost, delayed or
\* cancelled on the way (github-gateway-mutation.ts, the externalEffect of each
\* throw).
DenialTrueWhenGiven == Denied => \A a \in Attempts : Harmless(a) \/ a \in late

\* A failure reported without an effect stays without one for ever: what
\* SECURITY.md promises of a flush ("records `partial-success` and an
\* `externalEffect` receipt instead of presenting an ordinary retry-safe failure").
DenialStaysTrue == Denied => \A a \in Attempts : Harmless(a)

\* "confirmed" is never a guess: GitHub applied a write of ours.
ConfirmedMeansApplied ==
    external = "confirmed" => \E a \in Attempts : request[a] = "applied"

\* The mutation always reports, whatever the network does.
Reports == <>(pc = "done")

\* The receipt as MutationReceipt sees it. It answers for the writes sent before
\* it was given; DenialStaysTrue asks about the later ones.
Exposed == \E a \in Attempts \ late : request[a] \in {"sent", "applied", "lost"}
Landed == \E a \in Attempts \ late : request[a] = "applied"
Claim == IF effect = "failed" THEN external ELSE effect

Receipt == INSTANCE MutationReceipt WITH
    exposed <- Exposed, landed <- Landed, receipt <- Claim

\* The mutation implements the truthful receipt: whatever is lost, delayed,
\* cancelled or retried, what its result or its GitHubMutationExecutionError says
\* is never less than what was done by then, nor does it turn true only later.
TruthfulReceipt == Receipt!Spec
=============================================================================
