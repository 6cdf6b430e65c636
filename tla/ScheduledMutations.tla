-------------------------- MODULE ScheduledMutations --------------------------
(***************************************************************************)
(* What a run promises of the mutations its Agent asks for, independently  *)
(* of turns, validation, retried finalizations and the files it writes:    *)
(* they are performed in the order in which they were scheduled, each at   *)
(* most once, all of them before the run may call itself a success, and a  *)
(* run that fails with something on GitHub is marked, so that nobody takes *)
(* it for one that can simply be run again.                                *)
(***************************************************************************)
EXTENDS Integers, Sequences

CONSTANT Calls

VARIABLES
    queue,      \* scheduled and not applied yet, in order
    touched,    \* calls with a write that GitHub may have applied
    applied,
    outcome     \* "open" until the run concludes

vars == <<queue, touched, applied, outcome>>

Outcomes == {"open", "succeeded", "blocked", "failed", "marked"}
Waiting == {queue[i] : i \in 1..Len(queue)}

TypeOK ==
    /\ queue \in Seq(Calls)
    /\ touched \in SUBSET Calls
    /\ applied \in SUBSET Calls
    /\ outcome \in Outcomes

Init ==
    /\ queue = <<>>
    /\ touched = {}
    /\ applied = {}
    /\ outcome = "open"

\* A blocked run, and a failed one that is not marked, can be run again.
Clean(how) == how \in {"blocked", "failed"} => touched = {}

\* A call is scheduled once; where it took the last turn, the run is over with it.
Schedule(c) ==
    /\ outcome = "open"
    /\ c \notin Waiting \cup applied
    /\ queue' = Append(queue, c)
    /\ outcome' \in {"open", "failed", "marked"} /\ Clean(outcome')
    /\ UNCHANGED <<touched, applied>>

\* Only the first of the queue is worked at, over any number of attempts.
Touch ==
    /\ outcome = "open" /\ queue # <<>>
    /\ touched' = touched \cup {Head(queue)}
    /\ UNCHANGED <<queue, applied, outcome>>

\* It is applied, or found as it should be, and leaves the queue for good.
Apply ==
    /\ outcome = "open" /\ queue # <<>>
    /\ applied' = applied \cup {Head(queue)}
    /\ queue' = Tail(queue)
    /\ UNCHANGED <<touched, outcome>>

\* Success needs that nothing is left to do.
Conclude(how) ==
    /\ outcome = "open"
    /\ how = "succeeded" => queue = <<>>
    /\ Clean(how)
    /\ outcome' = how
    /\ UNCHANGED <<queue, touched, applied>>

Drop ==
    /\ outcome # "open"
    /\ queue' = <<>>
    /\ UNCHANGED <<touched, applied, outcome>>

Next ==
    \/ \E c \in Calls : Schedule(c)
    \/ Touch \/ Apply \/ Drop
    \/ \E how \in Outcomes \ {"open"} : Conclude(how)

Spec == Init /\ [][Next]_vars
=============================================================================
