-------------------------- MODULE RunLifecycleProofs --------------------------
(***************************************************************************)
(* Proofs about RunLifecycle, for any set of operations, any number of     *)
(* turns and of failing requests: the comment of a run tells its outcome,  *)
(* in its last word, there is one of it, writes are silent until they are  *)
(* cleared, and no progress is told after the end.                         *)
(***************************************************************************)
EXTENDS RunLifecycle, SequenceTheorems, TLAPS

-----------------------------------------------------------------------------
(* The inductive invariant *)

Ending == {"closing", "dispose", "finish", "over"}

\* A publication that waits has a text, and no end yet.
InFlight == \A p \in Publications : ~Idle(p) => body[p] # "none" /\ said[p] = "none"

\* What ends the run supersedes what is published before it.
Superseded ==
    /\ terminal = "none" => body["final"] = "none" /\ body["correction"] = "none"
    /\ terminal # "none" => "progress" \in cut
    /\ body["correction"] # "none" => "final" \in cut

\* The result is published once, at its place.
ResultInPlace ==
    /\ body["result"] # "none" => at \in {"publishing", "cleanup"} \cup Ending
    /\ ~Idle("result") => at = "publishing"

\* Progress is awaited before the run goes on, unless its signal is aborted.
ProgressAwaited ==
    \/ Idle("progress") \/ "progress" \in cut
    \/ /\ at \in {"announce", "hook", "retry", "finalizing", "cleanup"} \cup Ending
       /\ body["result"] = "none"

\* The publications that begin after p.
After(p) == IF p = "progress" THEN {"result", "final", "correction"}
            ELSE IF p = "result" THEN {"final", "correction"}
            ELSE IF p = "final" THEN {"correction"}
            ELSE {}

Latest(p) == \A q \in After(p) : body[q] = "none"

\* Without a late landing there is one comment, and what is known of it is true.
OneSay ==
    /\ Len(comments) <= 1
    /\ \A p \in Publications \ cut :
          /\ pc[p] = "sent" => aim[p] = Len(comments)
          /\ pc[p] = "served" => comments = <<body[p]>>
          /\ pc[p] = "relist" => comments \in {<<>>, <<body[p]>>}
    /\ \A p \in Publications :
          said[p] = "ok" /\ Latest(p) => body[p] # "none" /\ comments = <<body[p]>>

CommentsTrue == ~overtaken => OneSay

Silent ==
    /\ ~tracking
    /\ \A p \in Publications : body[p] = "none"
    /\ adrift = {}
    /\ comments \in {<<>>, <<"earlier">>}

Silence == operation \in Writes /\ ~cleared => Silent

ClearedFirst ==
    operation \in Writes
       /\ (at \in {"writing", "publish", "publishing"} \/ verdict = "success")
    => cleared

\* Which points a run may be at, with which phase, operation and verdict.
Whereabouts ==
    /\ at = "prepare" => ~tracking
    /\ at \in {"validating", "writing"} => operation \in Writes
    /\ at = "finalizing" => operation = "review" /\ phase = "publication"
    /\ at \in {"publish", "publishing"} /\ operation \notin Writes => phase = "publication"

Verdicts ==
    /\ at \notin {"publish", "publishing", "cleanup"} \cup Ending => verdict = "none"
    /\ at \in {"publish", "publishing"} => verdict \in {"none", "neutral"}
    /\ at \in {"cleanup", "dispose"} => verdict # "none"
    /\ at = "closing" => verdict \in {"success", "neutral"}
    /\ at = "finish" => verdict \in Failures
    /\ at = "over" => verdict # "none" /\ outcome = verdict

\* Before the way out a run has told at most a provisional cancellation, and
\* none that it could still turn into a success.
Provisional ==
    /\ operation \notin Writes
    /\ terminal = attempt
    /\ attempt = "none" \/ (attempt = "cancelled" /\ Aborted)
    /\ at = "publishing" \/ verdict \in {"success", "neutral"} =>
          attempt = "none" /\ phase = "publication"

Told ==
    \/ verdict \in Failures /\ terminal = verdict /\ attempt = verdict
    \/ verdict = "neutral" /\ terminal = "blocked"
    \/ verdict = "success" /\ operation = "edit" /\ terminal = "complete"
    \/ /\ verdict = "success" /\ operation # "edit"
       /\ terminal = "none" /\ attempt = "none" /\ phase = "publication"

Telling ==
    /\ ~tracking => attempt = "none" /\ terminal = "none"
    /\ tracking /\ at \notin Ending => Provisional
    /\ tracking /\ at \in Ending => Told

LifecycleInv ==
    /\ TypeOK /\ InFlight
    /\ Superseded /\ ResultInPlace /\ ProgressAwaited
    /\ CommentsTrue /\ Silence /\ ClearedFirst
    /\ Whereabouts /\ Verdicts /\ Telling

-----------------------------------------------------------------------------
(* What a step does to the comment.  All but a few of the run's actions    *)
(* leave the publications alone, or abort some of them.                    *)

Kept == /\ UNCHANGED <<pc, body, said, terminal>> /\ UNCHANGED gitHubVars
        /\ cut \subseteq cut' /\ cut' \subseteq Publications

Begun(p, text) == /\ Publish(p, text) /\ UNCHANGED gitHubVars
                  /\ cut \subseteq cut' /\ cut' \subseteq Publications

ProgressBegun ==
    /\ \E text \in Bodies : Begun("progress", text)
    /\ terminal = "none" /\ UNCHANGED terminal
    /\ at \in {"prepare", "turn", "finalize", "validating"}
    /\ at' \in {"announce", "hook", "finalizing", "retry"}
    /\ tracking'

ResultBegun ==
    /\ Begun("result", "result")
    /\ UNCHANGED terminal
    /\ at = "publish" /\ at' = "publishing"
    /\ ~Aborted /\ cut' = cut

FinalBegun ==
    /\ terminal = "none" /\ terminal' \in Failures \cup {"complete", "blocked"}
    /\ Begun("final", terminal')
    /\ "progress" \in cut'
    /\ at # "publishing" /\ at' # "publishing"
    /\ tracking'

CorrectionBegun ==
    /\ terminal = "cancelled" /\ terminal' \in Failures
    /\ Begun("correction", terminal')
    /\ "final" \in cut'
    /\ at # "publishing" /\ at' # "publishing"
    /\ tracking

LEMMA FailureStarts ==
    ASSUME TypeOK, NEW error \in Failures, NEW already \in SUBSET Publications,
           StartProgressFailure(error, already), UNCHANGED gitHubVars,
           tracking => at # "publishing" /\ at' # "publishing" /\ tracking'
    PROVE  Kept \/ FinalBegun \/ CorrectionBegun
<1> USE DEF reporterVars, Begun, Failures
<1>1. CASE ~(tracking /\ (attempt = "none" \/ (attempt = "cancelled" /\ error # "cancelled")))
  BY <1>1 DEF StartProgressFailure, Kept, TypeOK, ProgressTypeOK
<1>2. CASE tracking /\ (attempt = "none" \/ (attempt = "cancelled" /\ error # "cancelled"))
  <2>1. Fail(error, already)
    BY <1>2 DEF StartProgressFailure
  <2>2. CASE terminal = "none" /\ PublishTerminal(error, already)
    BY <1>2, <2>2 DEF PublishTerminal, FinalBegun, TypeOK, ProgressTypeOK, Publications
  <2>3. CASE /\ terminal = "cancelled" /\ error # "cancelled"
             /\ CorrectProvisionalTerminal(error, already)
    BY <1>2, <2>3 DEF CorrectProvisionalTerminal, CorrectionBegun, TypeOK, ProgressTypeOK,
       Publications
  <2>4. CASE cut' = cut \cup already /\ UNCHANGED <<pc, body, said, terminal>>
    BY <2>4 DEF Kept, TypeOK, ProgressTypeOK
  <2> QED
    BY <2>1, <2>2, <2>3, <2>4 DEF Fail
<1> QED
  BY <1>1, <1>2

LEMMA TellStarts ==
    ASSUME TypeOK, NEW text \in Bodies, Tell(text), UNCHANGED tracking,
           at \in {"turn", "finalize", "validating"}, at' \in {"hook", "finalizing", "retry"}
    PROVE  Kept \/ ProgressBegun
BY DEF Tell, Update, Kept, ProgressBegun, Begun, reporterVars, TypeOK, ProgressTypeOK

\* Nothing else happens to the comment while the Controller goes on.
LEMMA ControllerSteps ==
    ASSUME LifecycleInv, Controller
    PROVE  Kept \/ ProgressBegun \/ ResultBegun \/ FinalBegun \/ CorrectionBegun \/ Report
<1> USE DEF LifecycleInv, reporterVars, settings
<1>1. ASSUME UNCHANGED progressVars PROVE Kept
  BY <1>1 DEF Kept, progressVars, gitHubVars, TypeOK, ProgressTypeOK
<1>2. CASE Prepare
  BY <1>2 DEF Prepare, Update, Goto, Kept, ProgressBegun, Begun, TypeOK, ProgressTypeOK, Bodies,
     Publish
<1>3. CASE Announced
  <2>1. CASE Aborted
    <3>1. Reason \in Failures
      BY DEF Reason, Failures
    <3>2. StartProgressFailure(Reason, {}) /\ UNCHANGED gitHubVars
          /\ at = "announce" /\ at' = "finish" /\ UNCHANGED tracking
      BY <1>3, <2>1 DEF Announced, Goto
    <3> QED
      BY <3>1, <3>2, FailureStarts
  <2>2. CASE ~Aborted
    BY <1>3, <2>2 DEF Announced, Kept, TypeOK, ProgressTypeOK
  <2> QED
    BY <2>1, <2>2
<1>4. CASE BeginTurn
  <2>1. CASE TurnsLeft /\ ~Aborted
    <3>1. Tell("turn") /\ at = "turn" /\ at' = "hook" /\ UNCHANGED tracking
      BY <1>4, <2>1 DEF BeginTurn, Goto
    <3> QED
      BY <3>1, TellStarts DEF Bodies
  <2>2. CASE ~(TurnsLeft /\ ~Aborted)
    BY <1>1, <1>4, <2>2 DEF BeginTurn
  <2> QED
    BY <2>1, <2>2
<1>5. CASE FinalizeReview
  <2>1. Tell("finalizing") /\ at = "finalize" /\ at' = "finalizing" /\ UNCHANGED tracking
    BY <1>5 DEF FinalizeReview, Goto
  <2> QED
    BY <2>1, TellStarts DEF Bodies
<1>6. CASE ValidationRetried
  <2>1. /\ Tell("retry") /\ at \in {"finalize", "validating"} /\ at' = "retry"
        /\ UNCHANGED tracking
    BY <1>6 DEF ValidationRetried, Goto
  <2> QED
    BY <2>1, TellStarts DEF Bodies
<1>7. CASE PublishResult
  BY <1>7 DEF PublishResult, ResultBegun, Begun, Goto, TypeOK, ProgressTypeOK
<1>8. CASE CloseComment
  <2>1. CASE verdict \in Failures
    <3>1. /\ StartProgressFailure(verdict, {}) /\ UNCHANGED gitHubVars
          /\ at = "cleanup" /\ at' = "dispose" /\ UNCHANGED tracking
      BY <1>8, <2>1 DEF CloseComment, Goto, Failures
    <3> QED
      BY <2>1, <3>1, FailureStarts
  <2>2. CASE verdict = "neutral"
    BY <1>8, <2>2 DEF CloseComment, Goto, Close, PublishTerminal, Publish, FinalBegun, Begun,
       Kept, Failures,
          TypeOK, ProgressTypeOK, Publications
  <2>3. CASE verdict = "success"
    BY <1>8, <2>3 DEF CloseComment, Goto, Close, PublishTerminal, Publish, FinalBegun, Begun,
       Kept, Failures,
          TypeOK, ProgressTypeOK, Publications
  <2> QED
    BY <1>8, <2>1, <2>2, <2>3 DEF CloseComment
<1>9. CASE Disposed
  <2>1. /\ StartProgressFailure(verdict, {}) /\ UNCHANGED gitHubVars /\ verdict \in Failures
        /\ at = "dispose" /\ at' = "finish" /\ UNCHANGED tracking
    BY <1>9 DEF Disposed, Goto
  <2> QED
    BY <2>1, FailureStarts
<1>10. CASE \/ PreparationFails \/ WorkspacePrepared \/ ExecutionPrepared \/ HookEnds
            \/ AgentAnswers \/ AgentFails \/ AgentBlocked \/ ReviewAnnounced
            \/ FinalizeAnswer \/ FinalizeWrite \/ WriteValidated \/ WriteFound \/ WriteDone
            \/ FinalizerFails \/ ResultPublished \/ Closed
  BY <1>1, <1>10 DEF PreparationFails, WorkspacePrepared, ExecutionPrepared, HookEnds,
        AgentAnswers, AgentFails, AgentBlocked, ReviewAnnounced, FinalizeAnswer,
        FinalizeWrite, WriteValidated, WriteFound, WriteDone, FinalizerFails,
        ResultPublished, Closed
<1> QED
  BY <1>2, <1>3, <1>4, <1>5, <1>6, <1>7, <1>8, <1>9, <1>10 DEF Controller

LEMMA SignalSteps ==
    ASSUME LifecycleInv, UserCancels \/ DeadlineExpires
    PROVE  Kept \/ FinalBegun \/ CorrectionBegun
<1> USE DEF LifecycleInv, settings
<1>1. CASE UserCancels
  <2>1. CASE phase \in {"publication", "write"}
    BY <1>1, <2>1 DEF UserCancels, Kept, RunSignal, TypeOK, ProgressTypeOK, Publications
  <2>2. CASE phase \notin {"publication", "write"}
    <3>1. /\ StartProgressFailure("cancelled", RunSignal) /\ UNCHANGED gitHubVars
          /\ UNCHANGED <<at, tracking>>
      BY <1>1, <2>2 DEF UserCancels
    <3>2. tracking => at # "publishing"
      BY <2>2 DEF Whereabouts, Telling, Provisional, Ending
    <3> QED
      BY <3>1, <3>2, FailureStarts DEF RunSignal, Publications, Failures
  <2> QED
    BY <2>1, <2>2
<1>2. CASE DeadlineExpires
  BY <1>2 DEF DeadlineExpires, Kept, RunSignal, TypeOK, ProgressTypeOK, Publications
<1> QED
  BY <1>1, <1>2

-----------------------------------------------------------------------------
(* Of the publications that overlap, one has a signal that is not aborted, *)
(* and it is the latest.                                                   *)

LEMMA PublishingIsQuiet ==
    ASSUME LifecycleInv, at = "publishing"
    PROVE  terminal = "none"
BY DEF LifecycleInv, Telling, Provisional, Ending, TypeOK

LEMMA InFlightIsLatest ==
    ASSUME LifecycleInv, NEW p \in Publications \ cut, ~Idle(p)
    PROVE  Latest(p)
<1> USE DEF LifecycleInv, Latest, After, Superseded
<1>1. CASE p = "progress"
  BY <1>1 DEF ProgressAwaited
<1>2. CASE p = "result"
  BY <1>2, PublishingIsQuiet DEF ResultInPlace
<1>3. CASE p \in {"final", "correction"}
  BY <1>3
<1> QED
  BY <1>1, <1>2, <1>3 DEF Publications

LEMMA LatestIsAlone ==
    ASSUME LifecycleInv, NEW p \in Publications, body[p] # "none", Latest(p),
           NEW q \in Publications \ cut, ~Idle(q)
    PROVE  q = p
<1> USE DEF LifecycleInv, Latest, After, Superseded
<1>1. body[q] # "none"
  BY DEF InFlight
<1>2. Latest(q)
  BY InFlightIsLatest
<1> QED
  BY <1>1, <1>2 DEF Publications

LEMMA Alone ==
    ASSUME LifecycleInv, NEW p \in Publications \ cut, ~Idle(p),
           NEW q \in Publications \ cut, ~Idle(q)
    PROVE  q = p
<1>1. body[p] # "none"
  BY DEF LifecycleInv, InFlight
<1> QED
  BY <1>1, InFlightIsLatest, LatestIsAlone

-----------------------------------------------------------------------------
(* Sequences of at most one comment *)

LEMMA ShortSequence ==
    ASSUME NEW S, NEW s \in Seq(S), Len(s) <= 1
    PROVE  /\ Len(s) = 0 <=> s = <<>>
           /\ Len(s) = 1 => s = <<s[1]>>
           /\ Len(s) \in {0, 1}
<1>0. Len(s) \in Nat
  BY LenProperties
<1>1. Len(s) \in {0, 1}
  <2>1. \A n \in Nat : n <= 1 => n \in {0, 1}
    OBVIOUS
  <2> QED
    BY <1>0, <2>1, Zenon
<1>2. Len(s) = 0 <=> s = <<>>
  BY EmptySeq
<1>3. Len(s) = 1 => s = <<s[1]>>
  <2> SUFFICES ASSUME Len(s) = 1 PROVE s = <<s[1]>>
    OBVIOUS
  <2>1. s[1] \in S
    BY LenProperties
  <2>2. <<s[1]>> \in Seq(S) /\ Len(<<s[1]>>) = 1 /\ <<s[1]>>[1] = s[1]
    BY <2>1
  <2> QED
    BY <2>2, SeqEqual
<1> QED
  BY <1>1, <1>2, <1>3

LEMMA WrittenTypes ==
    ASSUME comments \in Seq(Bodies), NEW a \in Nat, NEW text \in Bodies
    PROVE  Written(a, text) \in Seq(Bodies)
<1>1. CASE a = 0
  BY <1>1, AppendProperties DEF Written
<1>2. CASE a # 0
  <2>1. Written(a, text) = [comments EXCEPT ![a] = text]
    BY <1>2 DEF Written
  <2>2. [comments EXCEPT ![a] = text] \in [1..Len(comments) -> Bodies]
    BY LenProperties
  <2>3. [comments EXCEPT ![a] = text] \in Seq(Bodies)
    BY <2>2, LenProperties
  <2> QED
    BY <2>1, <2>3
<1> QED
  BY <1>1, <1>2

LEMMA WrittenAtEnd ==
    ASSUME comments \in Seq(Bodies), Len(comments) <= 1, NEW text \in Bodies
    PROVE  Written(Len(comments), text) = <<text>>
<1>1. CASE Len(comments) = 0
  <2>1. comments = <<>>
    BY <1>1, EmptySeq
  <2>2. Append(<<>>, text) = <<text>>
    OBVIOUS
  <2> QED
    BY <1>1, <2>1, <2>2 DEF Written
<1>2. CASE Len(comments) = 1
  <2>1. comments = <<comments[1]>>
    BY <1>2, ShortSequence
  <2>2. [comments EXCEPT ![1] = text] = <<text>>
    BY <1>2, <2>1
  <2> QED
    BY <1>2, <2>2 DEF Written
<1> QED
  BY <1>1, <1>2, ShortSequence

-----------------------------------------------------------------------------
(* What is true of the publications stays so.                              *)

ProgressPart == ProgressTypeOK /\ InFlight /\ Superseded /\ CommentsTrue

LEMMA KeptKeeps ==
    ASSUME LifecycleInv, Kept
    PROVE  ProgressPart'
<1> USE DEF LifecycleInv, Kept, gitHubVars
<1>1. ProgressTypeOK'
  BY DEF TypeOK, ProgressTypeOK
<1>2. InFlight'
  BY DEF InFlight, Idle
<1>3. Superseded'
  BY DEF Superseded
<1>4. CommentsTrue'
  BY DEF CommentsTrue, OneSay, Latest, After
<1> QED
  BY <1>1, <1>2, <1>3, <1>4 DEF ProgressPart

LEMMA BegunKeeps ==
    ASSUME LifecycleInv, NEW p \in Publications, NEW text \in Bodies, Begun(p, text)
    PROVE  /\ pc' \in [Publications -> {"idle", "list", "sent", "served", "relist"}]
           /\ body' \in [Publications -> Bodies \cup {"none"}]
           /\ said' \in [Publications -> {"none", "ok", "failed"}]
           /\ body' = [body EXCEPT ![p] = text] /\ text # "none"
           /\ InFlight' /\ CommentsTrue'
<1> USE DEF LifecycleInv, Begun, Publish, gitHubVars
<1>1. /\ pc' \in [Publications -> {"idle", "list", "sent", "served", "relist"}]
      /\ body' \in [Publications -> Bodies \cup {"none"}]
      /\ said' \in [Publications -> {"none", "ok", "failed"}]
  BY DEF TypeOK, ProgressTypeOK
<1>2. text # "none"
  BY DEF Bodies, Failures
<1>3. InFlight'
  BY <1>2 DEF InFlight, Idle, TypeOK, ProgressTypeOK
<1>4. ASSUME NEW q \in Publications, Latest(q)' PROVE Latest(q)
  <2>1. \A r \in Publications : r # p => body'[r] = body[r]
    BY DEF TypeOK, ProgressTypeOK
  <2>2. body'[p] = text
    BY DEF TypeOK, ProgressTypeOK
  <2>3. After(q) \subseteq Publications
    BY DEF After, Publications
  <2> QED
    BY <1>2, <1>4, <2>1, <2>2, <2>3 DEF Latest
<1>5. CommentsTrue'
  <2> SUFFICES ASSUME ~overtaken PROVE OneSay'
    BY DEF CommentsTrue
  <2>1. OneSay
    BY DEF CommentsTrue
  <2>2. \A q \in Publications \ cut' :
          /\ pc'[q] = "sent" => aim'[q] = Len(comments')
          /\ pc'[q] = "served" => comments' = <<body'[q]>>
          /\ pc'[q] = "relist" => comments' \in {<<>>, <<body'[q]>>}
    BY <2>1 DEF OneSay, TypeOK, ProgressTypeOK
  <2>3. ASSUME NEW q \in Publications, said'[q] = "ok", Latest(q)'
        PROVE  body'[q] # "none" /\ comments' = <<body'[q]>>
    <3>1. q # p
      BY <2>3 DEF TypeOK, ProgressTypeOK
    <3>2. body'[q] = body[q] /\ said[q] = "ok"
      BY <2>3, <3>1 DEF TypeOK, ProgressTypeOK
    <3> QED
      BY <1>4, <2>1, <2>3, <3>2 DEF OneSay
  <2>4. Len(comments') <= 1
    BY <2>1 DEF OneSay
  <2> QED
    BY <2>2, <2>3, <2>4 DEF OneSay
<1> QED
  BY <1>1, <1>2, <1>3, <1>5

LEMMA StartsKeep ==
    ASSUME LifecycleInv, ProgressBegun \/ ResultBegun \/ FinalBegun \/ CorrectionBegun
    PROVE  ProgressPart'
<1> USE DEF LifecycleInv, Superseded, Publications
<1>0. UNCHANGED gitHubVars /\ cut \subseteq cut' /\ cut' \subseteq Publications
  BY DEF ProgressBegun, ResultBegun, FinalBegun, CorrectionBegun, Begun
<1>1. CASE ProgressBegun
  <2>1. PICK text \in Bodies : Begun("progress", text)
    BY <1>1 DEF ProgressBegun
  <2> QED
    BY <1>0, <1>1, <2>1, BegunKeeps
      DEF ProgressBegun, ProgressPart, gitHubVars, ProgressTypeOK, TypeOK
<1>2. CASE ResultBegun
  BY <1>0, <1>2, BegunKeeps
    DEF ResultBegun, ProgressPart, gitHubVars, ProgressTypeOK, TypeOK, Bodies
<1>3. CASE FinalBegun
  <2>1. terminal' \in Bodies /\ terminal' # "none"
    BY <1>3 DEF FinalBegun, Bodies, Failures
  <2>2. PICK text \in Bodies : text = terminal'
    BY <2>1
  <2>3. Begun("final", text)
    BY <1>3, <2>2 DEF FinalBegun
  <2> QED
    BY <1>0, <1>3, <2>1, <2>3, BegunKeeps
      DEF FinalBegun, ProgressPart, gitHubVars, ProgressTypeOK, TypeOK
<1>4. CASE CorrectionBegun
  <2>1. terminal' \in Bodies /\ terminal' # "none"
    BY <1>4 DEF CorrectionBegun, Bodies, Failures
  <2>2. PICK text \in Bodies : text = terminal'
    BY <2>1
  <2>3. Begun("correction", text)
    BY <1>4, <2>2 DEF CorrectionBegun
  <2> QED
    BY <1>0, <1>4, <2>1, <2>3, BegunKeeps
      DEF CorrectionBegun, ProgressPart, gitHubVars, ProgressTypeOK, TypeOK
<1> QED
  BY <1>1, <1>2, <1>3, <1>4

LEMMA ReportKeeps ==
    ASSUME LifecycleInv, Report
    PROVE  ProgressPart'
<1> USE DEF LifecycleInv, Report
<1>1. ProgressTypeOK'
  <2>1. adrift' \subseteq Request
    BY DEF InFlight, Idle, Request, TypeOK, ProgressTypeOK
  <2> QED
    BY <2>1 DEF TypeOK, ProgressTypeOK
<1>2. InFlight'
  BY DEF InFlight, Idle
<1>3. Superseded'
  BY DEF Superseded
<1>4. CommentsTrue'
  BY DEF CommentsTrue, OneSay, Latest, After
<1> QED
  BY <1>1, <1>2, <1>3, <1>4 DEF ProgressPart

-----------------------------------------------------------------------------
(* The network *)

Upserts ==
    \E p \in Publications :
        \/ Listed(p) \/ Served(p) \/ Answered(p) \/ Relisted(p)
        \/ WriteFails(p) \/ ListFails(p) \/ Rejected(p) \/ FinalizationTimesOut(p)

LEMMA PublishingSteps ==
    ASSUME Publishing
    PROVE  (Upserts \/ AdriftLands \/ AdriftVanishes) /\ UNCHANGED runVars
BY DEF Publishing, Network, Upserts

LEMMA PublishingTypes ==
    ASSUME LifecycleInv, Publishing
    PROVE  ProgressTypeOK'
<1> USE FaultsAssumption DEF LifecycleInv, TypeOK, ProgressTypeOK, InFlight, Idle, End, Fault, gitHubVars
<1>1. ASSUME NEW p \in Publications,
             Listed(p) \/ Answered(p) \/ Relisted(p) \/ ListFails(p) \/ FinalizationTimesOut(p)
      PROVE  ProgressTypeOK'
  <2>1. CASE Listed(p)
    <3>1. LastTracked \in Nat
      BY LenProperties DEF LastTracked
    <3> QED
      BY <2>1, <3>1 DEF Listed
  <2>2. CASE Answered(p)
    BY <2>2 DEF Answered
  <2>3. CASE Relisted(p)
    BY <2>3 DEF Relisted
  <2>4. CASE ListFails(p)
    BY <2>4 DEF ListFails
  <2>5. CASE FinalizationTimesOut(p)
    BY <2>5 DEF FinalizationTimesOut
  <2> QED
    BY <1>1, <2>1, <2>2, <2>3, <2>4, <2>5
<1>2. ASSUME NEW p \in Publications, Served(p) PROVE ProgressTypeOK'
  <2>1. body[p] \in Bodies /\ aim[p] \in Nat
    BY <1>2 DEF Served
  <2>2. comments' \in Seq(Bodies)
    BY <1>2, <2>1, WrittenTypes DEF Served
  <2> QED
    BY <1>2, <2>2 DEF Served
<1>3. ASSUME NEW p \in Publications, WriteFails(p) \/ Rejected(p) PROVE ProgressTypeOK'
  <2>1. pc[p] # "idle"
    BY <1>3 DEF WriteFails, Rejected
  <2>2. [aim |-> aim[p], body |-> body[p]] \in Request
    BY <2>1 DEF Request
  <2>3. adrift' \subseteq Request
    BY <1>3, <2>2 DEF WriteFails, Rejected
  <2>4. /\ pc' \in [Publications -> {"idle", "list", "sent", "served", "relist"}]
        /\ said' \in [Publications -> {"none", "ok", "failed"}]
    BY <1>3 DEF WriteFails, Rejected, Doubted
  <2>5. faults' \in 0..MaxFaults
    BY <1>3 DEF WriteFails, Rejected
  <2> QED
    BY <1>3, <2>3, <2>4, <2>5 DEF WriteFails, Rejected
<1>4. ASSUME AdriftLands PROVE ProgressTypeOK'
  <2>1. PICK r \in adrift :
            /\ comments' = Written(r.aim, r.body)
            /\ adrift' = adrift \ {r}
            /\ overtaken' = TRUE
            /\ UNCHANGED <<pc, body, aim, said, cut, terminal, faults>>
    BY <1>4 DEF AdriftLands
  <2>2. r.aim \in Nat /\ r.body \in Bodies
    BY DEF Request
  <2>3. comments' \in Seq(Bodies)
    BY <2>1, <2>2, WrittenTypes
  <2> QED
    BY <2>1, <2>3
<1>5. ASSUME AdriftVanishes PROVE ProgressTypeOK'
  BY <1>5 DEF AdriftVanishes
<1> QED
  BY <1>1, <1>2, <1>3, <1>4, <1>5, PublishingSteps DEF Upserts

LEMMA PublishingKeepsFlight ==
    ASSUME LifecycleInv, Publishing
    PROVE  InFlight' /\ Superseded'
<1> USE DEF LifecycleInv, TypeOK, ProgressTypeOK, InFlight, Superseded, Idle, End, gitHubVars
<1>1. ASSUME NEW p \in Publications,
             \/ Listed(p) \/ Answered(p) \/ Relisted(p) \/ ListFails(p) \/ Served(p)
             \/ FinalizationTimesOut(p)
      PROVE  InFlight' /\ Superseded'
  BY <1>1 DEF Listed, Answered, Relisted, ListFails, FinalizationTimesOut, Served
<1>2. ASSUME NEW p \in Publications, WriteFails(p) \/ Rejected(p)
      PROVE  InFlight' /\ Superseded'
  <2>1. UNCHANGED <<body, cut, terminal>>
    BY <1>2 DEF WriteFails, Rejected
  <2>2. \A q \in Publications : q # p => pc'[q] = pc[q] /\ said'[q] = said[q]
    BY <1>2 DEF WriteFails, Rejected, Doubted
  <2>3. pc[p] # "idle" /\ (pc'[p] = "idle" \/ said'[p] = said[p])
    BY <1>2 DEF WriteFails, Rejected, Doubted
  <2> QED
    BY <2>1, <2>2, <2>3
<1>3. ASSUME AdriftLands \/ AdriftVanishes
      PROVE  InFlight' /\ Superseded'
  BY <1>3 DEF AdriftLands, AdriftVanishes
<1> QED
  BY <1>1, <1>2, <1>3, PublishingSteps DEF Upserts

\* A request of the one publication that is not aborted.
LEMMA UpsertKeepsComments ==
    ASSUME LifecycleInv, NEW p \in Publications,
           \/ Listed(p) \/ Served(p) \/ Answered(p) \/ Relisted(p)
           \/ WriteFails(p) \/ ListFails(p)
    PROVE  CommentsTrue'
<1> USE DEF LifecycleInv
<1>1. p \in Publications \ cut /\ ~Idle(p)
  BY DEF Listed, Served, Answered, Relisted, WriteFails, ListFails, Idle
<1>2. body[p] \in Bodies /\ body[p] # "none" /\ said[p] = "none"
  BY <1>1 DEF InFlight, TypeOK, ProgressTypeOK
<1>3. SUFFICES ASSUME ~overtaken, ~overtaken' PROVE OneSay'
  BY DEF CommentsTrue, Listed, Served, Answered, Relisted, WriteFails, ListFails, gitHubVars
<1>4. OneSay
  BY <1>3 DEF CommentsTrue
<1>5. UNCHANGED <<body, cut>>
  BY DEF Listed, Served, Answered, Relisted, WriteFails, ListFails
<1>6. \A q \in Publications \ {p} : pc'[q] = pc[q] /\ said'[q] = said[q] /\ aim'[q] = aim[q]
  BY DEF Listed, Served, Answered, Relisted, WriteFails, ListFails, End, Doubted, gitHubVars,
         TypeOK, ProgressTypeOK
<1>7. \A q \in Publications \ {p} : pc[q] # "idle" => q \in cut
  BY <1>1, Alone DEF Idle
<1>8. \A q \in Publications \ {p} : said[q] = "ok" => ~Latest(q)
  <2> SUFFICES ASSUME NEW q \in Publications \ {p}, said[q] = "ok", Latest(q) PROVE FALSE
    OBVIOUS
  <2>1. body[q] # "none"
    BY <1>4 DEF OneSay
  <2> QED
    BY <1>1, <2>1, LatestIsAlone
<1>9. \A q \in Publications : Latest(q)' = Latest(q)
  BY <1>5 DEF Latest
<1>10. /\ Len(comments') <= 1
       /\ pc'[p] = "sent" => aim'[p] = Len(comments')
       /\ pc'[p] = "served" => comments' = <<body[p]>>
       /\ pc'[p] = "relist" => comments' \in {<<>>, <<body[p]>>}
       /\ said'[p] = "ok" => comments' = <<body[p]>>
  <2> USE <1>1, <1>2, <1>4 DEF OneSay, TypeOK, ProgressTypeOK
  <2>1. CASE Listed(p)
    BY <2>1 DEF Listed, LastTracked
  <2>2. CASE Served(p)
    <3>1. comments' = <<body[p]>>
      BY <2>2, WrittenAtEnd DEF Served
    <3> QED
      BY <2>2, <3>1 DEF Served
  <2>3. CASE Answered(p)
    BY <2>3 DEF Answered, End, gitHubVars
  <2>4. CASE Relisted(p)
    <3>1. comments \in {<<>>, <<body[p]>>}
      BY <2>4 DEF Relisted
    <3>2. Len(<<>>) = 0
      OBVIOUS
    <3> QED
      BY <2>4, <3>1, <3>2 DEF Relisted, End, LastTracked, gitHubVars
  <2>5. CASE WriteFails(p)
    <3>1. aim[p] = 0 => comments = <<>> \/ comments = <<body[p]>>
      BY <2>5, ShortSequence DEF WriteFails
    <3> QED
      BY <2>5, <3>1 DEF WriteFails, Doubted, End
  <2>6. CASE ListFails(p)
    BY <2>6 DEF ListFails, End
  <2> QED
    BY <2>1, <2>2, <2>3, <2>4, <2>5, <2>6
<1>11. ASSUME NEW q \in Publications \ cut'
       PROVE  /\ pc'[q] = "sent" => aim'[q] = Len(comments')
              /\ pc'[q] = "served" => comments' = <<body'[q]>>
              /\ pc'[q] = "relist" => comments' \in {<<>>, <<body'[q]>>}
  BY <1>5, <1>6, <1>7, <1>10
<1>12. ASSUME NEW q \in Publications, said'[q] = "ok", Latest(q)'
       PROVE  body'[q] # "none" /\ comments' = <<body'[q]>>
  BY <1>2, <1>5, <1>6, <1>8, <1>9, <1>10, <1>12
<1> QED
  BY <1>10, <1>11, <1>12 DEF OneSay

LEMMA PublishingKeepsComments ==
    ASSUME LifecycleInv, Publishing
    PROVE  CommentsTrue'
<1> USE DEF LifecycleInv
<1>1. ASSUME NEW p \in Publications, Rejected(p) \/ FinalizationTimesOut(p)
      PROVE  CommentsTrue'
  <2>1. UNCHANGED <<comments, body, aim, overtaken>> /\ cut \subseteq cut'
    BY <1>1 DEF Rejected, FinalizationTimesOut, gitHubVars
  <2>2. \A q \in Publications : pc'[q] \in {pc[q], "idle"} /\ said'[q] \in {said[q], "failed"}
    BY <1>1 DEF Rejected, FinalizationTimesOut, End, TypeOK, ProgressTypeOK
  <2>3. \A q \in Publications : Latest(q)' = Latest(q)
    BY <2>1 DEF Latest
  <2> QED
    BY <2>1, <2>2, <2>3 DEF CommentsTrue, OneSay
<1>2. ASSUME AdriftLands PROVE CommentsTrue'
  BY <1>2 DEF AdriftLands, CommentsTrue
<1>3. ASSUME AdriftVanishes PROVE CommentsTrue'
  BY <1>3 DEF AdriftVanishes, CommentsTrue, OneSay, Latest, After
<1> QED
  BY <1>1, <1>2, <1>3, UpsertKeepsComments, PublishingSteps DEF Upserts

-----------------------------------------------------------------------------
(* Where the run is, and what it is about to return                        *)

RunTypes ==
    /\ operation \in Operations
    /\ progressComment \in BOOLEAN /\ tracking \in BOOLEAN /\ cleared \in BOOLEAN
    /\ at \in Points
    /\ phase \in {"authorization", "context", "agent", "publication", "validation", "write"}
    /\ turn \in 0..MaxTurns
    /\ reason \in {"none", "cancel", "deadline"}
    /\ cancelled \in BOOLEAN
    /\ attempt \in Failures \cup {"none"}
    /\ verdict \in Failures \cup {"none", "success", "neutral"}
    /\ outcome \in Failures \cup {"none", "success", "neutral"}

LEMMA Failing ==
    /\ FailureOfStep \subseteq Failures
    /\ FailureOfStep \cup {"timeout"} \subseteq Failures
    /\ FailureOfStep \cup (IF Aborted THEN {"cancelled"} ELSE {}) \subseteq Failures
    /\ Reason \in Failures /\ "other" \in Failures /\ "timeout" \in Failures
    /\ "cancelled" \in Failures
    /\ "none" \notin Failures /\ "success" \notin Failures /\ "neutral" \notin Failures
    /\ "blocked" \notin Failures /\ "complete" \notin Failures
BY DEF FailureOfStep, Failures, Reason

LEMMA ControllerWhereabouts ==
    ASSUME LifecycleInv, Controller
    PROVE  Whereabouts'
<1> USE DEF LifecycleInv, Whereabouts, Goto, Phase, Throw, settings
<1>1. CASE \/ Prepare \/ PreparationFails \/ Announced \/ WorkspacePrepared
           \/ ExecutionPrepared
  BY <1>1 DEF Prepare, PreparationFails, Announced, WorkspacePrepared, ExecutionPrepared
<1>2. CASE BeginTurn \/ HookEnds \/ AgentAnswers \/ AgentFails \/ AgentBlocked
  BY <1>2 DEF BeginTurn, HookEnds, AgentAnswers, AgentFails, AgentBlocked
<1>3. CASE \/ FinalizeReview \/ ReviewAnnounced \/ FinalizeAnswer \/ FinalizeWrite
           \/ WriteValidated \/ WriteFound \/ WriteDone
  BY <1>3 DEF FinalizeReview, ReviewAnnounced, FinalizeAnswer, FinalizeWrite,
        WriteValidated, WriteFound, WriteDone, Writes
<1>4. CASE \/ ValidationRetried \/ FinalizerFails \/ PublishResult \/ ResultPublished
  BY <1>4 DEF ValidationRetried, FinalizerFails, PublishResult, ResultPublished
<1>5. CASE CloseComment \/ Closed \/ Disposed \/ Report
  BY <1>5 DEF CloseComment, Closed, Disposed, Report
<1> QED
  BY <1>1, <1>2, <1>3, <1>4, <1>5 DEF Controller

LEMMA ControllerVerdicts ==
    ASSUME LifecycleInv, Controller
    PROVE  Verdicts'
<1> USE Failing DEF LifecycleInv, Verdicts, Goto, Throw, settings, Ending
<1>1. CASE \/ Prepare \/ PreparationFails \/ Announced \/ WorkspacePrepared
           \/ ExecutionPrepared
  BY <1>1 DEF Prepare, PreparationFails, Announced, WorkspacePrepared, ExecutionPrepared
<1>2. CASE BeginTurn \/ HookEnds \/ AgentAnswers \/ AgentFails \/ AgentBlocked
  BY <1>2 DEF BeginTurn, HookEnds, AgentAnswers, AgentFails, AgentBlocked
<1>3. CASE \/ FinalizeReview \/ ReviewAnnounced \/ FinalizeAnswer \/ FinalizeWrite
           \/ WriteValidated \/ WriteFound \/ WriteDone
  BY <1>3 DEF FinalizeReview, ReviewAnnounced, FinalizeAnswer, FinalizeWrite,
        WriteValidated, WriteFound, WriteDone
<1>4. CASE \/ ValidationRetried \/ FinalizerFails \/ PublishResult \/ ResultPublished
  BY <1>4 DEF ValidationRetried, FinalizerFails, PublishResult, ResultPublished
<1>5. CASE CloseComment \/ Closed \/ Disposed \/ Report
  BY <1>5 DEF CloseComment, Closed, Disposed, Report
<1> QED
  BY <1>1, <1>2, <1>3, <1>4, <1>5 DEF Controller

LEMMA ControllerClearedFirst ==
    ASSUME LifecycleInv, Controller
    PROVE  ClearedFirst'
<1> USE Failing DEF LifecycleInv, ClearedFirst, Goto, Throw, settings, Verdicts, Ending
<1>1. CASE \/ Prepare \/ PreparationFails \/ Announced \/ WorkspacePrepared
           \/ ExecutionPrepared
  BY <1>1 DEF Prepare, PreparationFails, Announced, WorkspacePrepared, ExecutionPrepared
<1>2. CASE BeginTurn \/ HookEnds \/ AgentAnswers \/ AgentFails \/ AgentBlocked
  BY <1>2 DEF BeginTurn, HookEnds, AgentAnswers, AgentFails, AgentBlocked, Writes
<1>3. CASE \/ FinalizeReview \/ ReviewAnnounced \/ FinalizeAnswer \/ FinalizeWrite
           \/ WriteValidated \/ WriteFound \/ WriteDone
  BY <1>3 DEF FinalizeReview, ReviewAnnounced, FinalizeAnswer, FinalizeWrite,
        WriteValidated, WriteFound, WriteDone, Whereabouts, Writes
<1>4. CASE \/ ValidationRetried \/ FinalizerFails \/ PublishResult \/ ResultPublished
  BY <1>4 DEF ValidationRetried, FinalizerFails, PublishResult, ResultPublished, Writes
<1>5. CASE CloseComment \/ Closed \/ Disposed \/ Report
  BY <1>5 DEF CloseComment, Closed, Disposed, Report
<1> QED
  BY <1>1, <1>2, <1>3, <1>4, <1>5 DEF Controller

LEMMA ControllerTypes ==
    ASSUME LifecycleInv, Controller
    PROVE  RunTypes'
<1> USE Failing DEF LifecycleInv, TypeOK, RunTypes, Goto, Phase, Throw, settings
<1>0. verdict' \in Failures \cup {"none", "success", "neutral"}
  <2>1. CASE \/ Prepare \/ PreparationFails \/ Announced \/ WorkspacePrepared
             \/ ExecutionPrepared \/ BeginTurn \/ HookEnds \/ AgentAnswers \/ AgentFails
             \/ AgentBlocked
    BY <2>1 DEF Prepare, PreparationFails, Announced, WorkspacePrepared, ExecutionPrepared,
          BeginTurn, HookEnds, AgentAnswers, AgentFails, AgentBlocked
  <2>2. CASE \/ FinalizeReview \/ ReviewAnnounced \/ FinalizeAnswer \/ FinalizeWrite
             \/ WriteValidated \/ WriteFound \/ WriteDone \/ ValidationRetried
             \/ FinalizerFails \/ PublishResult \/ ResultPublished
    BY <2>2 DEF FinalizeReview, ReviewAnnounced, FinalizeAnswer, FinalizeWrite,
          WriteValidated, WriteFound, WriteDone, ValidationRetried, FinalizerFails,
          PublishResult, ResultPublished
  <2>3. CASE CloseComment \/ Closed \/ Disposed \/ Report
    BY <2>3 DEF CloseComment, Closed, Disposed, Report
  <2> QED
    BY <2>1, <2>2, <2>3 DEF Controller
<1>1. at' \in Points
  <2>1. CASE \/ Prepare \/ PreparationFails \/ Announced \/ WorkspacePrepared
             \/ ExecutionPrepared \/ BeginTurn \/ HookEnds \/ AgentAnswers \/ AgentFails
             \/ AgentBlocked
    BY <2>1 DEF Prepare, PreparationFails, Announced, WorkspacePrepared, ExecutionPrepared,
          BeginTurn, HookEnds, AgentAnswers, AgentFails, AgentBlocked, Points
  <2>2. CASE \/ FinalizeReview \/ ReviewAnnounced \/ FinalizeAnswer \/ FinalizeWrite
             \/ WriteValidated \/ WriteFound \/ WriteDone \/ ValidationRetried
             \/ FinalizerFails \/ PublishResult \/ ResultPublished
    BY <2>2 DEF FinalizeReview, ReviewAnnounced, FinalizeAnswer, FinalizeWrite,
          WriteValidated, WriteFound, WriteDone, ValidationRetried, FinalizerFails,
          PublishResult, ResultPublished, Points
  <2>3. CASE CloseComment \/ Closed \/ Disposed \/ Report
    BY <2>3 DEF CloseComment, Closed, Disposed, Report, Points
  <2> QED
    BY <2>1, <2>2, <2>3 DEF Controller
<1>2. /\ phase' \in {"authorization", "context", "agent", "publication", "validation", "write"}
      /\ UNCHANGED <<settings, reason, cancelled>>
  <2>1. CASE \/ Prepare \/ PreparationFails \/ Announced \/ WorkspacePrepared
             \/ ExecutionPrepared \/ BeginTurn \/ HookEnds \/ AgentAnswers \/ AgentFails
             \/ AgentBlocked
    BY <2>1 DEF Prepare, PreparationFails, Announced, WorkspacePrepared, ExecutionPrepared,
          BeginTurn, HookEnds, AgentAnswers, AgentFails, AgentBlocked
  <2>2. CASE \/ FinalizeReview \/ ReviewAnnounced \/ FinalizeAnswer \/ FinalizeWrite
             \/ WriteValidated \/ WriteFound \/ WriteDone \/ ValidationRetried
             \/ FinalizerFails \/ PublishResult \/ ResultPublished
    BY <2>2 DEF FinalizeReview, ReviewAnnounced, FinalizeAnswer, FinalizeWrite,
          WriteValidated, WriteFound, WriteDone, ValidationRetried, FinalizerFails,
          PublishResult, ResultPublished
  <2>3. CASE CloseComment \/ Closed \/ Disposed \/ Report
    BY <2>3 DEF CloseComment, Closed, Disposed, Report
  <2> QED
    BY <2>1, <2>2, <2>3 DEF Controller
<1>3. tracking' \in BOOLEAN /\ cleared' \in BOOLEAN /\ turn' \in 0..MaxTurns
  <2>1. turn' \in 0..MaxTurns
    <3>1. BeginTurn => turn' \in 0..MaxTurns
      BY LifecycleAssumption DEF BeginTurn, TurnsLeft
    <3>2. Controller => BeginTurn \/ turn' = turn
      BY DEF Controller, Prepare, PreparationFails, Announced, WorkspacePrepared, ExecutionPrepared,
          HookEnds, AgentAnswers, AgentFails, AgentBlocked, FinalizeReview, ReviewAnnounced,
          FinalizeAnswer, FinalizeWrite, WriteValidated, WriteFound, WriteDone,
          ValidationRetried, FinalizerFails, PublishResult, ResultPublished,
          CloseComment, Closed, Disposed, Report
    <3> QED
      BY <3>1, <3>2
  <2>2. cleared' \in {cleared, TRUE}
    BY DEF Controller, Prepare, PreparationFails, Announced, WorkspacePrepared, ExecutionPrepared,
        BeginTurn, HookEnds, AgentAnswers, AgentFails, AgentBlocked, FinalizeReview,
        ReviewAnnounced, FinalizeAnswer, FinalizeWrite, WriteValidated, WriteFound, WriteDone,
        ValidationRetried, FinalizerFails, PublishResult, ResultPublished,
        CloseComment, Closed, Disposed, Report
  <2>3. Prepare \/ CloseComment \/ UNCHANGED tracking
    BY DEF Controller, PreparationFails, Announced, WorkspacePrepared, ExecutionPrepared,
        BeginTurn, HookEnds, AgentAnswers, AgentFails, AgentBlocked, FinalizeReview,
        ReviewAnnounced, FinalizeAnswer, FinalizeWrite, WriteValidated, WriteFound, WriteDone,
        ValidationRetried, FinalizerFails, PublishResult, ResultPublished,
        Closed, Disposed, Report
  <2>4. tracking' \in BOOLEAN
    <3>1. Prepare => tracking' \in BOOLEAN
      BY Zenon DEF Prepare
    <3>2. CloseComment => tracking' \in BOOLEAN
      BY Zenon DEF CloseComment
    <3> QED
      BY <2>3, <3>1, <3>2
  <2> QED
    BY <2>1, <2>2, <2>4
<1>4. attempt' \in Failures \cup {"none"}
  <2>1. ASSUME NEW error \in Failures, NEW already, StartProgressFailure(error, already)
        PROVE  attempt' \in Failures \cup {"none"}
    BY <2>1 DEF StartProgressFailure
  <2>2. CASE Announced
    BY <2>1, <2>2 DEF Announced
  <2>3. CASE CloseComment
    BY <2>1, <2>3 DEF CloseComment
  <2>4. CASE Disposed
    BY <2>1, <2>4 DEF Disposed
  <2>5. Announced \/ CloseComment \/ Disposed \/ UNCHANGED attempt
    BY DEF Controller, Prepare, PreparationFails, WorkspacePrepared, ExecutionPrepared,
        BeginTurn, HookEnds, AgentAnswers, AgentFails, AgentBlocked, FinalizeReview,
        ReviewAnnounced, FinalizeAnswer, FinalizeWrite, WriteValidated, WriteFound, WriteDone,
        ValidationRetried, FinalizerFails, PublishResult, ResultPublished, Closed, Report
  <2> QED
    BY <2>2, <2>3, <2>4, <2>5
<1>5. outcome' \in {outcome, verdict}
  BY DEF Controller, Prepare, PreparationFails, Announced, WorkspacePrepared, ExecutionPrepared,
      BeginTurn, HookEnds, AgentAnswers, AgentFails, AgentBlocked, FinalizeReview,
      ReviewAnnounced, FinalizeAnswer, FinalizeWrite, WriteValidated, WriteFound, WriteDone,
      ValidationRetried, FinalizerFails, PublishResult, ResultPublished,
      CloseComment, Closed, Disposed, Report
<1> QED
  BY <1>0, <1>1, <1>2, <1>3, <1>4, <1>5

-----------------------------------------------------------------------------
(* The publications and the place of the run                               *)

\* What the Controller waits for before it goes on.
LEMMA ControllerMoves ==
    ASSUME LifecycleInv, Controller
    PROVE  /\ at \in {"publishing", "cleanup"} \cup Ending => at' \in {"cleanup"} \cup Ending
           /\ at = "publishing" => Idle("result")
           /\ at \in {"announce", "finalizing"} => Idle("progress")
           /\ at \in {"hook", "retry"} => Idle("progress") \/ at' = "cleanup"
           /\ at \in {"cleanup"} \cup Ending => at' \in Ending
<1> USE DEF Goto, Throw, Ending
<1>1. CASE \/ Prepare \/ PreparationFails \/ Announced \/ WorkspacePrepared
           \/ ExecutionPrepared
  BY <1>1 DEF Prepare, PreparationFails, Announced, WorkspacePrepared, ExecutionPrepared
<1>2. CASE BeginTurn \/ HookEnds \/ AgentAnswers \/ AgentFails \/ AgentBlocked
  BY <1>2 DEF BeginTurn, HookEnds, AgentAnswers, AgentFails, AgentBlocked
<1>3. CASE \/ FinalizeReview \/ ReviewAnnounced \/ FinalizeAnswer \/ FinalizeWrite
           \/ WriteValidated \/ WriteFound \/ WriteDone
  BY <1>3 DEF FinalizeReview, ReviewAnnounced, FinalizeAnswer, FinalizeWrite,
        WriteValidated, WriteFound, WriteDone
<1>4. CASE \/ ValidationRetried \/ FinalizerFails \/ PublishResult \/ ResultPublished
  BY <1>4 DEF ValidationRetried, FinalizerFails, PublishResult, ResultPublished
<1>5. CASE CloseComment \/ Closed \/ Disposed \/ Report
  BY <1>5 DEF CloseComment, Closed, Disposed, Report
<1> QED
  BY <1>1, <1>2, <1>3, <1>4, <1>5 DEF Controller

LEMMA ControllerPlaces ==
    ASSUME LifecycleInv, Controller
    PROVE  ResultInPlace' /\ ProgressAwaited'
<1> USE ControllerMoves DEF LifecycleInv, ResultInPlace, ProgressAwaited, Idle, TypeOK, ProgressTypeOK
<1>1. CASE Kept
  BY <1>1 DEF Kept
<1>2. CASE ProgressBegun
  BY <1>2 DEF ProgressBegun, Begun, Publish, Publications, Ending
<1>3. CASE ResultBegun
  BY <1>3 DEF ResultBegun, Begun, Publish, Publications, Ending
<1>4. CASE FinalBegun
  BY <1>4 DEF FinalBegun, Begun, Publish, Publications
<1>5. CASE CorrectionBegun
  BY <1>5 DEF CorrectionBegun, Begun, Publish, Publications, Superseded
<1>6. CASE Report
  BY <1>6 DEF Report, Publications
<1> QED
  BY <1>1, <1>2, <1>3, <1>4, <1>5, <1>6, ControllerSteps

LEMMA SignalPlaces ==
    ASSUME LifecycleInv, UserCancels \/ DeadlineExpires
    PROVE  ResultInPlace' /\ ProgressAwaited'
<1> USE DEF LifecycleInv, ResultInPlace, ProgressAwaited, Idle, TypeOK, ProgressTypeOK
<1>0. UNCHANGED at
  BY DEF UserCancels, DeadlineExpires
<1>1. CASE Kept
  BY <1>0, <1>1 DEF Kept
<1>2. CASE FinalBegun
  BY <1>0, <1>2 DEF FinalBegun, Begun, Publish, Publications
<1>3. CASE CorrectionBegun
  BY <1>0, <1>3 DEF CorrectionBegun, Begun, Publish, Publications, Superseded
<1> QED
  BY <1>1, <1>2, <1>3, SignalSteps

-----------------------------------------------------------------------------
(* The silence of writes *)

LEMMA Tracked ==
    ASSUME LifecycleInv, Controller, operation \in Writes, ~cleared', ~tracking
    PROVE  ~tracking' /\ ~cleared
<1> USE DEF LifecycleInv, ClearedFirst, TypeOK
<1>1. CASE Prepare
  BY <1>1, Zenon DEF Prepare, Deferred
<1>2. CASE CloseComment
  BY <1>2, Failing DEF CloseComment
<1>3. CASE ~Prepare /\ ~CloseComment
  BY <1>3 DEF Controller, PreparationFails, Announced, WorkspacePrepared, ExecutionPrepared,
      BeginTurn, HookEnds, AgentAnswers, AgentFails, AgentBlocked, FinalizeReview,
      ReviewAnnounced, FinalizeAnswer, FinalizeWrite, WriteValidated, WriteFound, WriteDone,
      ValidationRetried, FinalizerFails, PublishResult, ResultPublished,
      Closed, Disposed, Report
<1> QED
  BY <1>1, <1>2, <1>3

LEMMA ControllerSilence ==
    ASSUME LifecycleInv, Controller
    PROVE  Silence'
<1> SUFFICES ASSUME operation' \in Writes, ~cleared' PROVE Silent'
  BY DEF Silence
<1> USE DEF LifecycleInv
<1>0. UNCHANGED operation
  BY DEF Controller, Prepare, PreparationFails, Announced, WorkspacePrepared,
      ExecutionPrepared, BeginTurn, HookEnds, AgentAnswers, AgentFails, AgentBlocked,
      FinalizeReview, ReviewAnnounced, FinalizeAnswer, FinalizeWrite, WriteValidated,
      WriteFound, WriteDone, ValidationRetried, FinalizerFails, PublishResult,
      ResultPublished, CloseComment, Closed, Disposed, Report, settings
<1>1. cleared' \in {cleared, TRUE}
  BY DEF Controller, Prepare, PreparationFails, Announced, WorkspacePrepared, ExecutionPrepared,
      BeginTurn, HookEnds, AgentAnswers, AgentFails, AgentBlocked, FinalizeReview,
      ReviewAnnounced, FinalizeAnswer, FinalizeWrite, WriteValidated, WriteFound, WriteDone,
      ValidationRetried, FinalizerFails, PublishResult, ResultPublished,
      CloseComment, Closed, Disposed, Report
<1>2. Silent
  BY <1>0, <1>1 DEF Silence
<1>3. ~tracking' /\ ~cleared
  BY <1>0, <1>2, Tracked DEF Silent
<1>4. CASE Kept
  BY <1>2, <1>3, <1>4 DEF Silent, Kept, gitHubVars
<1>5. CASE ResultBegun
  <2>1. at = "publish"
    BY <1>5 DEF ResultBegun
  <2> QED
    BY <1>0, <1>3, <2>1 DEF ClearedFirst
<1>6. CASE ProgressBegun \/ FinalBegun \/ CorrectionBegun
  BY <1>2, <1>3, <1>6 DEF ProgressBegun, FinalBegun, CorrectionBegun, Silent
<1>7. CASE Report
  <2>1. \A p \in Publications : pc[p] = "idle"
    BY <1>2 DEF Silent, InFlight, Idle
  <2>2. adrift' = {}
    BY <1>2, <1>7, <2>1 DEF Report, Silent
  <2> QED
    BY <1>2, <1>3, <1>7, <2>2 DEF Silent, Report
<1> QED
  BY <1>4, <1>5, <1>6, <1>7, ControllerSteps

LEMMA SignalSilence ==
    ASSUME LifecycleInv, UserCancels \/ DeadlineExpires
    PROVE  Silence'
<1> USE DEF LifecycleInv, Silence
<1>1. UNCHANGED <<operation, cleared, tracking>>
  BY DEF UserCancels, DeadlineExpires, settings
<1>2. CASE Kept
  BY <1>1, <1>2 DEF Silent, Kept, gitHubVars
<1>3. CASE FinalBegun \/ CorrectionBegun
  BY <1>1, <1>3 DEF FinalBegun, CorrectionBegun, Silent
<1> QED
  BY <1>2, <1>3, SignalSteps

-----------------------------------------------------------------------------
(* What the comment tells                                                  *)

\* A failure on the way out is told, also over a provisional cancellation.
LEMMA FailureIsTold ==
    ASSUME LifecycleInv, NEW error \in Failures, NEW already,
           StartProgressFailure(error, already),
           tracking, terminal = attempt, attempt \in {"none", "cancelled"}
    PROVE  terminal' = error /\ attempt' = error
BY Failing DEF StartProgressFailure, Fail, PublishTerminal, CorrectProvisionalTerminal

LEMMA UntrackedIsUntold ==
    ASSUME LifecycleInv, NEW error, NEW already,
           StartProgressFailure(error, already), ~tracking
    PROVE  UNCHANGED <<attempt, terminal>>
BY DEF StartProgressFailure

LEMMA ControllerTelling ==
    ASSUME LifecycleInv, Controller
    PROVE  Telling'
<1> USE Failing DEF LifecycleInv, Telling, Goto, Phase, Throw, settings, Ending
<1>1. CASE Prepare
  <2>1. UNCHANGED <<attempt, terminal, operation, verdict>> /\ ~tracking
        /\ at' \in {"announce", "workspace"}
    BY <1>1 DEF Prepare, Update, reporterVars, Whereabouts
  <2>2. tracking' => operation \notin Writes
    BY <1>1 DEF Prepare, Deferred
  <2>3. verdict = "none"
    BY <1>1 DEF Prepare, Verdicts
  <2> QED
    BY <2>1, <2>2, <2>3 DEF Provisional
<1>2. CASE Announced
  <2>1. CASE Aborted
    <3>1. /\ StartProgressFailure(Reason, {}) /\ verdict' = Reason /\ at' = "finish"
          /\ UNCHANGED tracking /\ at = "announce"
      BY <1>2, <2>1 DEF Announced
    <3>2. CASE tracking
      <4>1. terminal = attempt /\ attempt \in {"none", "cancelled"}
        BY <3>1, <3>2 DEF Provisional
      <4> QED
        BY <3>1, <3>2, <4>1, FailureIsTold DEF Told
    <3>3. CASE ~tracking
      BY <3>1, <3>3, UntrackedIsUntold
    <3> QED
      BY <3>2, <3>3
  <2>2. CASE ~Aborted
    BY <1>2, <2>2 DEF Announced, Provisional, reporterVars, Verdicts, Aborted
  <2> QED
    BY <2>1, <2>2
<1>3. CASE \/ PreparationFails \/ WorkspacePrepared \/ ExecutionPrepared
  BY <1>3 DEF PreparationFails, WorkspacePrepared, ExecutionPrepared, progressVars,
        Provisional, Whereabouts, Verdicts, Aborted
<1>4. CASE BeginTurn \/ HookEnds \/ AgentAnswers \/ AgentFails
  BY <1>4 DEF BeginTurn, HookEnds, AgentAnswers, AgentFails, progressVars, Tell, Update,
        reporterVars, Provisional, Verdicts, Aborted
<1>5. CASE AgentBlocked
  BY <1>5 DEF AgentBlocked, progressVars, Provisional, Verdicts, Aborted
<1>6. CASE \/ FinalizeReview \/ ReviewAnnounced \/ FinalizeAnswer \/ FinalizeWrite
           \/ WriteValidated
  BY <1>6 DEF FinalizeReview, ReviewAnnounced, FinalizeAnswer, FinalizeWrite, WriteValidated,
        progressVars, Tell, Update, reporterVars, Provisional, Verdicts, Aborted
<1>7. CASE WriteFound \/ WriteDone
  BY <1>7 DEF WriteFound, WriteDone, progressVars, Provisional, Writes, Whereabouts
<1>8. CASE \/ ValidationRetried \/ FinalizerFails
  BY <1>8 DEF ValidationRetried, FinalizerFails, progressVars, Tell, Update, reporterVars,
        Provisional, Verdicts, Aborted
<1>9. CASE PublishResult
  BY <1>9 DEF PublishResult, Provisional, Verdicts, Whereabouts, Aborted
<1>10. CASE ResultPublished
  BY <1>10 DEF ResultPublished, progressVars, Provisional, Verdicts, Aborted, Writes
<1>11. CASE CloseComment
  <2>1. at = "cleanup" /\ at' \in {"closing", "dispose"} /\ UNCHANGED <<operation, phase, verdict>>
    BY <1>11 DEF CloseComment
  <2>2. CASE verdict \in Failures
    <3>1. StartProgressFailure(verdict, {}) /\ UNCHANGED tracking
      BY <1>11, <2>2 DEF CloseComment
    <3>2. CASE tracking
      <4>1. terminal = attempt /\ attempt \in {"none", "cancelled"}
        BY <2>1, <3>2 DEF Provisional
      <4> QED
        BY <2>1, <2>2, <3>1, <3>2, <4>1, FailureIsTold DEF Told
    <3>3. CASE ~tracking
      BY <3>1, <3>3, UntrackedIsUntold
    <3> QED
      BY <3>2, <3>3
  <2>3. CASE verdict = "neutral"
    <3>1. tracking => terminal = "none"
      BY <2>1, <2>3 DEF Provisional
    <3> QED
      BY <1>11, <2>1, <2>3, <3>1 DEF CloseComment, Close, PublishTerminal, reporterVars, Told
  <2>4. CASE verdict = "success"
    <3>1. terminal = "none" /\ attempt = "none"
      BY <2>1, <2>4 DEF Provisional
    <3>2. tracking /\ operation # "edit" => phase = "publication"
      BY <2>1, <2>4 DEF Provisional
    <3>3. /\ tracking' => tracking \/ operation = "edit"
          /\ operation = "edit" /\ tracking' => Close("complete")
          /\ ~(operation = "edit" /\ tracking') => UNCHANGED reporterVars
          /\ UNCHANGED attempt
      BY <1>11, <2>4 DEF CloseComment
    <3> QED
      BY <2>1, <2>4, <3>1, <3>2, <3>3 DEF Close, PublishTerminal, reporterVars, Told
  <2> QED
    BY <1>11, <2>2, <2>3, <2>4 DEF CloseComment
<1>12. CASE Closed \/ Report
  BY <1>12 DEF Closed, Report, progressVars, Told
<1>13. CASE Disposed
  <2>1. /\ StartProgressFailure(verdict, {}) /\ verdict \in Failures
        /\ at = "dispose" /\ at' = "finish" /\ UNCHANGED <<tracking, operation, phase, verdict>>
    BY <1>13 DEF Disposed
  <2>2. CASE tracking
    <3>1. terminal = verdict /\ attempt = verdict
      BY <2>1, <2>2 DEF Told
    <3>2. UNCHANGED <<attempt, terminal>>
      BY <2>1, <3>1 DEF StartProgressFailure
    <3> QED
      BY <2>1, <3>1, <3>2 DEF Told
  <2>3. CASE ~tracking
    BY <2>1, <2>3, UntrackedIsUntold
  <2> QED
    BY <2>2, <2>3
<1> QED
  BY <1>1, <1>2, <1>3, <1>4, <1>5, <1>6, <1>7, <1>8, <1>9, <1>10, <1>11, <1>12, <1>13
    DEF Controller

LEMMA SignalTelling ==
    ASSUME LifecycleInv, UserCancels \/ DeadlineExpires
    PROVE  Telling'
<1> USE Failing DEF LifecycleInv, Telling, settings, Ending
<1>1. CASE DeadlineExpires
  BY <1>1 DEF DeadlineExpires, Provisional, Told, Aborted
<1>2. CASE UserCancels
  <2>1. UNCHANGED <<operation, tracking, at, phase, verdict>> /\ reason' # "none" /\ at # "over"
    BY <1>2 DEF UserCancels, Aborted
  <2>2. CASE UNCHANGED <<attempt, terminal>>
    BY <2>1, <2>2 DEF Provisional, Told, Aborted
  <2>3. CASE ~ UNCHANGED <<attempt, terminal>>
    <3>1. phase \notin {"publication", "write"} /\ StartProgressFailure("cancelled", RunSignal)
      BY <1>2, <2>3 DEF UserCancels
    <3>2. tracking /\ attempt = "none" /\ attempt' = "cancelled" /\ Fail("cancelled", RunSignal)
      BY <2>3, <3>1 DEF StartProgressFailure
    <3>3. CASE at \notin Ending
      <4>1. terminal' = "cancelled"
        BY <3>1, <3>2, <3>3, FailureIsTold DEF Provisional
      <4> QED
        BY <2>1, <3>1, <3>2, <3>3, <4>1 DEF Provisional, Aborted
    <3>4. CASE at \in Ending
      <4>1. Told /\ verdict \notin Failures /\ terminal # "none"
        BY <3>1, <3>2, <3>4 DEF Told
      <4>2. UNCHANGED terminal
        BY <3>2, <4>1 DEF Fail, Told
      <4> QED
        BY <2>1, <3>1, <3>2, <3>4, <4>1, <4>2 DEF Told
    <3> QED
      BY <3>3, <3>4
  <2> QED
    BY <2>2, <2>3
<1> QED
  BY <1>1, <1>2

-----------------------------------------------------------------------------
(* Steps of the network and of the signals leave the run where it is       *)

LEMMA PublishingRest ==
    ASSUME LifecycleInv, Publishing
    PROVE  /\ ResultInPlace' /\ ProgressAwaited' /\ Silence'
           /\ ClearedFirst' /\ Whereabouts' /\ Verdicts' /\ Telling' /\ RunTypes'
<1> USE PublishingSteps DEF LifecycleInv, runVars, settings
<1>1. UNCHANGED <<body, terminal>> /\ cut \subseteq cut'
  BY DEF Upserts, Listed, Served, Answered, Relisted, WriteFails, ListFails, Rejected,
      FinalizationTimesOut, AdriftLands, AdriftVanishes, gitHubVars
<1>2. ASSUME NEW p \in Publications, Idle(p) PROVE Idle(p)'
  BY <1>2 DEF Upserts, Listed, Served, Answered, Relisted, WriteFails, ListFails, Rejected,
      FinalizationTimesOut, AdriftLands, AdriftVanishes, gitHubVars, Idle, End, Doubted,
      TypeOK, ProgressTypeOK
<1>3. "progress" \in Publications /\ "result" \in Publications
  BY DEF Publications
<1>4. ResultInPlace' /\ ProgressAwaited'
  BY <1>1, <1>2, <1>3 DEF ResultInPlace, ProgressAwaited
<1>5. Silence'
  <2> SUFFICES ASSUME Silent PROVE Silent'
    BY DEF Silence
  <2>1. \A p \in Publications : Idle(p)
    BY DEF Silent, InFlight
  <2>2. ~Upserts /\ ~AdriftLands
    BY <2>1 DEF Silent, Upserts, Listed, Served, Answered, Relisted, WriteFails, ListFails,
        Rejected, FinalizationTimesOut, AdriftLands, Idle
  <2> QED
    BY <2>2 DEF AdriftVanishes, Silent
<1>6. ClearedFirst' /\ Whereabouts' /\ Verdicts' /\ RunTypes'
  BY DEF ClearedFirst, Whereabouts, Verdicts, RunTypes, TypeOK
<1>7. Telling'
  BY <1>1 DEF Telling, Provisional, Told, Aborted
<1> QED
  BY <1>4, <1>5, <1>6, <1>7

LEMMA SignalRest ==
    ASSUME LifecycleInv, UserCancels \/ DeadlineExpires
    PROVE  ClearedFirst' /\ Whereabouts' /\ Verdicts' /\ RunTypes'
<1> USE DEF LifecycleInv, settings
<1>1. /\ UNCHANGED <<settings, tracking, at, phase, turn, cleared, verdict, outcome>>
      /\ cancelled' \in {cancelled, TRUE} /\ reason' \in {reason, "cancel", "deadline"}
  BY DEF UserCancels, DeadlineExpires
<1>2. attempt' \in {attempt, "cancelled"}
  BY DEF UserCancels, DeadlineExpires, StartProgressFailure
<1>3. ClearedFirst' /\ Whereabouts' /\ Verdicts'
  BY <1>1 DEF ClearedFirst, Whereabouts, Verdicts
<1>4. cancelled' \in BOOLEAN
  BY <1>1, Zenon DEF TypeOK
<1>5. reason' \in {"none", "cancel", "deadline"} /\ attempt' \in Failures \cup {"none"}
  BY <1>1, <1>2, Failing DEF TypeOK
<1>6. RunTypes'
  BY <1>1, <1>4, <1>5 DEF RunTypes, TypeOK
<1> QED
  BY <1>3, <1>6

LEMMA LifecycleInit ==
    ASSUME Init
    PROVE  LifecycleInv
<1> USE DEF Init, ProgressInit
<1>1. TypeOK
  <2>1. comments \in Seq(Bodies)
    <3>1. "earlier" \in Bodies
      BY DEF Bodies
    <3>2. <<>> \in Seq(Bodies) /\ <<"earlier">> \in Seq(Bodies)
      BY <3>1
    <3> QED
      BY <3>2
  <2>2. 0 \in 0..MaxTurns /\ 0 \in 0..MaxFaults
    BY LifecycleAssumption, FaultsAssumption
  <2> QED
    BY <2>1, <2>2 DEF TypeOK, ProgressTypeOK, Points, Request
<1>2. InFlight /\ Superseded /\ ResultInPlace /\ ProgressAwaited
  BY DEF InFlight, Superseded, ResultInPlace, ProgressAwaited, Idle, Publications
<1>3. CommentsTrue
  <2>1. Len(<<>>) = 0 /\ Len(<<"earlier">>) = 1
    OBVIOUS
  <2>2. Len(comments) = 0 \/ Len(comments) = 1
    BY <2>1
  <2>3. \A n : n = 0 \/ n = 1 => n <= 1
    OBVIOUS
  <2> QED
    BY <2>2, <2>3 DEF CommentsTrue, OneSay, Publications
<1>4. Silence /\ ClearedFirst
  BY DEF Silence, Silent, ClearedFirst
<1>5. Whereabouts /\ Verdicts /\ Telling
  BY DEF Whereabouts, Verdicts, Telling, Ending
<1> QED
  BY <1>1, <1>2, <1>3, <1>4, <1>5 DEF LifecycleInv

LEMMA LifecycleNext ==
    ASSUME LifecycleInv, [Next]_vars
    PROVE  LifecycleInv'
<1> DEFINE RunPart == RunTypes /\ ResultInPlace /\ ProgressAwaited /\ Silence
                      /\ ClearedFirst /\ Whereabouts /\ Verdicts /\ Telling
<1>0. ProgressPart' /\ RunPart' => LifecycleInv'
  BY DEF LifecycleInv, ProgressPart, RunTypes, TypeOK
<1>1. CASE Controller
  <2>1. ProgressPart'
    BY <1>1, ControllerSteps, KeptKeeps, StartsKeep, ReportKeeps
  <2>2. RunPart'
    BY <1>1, ControllerTypes, ControllerPlaces, ControllerSilence, ControllerClearedFirst,
       ControllerWhereabouts, ControllerVerdicts, ControllerTelling
  <2> QED
    BY <1>0, <2>1, <2>2
<1>2. CASE Publishing
  <2>1. ProgressPart'
    BY <1>2, PublishingTypes, PublishingKeepsFlight, PublishingKeepsComments DEF ProgressPart
  <2>2. RunPart'
    BY <1>2, PublishingRest
  <2> QED
    BY <1>0, <2>1, <2>2
<1>3. CASE UserCancels \/ DeadlineExpires
  <2>1. ProgressPart'
    BY <1>3, SignalSteps, KeptKeeps, StartsKeep
  <2>2. RunPart'
    BY <1>3, SignalPlaces, SignalSilence, SignalRest, SignalTelling
  <2> QED
    BY <1>0, <2>1, <2>2
<1>4. CASE UNCHANGED vars
  <2>1. Kept
    BY <1>4 DEF vars, progressVars, gitHubVars, Kept, LifecycleInv, TypeOK, ProgressTypeOK
  <2>2. ProgressPart'
    BY <2>1, KeptKeeps
  <2>3. UNCHANGED <<runVars, pc, body, cut, terminal, adrift, comments>>
    BY <1>4 DEF vars, progressVars
  <2>4. RunPart'
    <3> USE <2>3 DEF LifecycleInv, runVars
    <3>1. RunTypes'
      BY DEF RunTypes, TypeOK
    <3>2. ResultInPlace' /\ ProgressAwaited'
      BY DEF ResultInPlace, ProgressAwaited, Idle
    <3>3. Silence' /\ ClearedFirst' /\ Whereabouts' /\ Verdicts'
      BY DEF Silence, Silent, ClearedFirst, Whereabouts, Verdicts
    <3>4. Telling'
      BY DEF Telling, Provisional, Told, Aborted
    <3> QED
      BY <3>1, <3>2, <3>3, <3>4
  <2> QED
    BY <1>0, <2>2, <2>4
<1> QED
  BY <1>1, <1>2, <1>3, <1>4 DEF Next

-----------------------------------------------------------------------------
(* Theorems *)

(* Whatever the user, the deadline, the network and the Agent do, the run's *)
(* place, its verdict, its comment and its publications fit together        *)
(* (orchestrator.ts, github/progress.ts).                                   *)
THEOREM LifecycleInvariance == Spec => []LifecycleInv
<1> QED
  BY LifecycleInit, LifecycleNext, PTL DEF Spec

(* Every variable of a run and of its comment keeps its type.              *)
THEOREM LifecycleTypeCorrect == Spec => []TypeOK
<1>1. LifecycleInv => TypeOK
  BY DEF LifecycleInv
<1> QED
  BY <1>1, LifecycleInvariance, PTL

(* The end told in the comment is the outcome of the job, whenever the     *)
(* user or the deadline ends the run (lifecycle.ts:116-149).               *)
THEOREM OutcomeIsTold == Spec => []CommentTellsOutcome
<1>1. LifecycleInv => CommentTellsOutcome
  BY Failing DEF LifecycleInv, CommentTellsOutcome, Telling, Told, Verdicts, Ending
<1> QED
  BY <1>1, LifecycleInvariance, PTL

(* However often a run publishes, and whatever answers are lost, it keeps  *)
(* one comment, unless a creation it had given up lands                    *)
(* (comments.ts:137-150).                                                  *)
THEOREM CommentIsOne == Spec => []OneComment
<1>1. LifecycleInv => OneComment
  BY LenProperties DEF LifecycleInv, OneComment, CommentsTrue, OneSay, TypeOK, ProgressTypeOK
<1> QED
  BY <1>1, LifecycleInvariance, PTL

(* Nothing earlier overwrites what the last publication of a run said, if  *)
(* it was acknowledged (progress.ts:206-252).                              *)
THEOREM LastWordStands == Spec => []LastWord
<1>1. LifecycleInv => LastWord
  <2> SUFFICES ASSUME LifecycleInv, ~overtaken, \E p \in Publications : body[p] # "none",
                      said[LastPublication] = "ok"
               PROVE  comments[Len(comments)] = body[LastPublication]
    BY DEF LastWord
  <2> DEFINE Last(p) ==
        /\ body[p] # "none"
        /\ \A q \in Publications \ {p} :
              body[q] # "none" => <<q, p>> \in {"progress"} \X {"result", "final", "correction"}
                                           \cup {"result"} \X {"final", "correction"}
                                           \cup {"final"} \X {"correction"}
  <2>1. \E p \in Publications : Last(p)
    <3>1. CASE body["correction"] # "none"
      BY <3>1 DEF Publications
    <3>2. CASE body["correction"] = "none" /\ body["final"] # "none"
      BY <3>2 DEF Publications
    <3>3. CASE body["correction"] = "none" /\ body["final"] = "none" /\ body["result"] # "none"
      BY <3>3 DEF Publications
    <3>4. CASE body["correction"] = "none" /\ body["final"] = "none" /\ body["result"] = "none"
      BY <3>4 DEF Publications
    <3> QED
      BY <3>1, <3>2, <3>3, <3>4
  <2>2. LastPublication \in Publications /\ Last(LastPublication)
    BY <2>1 DEF LastPublication
  <2>3. ASSUME NEW p \in Publications, Last(p) PROVE Latest(p)
    <3> SUFFICES ASSUME NEW q \in After(p), body[q] # "none" PROVE FALSE
      BY DEF Latest
    <3>1. q \in Publications \ {p}
      BY DEF After, Publications
    <3>2. <<q, p>> \in {"progress"} \X {"result", "final", "correction"}
                     \cup {"result"} \X {"final", "correction"}
                     \cup {"final"} \X {"correction"}
      BY <2>3, <3>1
    <3> QED
      BY <3>2 DEF After, Publications
  <2>4. comments = <<body[LastPublication]>>
    BY <2>2, <2>3 DEF LifecycleInv, CommentsTrue, OneSay
  <2>5. \A x : Len(<<x>>) = 1 /\ <<x>>[1] = x
    OBVIOUS
  <2> QED
    BY <2>4, <2>5
<1> QED
  BY <1>1, LifecycleInvariance, PTL

(* A write says nothing until it is cleared, its failure and its           *)
(* cancellation included (context.ts:26-30).                               *)
THEOREM SilentUntilCleared == Spec => []WritesAreSilent
<1>1. LifecycleInv => WritesAreSilent
  BY DEF LifecycleInv, Silence, Silent, WritesAreSilent
<1> QED
  BY <1>1, LifecycleInvariance, PTL

(* Once the end of a run is published, no update of its progress is sent   *)
(* any more (progress.ts:241).                                             *)
THEOREM EndIsFinal == Spec => NoProgressAfterTerminal
<1> DEFINE Sent == pc["progress"] # "sent" /\ pc'["progress"] = "sent"
<1>1. ASSUME LifecycleInv, [Next]_vars, terminal # "none" PROVE ~Sent
  <2> USE <1>1 DEF LifecycleInv, TypeOK, ProgressTypeOK, Publications
  <2>1. "progress" \in cut
    BY DEF Superseded
  <2>2. CASE Controller \/ UserCancels \/ DeadlineExpires
    <3>1. Kept \/ ProgressBegun \/ ResultBegun \/ FinalBegun \/ CorrectionBegun \/ Report
      BY <1>1, <2>2, ControllerSteps, SignalSteps, Zenon
    <3>2. CASE Kept
      BY <3>2 DEF Kept
    <3>3. CASE ProgressBegun
      BY <3>3 DEF ProgressBegun
    <3>4. CASE ResultBegun \/ FinalBegun \/ CorrectionBegun
      BY <3>4 DEF ResultBegun, FinalBegun, CorrectionBegun, Begun, Publish
    <3>5. CASE Report
      BY <3>5 DEF Report
    <3> QED BY <3>1, <3>2, <3>3, <3>4, <3>5
  <2>3. CASE Publishing
    BY <2>1, <2>3, PublishingSteps
      DEF Upserts, Listed, Served, Answered, Relisted, WriteFails, ListFails, Rejected,
          FinalizationTimesOut, AdriftLands, AdriftVanishes, gitHubVars, End, Doubted
  <2>4. CASE UNCHANGED vars
    BY <2>4 DEF vars, progressVars
  <2> QED
    BY <2>2, <2>3, <2>4 DEF Next
<1>2. LifecycleInv /\ [Next]_vars => [terminal # "none" => ~Sent]_vars
  BY <1>1
<1> QED
  BY <1>2, LifecycleInvariance, PTL DEF Spec, NoProgressAfterTerminal

=============================================================================
