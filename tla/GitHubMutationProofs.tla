------------------------- MODULE GitHubMutationProofs -------------------------
(***************************************************************************)
(* The receipts of GitHubMutation are truthful for every set of values,    *)
(* every bound on drift and any interleaving with the network: an          *)
(* inductive invariant, the properties it yields, and the refinement of    *)
(* MutationReceipt.                                                        *)
(***************************************************************************)
EXTENDS GitHubMutation, TLAPS

\* What the control point says about the report and about the requests.
Control ==
    /\ pc = "done" <=> effect # "open"
    /\ effect # "failed" => external = "none"
    /\ pc \in {"prevalidate", "before"} => attempts = 0
    /\ pc \in {"validate", "write", "after", "reconcile"} => attempts \in Attempts
    /\ pc = "reconcile" => possible
    /\ pc = "after" => request[attempts] = "applied"

\* Requests are numbered by attempts; the current one is sent with the write.
Requests ==
    /\ \A a \in Attempts : a > attempts => request[a] = "unsent"
    /\ pc = "validate" => request[attempts] = "unsent"
    /\ straggler => pc = "done" /\ attempts \in Attempts /\ request[attempts] = "unsent"
    /\ pc # "done" => late = {}

\* Without an ambiguous answer behind it, only the current write can have effect.
Remembered ==
    ~possible /\ pc # "done" => \A a \in Attempts : a < attempts => Harmless(a)

\* An abandoned attempt exists only if requests do not honour the call's signal.
HookOnly == ~HookReplacesSignal => ~straggler /\ late = {}

IInv ==
    /\ TypeOK
    /\ Control
    /\ Requests
    /\ Remembered
    /\ HookOnly
    /\ DenialTrueWhenGiven
    /\ ConfirmedMeansApplied

USE TargetAssumption, DriftAssumption, HookAssumption
    DEF Attempts, MaxAttempts, Calls, RequestStates

\* The initial states satisfy the invariant.
LEMMA InitIInv == Init => IInv
<1> SUFFICES ASSUME Init PROVE IInv
    OBVIOUS
<1> USE DEF Init
<1>1. TypeOK
  <2>1. request \in [Attempts -> RequestStates]
    OBVIOUS
  <2>2. drift \in 0..MaxDrift
    BY DriftAssumption
  <2>3. late \in SUBSET Attempts
    OBVIOUS
  <2>4. remote \in Values /\ bound \in BOOLEAN
    OBVIOUS
  <2>5. attempts \in 0..MaxAttempts
    OBVIOUS
  <2>6. pc \in Calls \cup {"done"}
    OBVIOUS
  <2> QED
    BY <2>1, <2>2, <2>3, <2>4, <2>5, <2>6 DEF TypeOK
<1>2. Control
    BY DEF Control
<1>3. Requests
    BY DEF Requests
<1>4. Remembered /\ DenialTrueWhenGiven
    BY DEF Remembered, DenialTrueWhenGiven, Denied, Harmless
<1>5. HookOnly
    BY DEF HookOnly
<1>6. ConfirmedMeansApplied
    BY DEF ConfirmedMeansApplied
<1> QED
    BY <1>1, <1>2, <1>3, <1>4, <1>5, <1>6 DEF IInv

\* A call that settles keeps the invariant: each way to fail or to succeed
\* claims no less than the requests show.
LEMMA SettleIInv == IInv /\ Settle => IInv'
<1> SUFFICES ASSUME IInv, Settle PROVE IInv'
    OBVIOUS
<1> USE DEF IInv, TypeOK, Control, Requests, Remembered, HookOnly,
            DenialTrueWhenGiven, ConfirmedMeansApplied, Denied, Harmless,
            netVars, envVars, outcomeVars, Fail, Succeed, CallOr, Uncertain
<1>1. CASE PrevalidateOk
    BY <1>1, SMTT(60) DEF PrevalidateOk, Settle
<1>2. CASE ReadBefore
    BY <1>2, SMTT(60) DEF ReadBefore, BeginAttempt, Settle
<1>3. CASE ValidateFails
    BY <1>3, SMTT(60) DEF ValidateFails, Settle
<1>4. CASE WriteAcked
    BY <1>4, SMTT(60) DEF WriteAcked, Settle
<1>5. CASE WriteRefused
    BY <1>5, SMTT(60) DEF WriteRefused, Settle
<1>6. CASE WriteAmbiguous
    BY <1>6, SMTT(60) DEF WriteAmbiguous, Settle
<1>7. CASE WriteAborted
    BY <1>7, SMTT(60) DEF WriteAborted, Settle
<1>8. CASE ReadAfter
    BY <1>8, SMTT(60) DEF ReadAfter, Settle
<1>9. CASE ReadReconcile
    BY <1>9, SMTT(60) DEF ReadReconcile, BeginAttempt, Settle
<1>10. CASE ReadFails
    BY <1>10, SMTT(60) DEF ReadFails, Settle
<1> QED
    BY <1>1, <1>2, <1>3, <1>4, <1>5, <1>6, <1>7, <1>8, <1>9, <1>10 DEF Settle

\* The steps that send, abandon or end keep the invariant; a straggler's write is
\* accounted for in late.
LEMMA ClientIInv ==
    IInv /\ (Send \/ ValidateTimesOut \/ StragglerSends \/ ProcessExit) => IInv'
<1> SUFFICES ASSUME IInv, Send \/ ValidateTimesOut \/ StragglerSends \/ ProcessExit
             PROVE  IInv'
    OBVIOUS
<1> USE DEF IInv, TypeOK, Control, Requests, Remembered, HookOnly,
            DenialTrueWhenGiven, ConfirmedMeansApplied, Denied, Harmless,
            netVars, envVars, outcomeVars, Fail, Uncertain
<1>1. CASE Send
    BY <1>1, SMTT(60) DEF Send, ValidateAndSend
<1>2. CASE ValidateTimesOut
    BY <1>2, SMTT(60) DEF ValidateTimesOut
<1>3. CASE StragglerSends
  <2> USE <1>3 DEF StragglerSends
  <2>1. TypeOK'
    <3>1. request' \in [Attempts -> RequestStates]
      OBVIOUS
    <3>2. late' \in SUBSET Attempts
      OBVIOUS
    <3> QED
      BY <3>1, <3>2
  <2>2. Control'
    BY SMTT(60)
  <2>3. Requests' /\ Remembered'
    BY SMTT(60)
  <2>4. HookOnly'
    OBVIOUS
  <2>5. DenialTrueWhenGiven'
    BY SMTT(60)
  <2>6. ConfirmedMeansApplied'
    BY SMTT(60)
  <2> QED
    BY <2>1, <2>2, <2>3, <2>4, <2>5, <2>6
<1>4. CASE ProcessExit
  <2> USE <1>4 DEF ProcessExit
  <2>1. TypeOK'
    OBVIOUS
  <2>2. Control' /\ Requests' /\ Remembered' /\ HookOnly'
    OBVIOUS
  <2>3. DenialTrueWhenGiven' /\ ConfirmedMeansApplied'
    OBVIOUS
  <2> QED
    BY <2>1, <2>2, <2>3
<1> QED
    BY <1>1, <1>2, <1>3, <1>4

\* Whatever GitHub and people do keeps the invariant: a refused or unsent request
\* stays harmless, an applied one stays applied.
LEMMA EnvironmentIInv == IInv /\ Environment => IInv'
<1> SUFFICES ASSUME IInv, Environment PROVE IInv'
    OBVIOUS
<1> USE DEF IInv, TypeOK, Control, Requests, Remembered, HookOnly,
            DenialTrueWhenGiven, ConfirmedMeansApplied, Denied, Harmless,
            netVars, envVars, outcomeVars
<1>1. CASE Server
  <2> SUFFICES ASSUME NEW a \in Attempts,
                      ServerApplies(a) \/ \E state \in {"refused", "lost"} : ServerDrops(a, state),
                      UNCHANGED <<pc, attempts, possible, outcomeVars, late, straggler,
                                  alive, bound, envVars>>
               PROVE  IInv'
    BY <1>1 DEF Server
  <2>1. CASE ServerApplies(a)
    BY <2>1, TargetAssumption, SMTT(60) DEF ServerApplies
  <2>2. CASE \E state \in {"refused", "lost"} : ServerDrops(a, state)
    BY <2>2, SMTT(60) DEF ServerDrops
  <2> QED
    BY <2>1, <2>2
<1>2. CASE HumanEdits
  <2> USE <1>2, DriftAssumption DEF HumanEdits
  <2>1. drift' \in 0..MaxDrift
    OBVIOUS
  <2>2. remote' \in Values /\ bound' \in BOOLEAN
    OBVIOUS
  <2>3. TypeOK'
    BY <2>1, <2>2
  <2>4. Control' /\ Requests' /\ Remembered' /\ HookOnly'
    OBVIOUS
  <2>5. DenialTrueWhenGiven' /\ ConfirmedMeansApplied'
    OBVIOUS
  <2> QED
    BY <2>3, <2>4, <2>5
<1>3. CASE Cancel
    BY <1>3, SMTT(60) DEF Cancel
<1>4. CASE Expire
    BY <1>4, SMTT(60) DEF Expire
<1> QED
    BY <1>1, <1>2, <1>3, <1>4 DEF Environment

\* The inductive invariant holds in every reachable state.
THEOREM Invariance == Spec => []IInv
<1>1. Init => IInv
    BY InitIInv
<1>2. IInv /\ [Next]_vars => IInv'
  <2>1. IInv /\ UNCHANGED vars => IInv'
    BY DEF IInv, TypeOK, Control, Requests, Remembered, HookOnly,
           DenialTrueWhenGiven, ConfirmedMeansApplied, Denied, Harmless, vars
  <2> QED
    BY <2>1, SettleIInv, ClientIInv, EnvironmentIInv DEF Next
<1> QED
    BY <1>1, <1>2, PTL DEF Spec

\* Type correctness of the mutation and its environment.
THEOREM TypeCorrect == Spec => []TypeOK
BY Invariance, PTL DEF IInv

\* A result that denies an effect is true of every write sent before it was given.
THEOREM DenialTruthful == Spec => []DenialTrueWhenGiven
BY Invariance, PTL DEF IInv

\* A "confirmed" effect was applied by GitHub.
THEOREM ConfirmationTruthful == Spec => []ConfirmedMeansApplied
BY Invariance, PTL DEF IInv

\* If requests honour the signal of their call, a denied effect never happens
\* later either: the one thing the production client's hook takes away.
THEOREM DenialPermanent == ~HookReplacesSignal => (Spec => []DenialStaysTrue)
<1> SUFFICES ASSUME ~HookReplacesSignal PROVE Spec => []DenialStaysTrue
    OBVIOUS
<1>1. IInv => DenialStaysTrue
    BY DEF IInv, HookOnly, DenialTrueWhenGiven, DenialStaysTrue
<1> QED
    BY <1>1, Invariance, PTL

\* A step that leaves the requests alone is a report or a stutter.
LEMMA ReportStep ==
    ASSUME IInv, IInv', UNCHANGED <<request, late>>,
           UNCHANGED outcomeVars \/ effect = "open"
    PROVE  Receipt!Next \/ UNCHANGED <<Exposed, Landed, Claim>>
<1>1. UNCHANGED <<Exposed, Landed>>
    BY DEF Exposed, Landed
<1>2. CASE UNCHANGED outcomeVars
    BY <1>1, <1>2 DEF outcomeVars, Claim
<1>3. CASE effect = "open" /\ effect' = "open"
    BY <1>1, <1>3 DEF Claim
<1>4. CASE effect = "open" /\ effect' # "open"
  <2>1. Claim = "open" /\ Claim' \in Receipt!Claims
    BY <1>4 DEF Claim, IInv, TypeOK, Receipt!Claims
  <2>2. Claim' \in {"unchanged", "none"} => ~Exposed
    <3> SUFFICES ASSUME Claim' \in {"unchanged", "none"} PROVE ~Exposed
        OBVIOUS
    <3>1. Denied'
        BY DEF Claim, Denied, IInv, TypeOK
    <3>2. \A a \in Attempts : Harmless(a)' \/ a \in late
        BY <3>1 DEF IInv, DenialTrueWhenGiven
    <3> QED
        BY <3>2 DEF Harmless, Exposed
  <2>3. Claim' = "confirmed" => Landed
    <3>1. late = {}
      BY <1>4 DEF IInv, Control, Requests
    <3>2. Claim' = "confirmed" => \E a \in Attempts : request[a] = "applied"
      BY <1>4 DEF Claim, IInv, TypeOK, ConfirmedMeansApplied
    <3> QED
      BY <3>1, <3>2 DEF Landed
  <2>4. Receipt!Report(Claim')
    BY <1>1, <2>1, <2>2, <2>3 DEF Receipt!Report
  <2> QED
    BY <2>1, <2>4 DEF Receipt!Next
<1> QED
    BY <1>2, <1>3, <1>4

\* A write of the current attempt exposes the Controller before it reports.
LEMMA SendStep ==
    ASSUME IInv, Send
    PROVE  Receipt!Expose \/ UNCHANGED <<Exposed, Landed, Claim>>
<1> USE DEF IInv, TypeOK, Control, Requests, Send, ValidateAndSend, outcomeVars
<1>1. Claim = "open" /\ UNCHANGED Claim
    BY DEF Claim
<1>2. Exposed'
    BY DEF Exposed
<1>3. UNCHANGED Landed
    BY DEF Landed
<1> QED
    BY <1>1, <1>2, <1>3 DEF Receipt!Expose

\* What GitHub does with a request is a landing, a refusal or a stutter.
LEMMA ServerStep ==
    ASSUME IInv, Server
    PROVE  Receipt!Next \/ UNCHANGED <<Exposed, Landed, Claim>>
<1>1. PICK a \in Attempts :
          ServerApplies(a) \/ \E state \in {"refused", "lost"} : ServerDrops(a, state)
    BY DEF Server
<1>2. UNCHANGED Claim
    BY DEF Server, outcomeVars, Claim
<1>3. UNCHANGED late
    BY DEF Server
<1>4. CASE a \in late
  <2>1. \A b \in Attempts \ late : request'[b] = request[b]
    BY <1>1, <1>4 DEF ServerApplies, ServerDrops, IInv, TypeOK
  <2> QED
    BY <1>2, <1>3, <2>1 DEF Exposed, Landed
<1>5. CASE a \notin late
  <2>1. Exposed
    BY <1>1, <1>5 DEF ServerApplies, ServerDrops, Exposed
  <2>2. CASE ServerApplies(a)
    <3>1. Landed' /\ Exposed'
      BY <1>3, <1>5, <2>2 DEF ServerApplies, Landed, Exposed, IInv, TypeOK
    <3> QED
      BY <1>2, <2>1, <3>1 DEF Receipt!Land, Receipt!Next
  <2>3. ASSUME NEW state \in {"refused", "lost"}, ServerDrops(a, state)
        PROVE  Receipt!Next \/ UNCHANGED <<Exposed, Landed, Claim>>
    <3>1. Landed' = Landed
      BY <1>3, <2>3 DEF ServerDrops, Landed, IInv, TypeOK
    <3>2. Landed => Exposed'
      BY <3>1 DEF Landed, Exposed
    <3>3. CASE Exposed'
      BY <1>2, <2>1, <3>1, <3>3
    <3>4. CASE ~Exposed'
      BY <1>2, <3>1, <3>2, <3>4 DEF Receipt!Refuse, Receipt!Next
    <3> QED
      BY <3>3, <3>4
  <2> QED
    BY <1>1, <2>2, <2>3
<1> QED
    BY <1>4, <1>5

\* A closure that writes after its mutation has reported changes nothing the
\* receipt answers for.
LEMMA StragglerStep ==
    ASSUME IInv, StragglerSends
    PROVE  UNCHANGED <<Exposed, Landed, Claim>>
<1> USE DEF IInv, TypeOK, Requests, StragglerSends, outcomeVars
<1>1. \A b \in Attempts \ late' : b \in Attempts \ late /\ request'[b] = request[b]
    OBVIOUS
<1>2. \A b \in Attempts \ late : b \in late' => request[b] = "unsent"
    OBVIOUS
<1>3. UNCHANGED Exposed
    BY <1>1, <1>2 DEF Exposed
<1>4. UNCHANGED Landed
    BY <1>1, <1>2 DEF Landed
<1> QED
    BY <1>3, <1>4 DEF Claim

\* Every step of the mutation is a step of the truthful receipt or a stutter.
LEMMA ReceiptStep ==
    ASSUME IInv, IInv', [Next]_vars
    PROVE  [Receipt!Next]_(Receipt!vars)
<1>1. CASE Send
    BY <1>1, SendStep DEF Receipt!Next, Receipt!vars
<1>2. CASE Server
    BY <1>2, ServerStep DEF Receipt!vars
<1>3. CASE Settle \/ ValidateTimesOut
  <2>1. UNCHANGED <<request, late>> /\ effect = "open"
    BY <1>3 DEF IInv, Control, TypeOK, Settle, ValidateTimesOut, netVars,
       PrevalidateOk, ReadBefore, ValidateFails, WriteAcked, WriteRefused,
       WriteAmbiguous, WriteAborted, ReadAfter, ReadReconcile, ReadFails
  <2> QED
    BY <2>1, ReportStep DEF Receipt!vars
<1>4. CASE ProcessExit \/ HumanEdits \/ Cancel \/ Expire \/ UNCHANGED vars
  <2>1. UNCHANGED <<request, late>> /\ UNCHANGED outcomeVars
    BY <1>4 DEF ProcessExit, HumanEdits, Cancel, Expire, vars, netVars, outcomeVars
  <2> QED
    BY <2>1, ReportStep DEF Receipt!vars
<1>5. CASE StragglerSends
    BY <1>5, StragglerStep DEF Receipt!vars
<1> QED
    BY <1>1, <1>2, <1>3, <1>4, <1>5 DEF Next, Environment

\* The mutation implements MutationReceipt, also with the client's hook: no
\* interleaving of answers, timers, cancellation and other users makes the receipt
\* claim less than what was done by the time it was given.
THEOREM ImplementsReceipt == Spec => TruthfulReceipt
<1>1. Init => Receipt!Init
    BY DEF Init, Receipt!Init, Exposed, Landed, Claim
<1>2. IInv /\ IInv' /\ [Next]_vars => [Receipt!Next]_(Receipt!vars)
    BY ReceiptStep
<1> QED
    BY <1>1, <1>2, Invariance, PTL DEF Spec, Receipt!Spec, TruthfulReceipt
=============================================================================
