-------------------------- MODULE RunAdmissionProofs --------------------------
(***************************************************************************)
(* Proofs about RunAdmission, for any people, events, inputs, pull         *)
(* requests and configurations, and any number of changes and failures:    *)
(* whatever is granted is granted to trusted actors, the context is the    *)
(* one of the event, and the audit tells the worker's tools.               *)
(***************************************************************************)
EXTENDS RunAdmission, TLAPS

-----------------------------------------------------------------------------
(* The inductive invariant *)

Notes == [author : People \cup {"other"}, created : Nat, updated : Nat, body : Nat]

AdmissionTypes ==
    /\ event \in Events
    /\ now \in Nat \ {0} /\ text \in Nat /\ head \in Nat /\ moved \in BOOLEAN
    /\ comments \in Seq(Notes)
    /\ writers \subseteq wereWriters

\* A run that is over does nothing more, and only such a run has an outcome.
Outcomes == /\ at \in {"route", "actors", "get", "list", "verify", "authorize", "prepare", "done"}
            /\ at # "done" => outcome = "none"

\* The event says of its own pull request what the pull request is.
EventTrue == event.name \in PullEvents => event.fork = pull.fork

\* A comment that has its first text was not written, or edited, after the event.
Calm == \A k \in DOMAIN comments : comments[k].updated < Trigger => comments[k].body = 0

\* Only these operations are ever asked to write.
WriteCommands == command.access = "write" => command.operation \in {"task", "fix", "implement"}

\* Past the actors, and past the snapshot.
Checked == at \in {"get", "list", "verify", "authorize", "prepare"} \/ Prepared
Taken == at \in {"authorize", "prepare"} \/ Prepared

\* What was found of an actor was so at some time of the run.
Witnessed(a) == a \in wereWriters /\ (AccountType[a] = "User" \/ a \in inputs.allowedBots)
ActorsKnown ==
    /\ DOMAIN access \subseteq Actors(event)
    /\ \A a \in DOMAIN access : access[a] => Witnessed(a)
    /\ Checked => DOMAIN access = Actors(event)

ShownCalm == shown # Unread => \A k \in DOMAIN shown : shown[k] = 0

IssueRead ==
    (Target = "issue" /\ (at \in {"list", "verify"} \/ Taken)) => bound.text = 0

\* While the head has not gone back, the files are of a head between the two readings.
PullRead ==
    Target = "pull_request" =>
        /\ at \in {"list", "verify"} \/ Taken =>
              (event.name \in PullEvents => bound.head = 0)
        /\ at \in {"route", "actors", "get"} => files = Unread
        /\ at \in {"list", "verify"} =>
              /\ bound.head \in Nat
              /\ ~moved => /\ bound.head <= head
                           /\ files # Unread => files \in bound.head..head
        /\ at = "verify" => files # Unread
        /\ Taken => files = bound.head \/ moved

\* What was decided, of the command and of the actors as they are.
Granted ==
    /\ policy = EvaluatePolicy(event, command, inputs.allowWrite, ActorsCanWrite, Resolved)
    /\ policy.allowed
    /\ OperationFits(event, command, Target, Branch)
Judged == at = "prepare" \/ Prepared => Granted

\* What a prepared run has not been refused.
Unrefused ==
    /\ config \in Configs /\ ValidConfig(config)
    /\ ~ExecutionRefused(config, policy, command.access, Binding, inputs.allowWrite)
    /\ ~WorkerRefused(config, policy)
Equipped == Prepared => Unrefused

AdmissionInv ==
    /\ AdmissionTypes /\ Outcomes /\ EventTrue /\ Calm /\ WriteCommands
    /\ ActorsKnown /\ ShownCalm /\ IssueRead /\ PullRead /\ Judged /\ Equipped
-----------------------------------------------------------------------------
(* What stays while a run's event, inputs and pull request do *)

\* All that is derived from the start of a run is fixed with it.
LEMMA StartFixed ==
    ASSUME UNCHANGED start
    PROVE  /\ Target' = Target /\ Branch' = Branch /\ Resolved' = Resolved
           /\ Binding' = Binding /\ Cutoff' = Cutoff /\ EventTrue' = EventTrue
           /\ event' = event /\ inputs' = inputs /\ pull' = pull
BY DEF start, Target, Branch, Resolved, Binding, Cutoff, CarriesText, EventTrue

\* A decision stands while nothing it rests on changes.
LEMMA GrantedStays ==
    ASSUME UNCHANGED <<start, command, access, policy>>
    PROVE  Granted' = Granted
<1>1. Target' = Target /\ Branch' = Branch /\ Resolved' = Resolved
  BY StartFixed
<1>2. ActorsCanWrite' = ActorsCanWrite
  BY DEF ActorsCanWrite, start
<1> QED BY <1>1, <1>2 DEF Granted, start

LEMMA UnrefusedStays ==
    ASSUME UNCHANGED <<start, command, policy, config>>
    PROVE  Unrefused' = Unrefused
BY StartFixed DEF Unrefused, start

\* A set of the first indices has its minimum in it.
LEMMA MinAmong ==
    ASSUME NEW I \in SUBSET (1..6), I # {}
    PROVE  Min(I) \in I
<1> DEFINE First(x) == x \in I /\ \A y \in I : x =< y
<1>1. \E x : First(x)
  <2>1. I \subseteq {1, 2, 3, 4, 5, 6}
    OBVIOUS
  <2>2. CASE 1 \in I
    BY <2>1, <2>2
  <2>3. CASE 1 \notin I /\ 2 \in I
    BY <2>1, <2>3
  <2>4. CASE {1, 2} \cap I = {} /\ 3 \in I
    BY <2>1, <2>4
  <2>5. CASE {1, 2, 3} \cap I = {} /\ {4, 5, 6} \cap I # {}
    <3>1. CASE 4 \in I
      BY <2>1, <2>5, <3>1
    <3>2. CASE 4 \notin I /\ 5 \in I
      BY <2>1, <2>5, <3>2
    <3>3. CASE 4 \notin I /\ 5 \notin I
      BY <2>1, <2>5, <3>3
    <3> QED BY <3>1, <3>2, <3>3
  <2> QED BY <2>1, <2>2, <2>3, <2>4, <2>5
<1> QED BY <1>1 DEF Min

\* Whichever way a command is asked for, only a task, a fix or an implementation writes.
LEMMA RoutedWrites ==
    ASSUME NEW e, NEW i, RouteCommand(e, i).access = "write"
    PROVE  RouteCommand(e, i).operation \in {"task", "fix", "implement"}
<1> DEFINE ways == <<Explicit(i), Mention(e), ConfiguredTrigger(e, i),
                     AutomaticReview(e), CompletedRun(e, i), Prompted(e, i)>>
           Asking == {k \in 1..Len(ways) : ways[k] # NoCommand}
           first == SelectInSeq(ways, LAMBDA way : way # NoCommand)
           Fits(way) == way.access = "write" => way.operation \in {"task", "fix", "implement"}
<1>1. Fits(NoCommand)
  BY DEF NoCommand, Command
<1>2. \A k \in 1..6 : Fits(ways[k])
  <2>1. Fits(Explicit(i)) /\ Fits(Prompted(e, i))
    BY <1>1 DEF Explicit, Prompted, Command, WriteOperations
  <2>2. Fits(Mention(e))
    BY <1>1 DEF Mention, ParseCommand, Command, WriteOperations, Operations
  <2>3. Fits(ConfiguredTrigger(e, i)) /\ Fits(AutomaticReview(e)) /\ Fits(CompletedRun(e, i))
    BY <1>1 DEF ConfiguredTrigger, AutomaticReview, CompletedRun, Command
  <2> QED BY <2>1, <2>2, <2>3
<1>3. first = IF Asking # {} THEN Min(Asking) ELSE 0
  BY DEF SelectInSeq
<1>4. Asking \in SUBSET (1..6)
  OBVIOUS
<1>5. first # 0 => first \in 1..6
  <2> HIDE DEF Asking, first
  <2> QED BY <1>3, <1>4, MinAmong
<1>6. RouteCommand(e, i) \in {NoCommand} \cup {ways[k] : k \in 1..6}
  <2>1. RouteCommand(e, i) = IF Actors(e) \subseteq i.allowedActors /\ first # 0 THEN ways[first] ELSE NoCommand
    BY DEF RouteCommand
  <2> HIDE DEF ways, first
  <2> QED BY <1>5, <2>1
<1> HIDE DEF ways
<1> QED BY <1>1, <1>2, <1>6

-----------------------------------------------------------------------------
(* The invariant is inductive *)

LEMMA InitAdmission == Init => AdmissionInv
<1> SUFFICES ASSUME Init PROVE AdmissionInv
  OBVIOUS
<1>1. event.actor \in People
  BY AdmissionAssumption DEF Init, Actors
<1>2. AdmissionTypes /\ Calm
  <2> DEFINE older == Note("other", 0, 0)
             own == Note(event.actor, Trigger, 0)
  <2>1. older \in Notes /\ own \in Notes
    BY <1>1 DEF Notes, Note, Trigger
  <2>2. older.body = 0 /\ own.body = 0
    BY DEF Note
  <2>3. comments = <<older, own>> \/ comments = <<older>>
    BY DEF Init
  <2> HIDE DEF older, own
  <2>4. comments \in Seq(Notes)
    <3>1. <<older, own>> \in Seq(Notes)
      BY <2>1
    <3>2. <<older>> \in Seq(Notes)
      BY <2>1
    <3> QED BY <2>3, <3>1, <3>2
  <2>5. \A k \in DOMAIN comments : comments[k].body = 0
    <3>1. CASE comments = <<older, own>>
      BY <2>2, <3>1
    <3>2. CASE comments = <<older>>
      BY <2>2, <3>2
    <3> QED BY <2>3, <3>1, <3>2
  <2>6. AdmissionTypes
    <3>1. event \in Events /\ now = 1 /\ text = 0 /\ head = 0 /\ moved = FALSE /\ wereWriters = writers
      BY DEF Init, Trigger
    <3>2. now \in Nat \ {0} /\ text \in Nat /\ head \in Nat
      BY <3>1
    <3>3. moved \in BOOLEAN /\ writers \subseteq wereWriters
      BY <3>1, Zenon
    <3> QED BY <2>4, <3>1, <3>2, <3>3 DEF AdmissionTypes
  <2>7. Calm
    BY <2>5 DEF Calm
  <2> QED BY <2>6, <2>7
<1>3. Outcomes /\ EventTrue /\ WriteCommands /\ ShownCalm
  BY DEF Init, Outcomes, EventTrue, WriteCommands, ShownCalm, NoCommand, Command
<1>4. ActorsKnown
  BY DEF Init, ActorsKnown, Checked, Prepared
<1>5. IssueRead /\ PullRead /\ Judged /\ Equipped
  BY DEF Init, IssueRead, PullRead, Judged, Equipped, Taken, Prepared
<1> QED BY <1>2, <1>3, <1>4, <1>5 DEF AdmissionInv

LEMMA RouteAdmission == AdmissionInv /\ Route => AdmissionInv'
<1> SUFFICES ASSUME AdmissionInv, Route PROVE AdmissionInv'
  OBVIOUS
<1> USE DEF Route, Unmoved, start, world, reading, Goes, Ends
<1>1. AdmissionTypes' /\ Outcomes' /\ EventTrue' /\ Calm'
  BY DEF AdmissionInv, AdmissionTypes, Outcomes, EventTrue, Calm
<1>2. WriteCommands'
  BY RoutedWrites DEF WriteCommands
<1>3. ~Checked' /\ ~Taken' /\ ~Prepared' /\ at' # "prepare"
  BY DEF Checked, Taken, Prepared
<1>4. ActorsKnown' /\ ShownCalm'
  BY <1>3 DEF AdmissionInv, ActorsKnown, ShownCalm, Witnessed
<1>5. IssueRead' /\ PullRead'
  BY <1>3, StartFixed DEF AdmissionInv, IssueRead, PullRead
<1> QED BY <1>1, <1>2, <1>3, <1>4, <1>5 DEF AdmissionInv, Judged, Equipped

\* The actors whose lookups are over have been writers, and are users or allowed bots.
LEMMA CheckActorAdmission == AdmissionInv /\ CheckActor => AdmissionInv'
<1> SUFFICES ASSUME AdmissionInv, CheckActor PROVE AdmissionInv'
  OBVIOUS
<1> USE DEF CheckActor, start, world, reading, Goes
<1>1. AdmissionTypes' /\ Outcomes' /\ EventTrue' /\ Calm' /\ WriteCommands' /\ ShownCalm'
  BY DEF AdmissionInv, AdmissionTypes, Outcomes, EventTrue, Calm, WriteCommands, ShownCalm
<1>2. ~Prepared'
  BY DEF Prepared
<1>3. ActorsKnown'
  <2> PICK a \in Actors(event) \ DOMAIN access, typed \in BOOLEAN, answered \in BOOLEAN :
        access' = [b \in DOMAIN access \cup {a} |->
                      IF b = a THEN AllowedForWrite(a, IF typed THEN AccountType[a] ELSE "Unknown",
                                                    answered /\ a \in writers, inputs.allowedBots)
                      ELSE access[b]]
    OBVIOUS
  <2>1. access'[a] => Witnessed(a)
    BY DEF AllowedForWrite, Witnessed, AdmissionInv, AdmissionTypes
  <2>2. \A b \in DOMAIN access : access'[b] = access[b]
    OBVIOUS
  <2>3. \A b \in DOMAIN access' : access'[b] => Witnessed(b)
    BY <2>1, <2>2 DEF AdmissionInv, ActorsKnown
  <2>4. DOMAIN access' \subseteq Actors(event)
    BY DEF AdmissionInv, ActorsKnown
  <2>5. Checked' => DOMAIN access' = Actors(event)
    BY <1>2 DEF Checked
  <2>6. Actors(event)' = Actors(event) /\ \A b : Witnessed(b)' = Witnessed(b)
    BY DEF Actors, IsRun, Witnessed
  <2> QED BY <2>3, <2>4, <2>5, <2>6 DEF ActorsKnown
<1>4. IssueRead' /\ PullRead' /\ Judged' /\ Equipped'
  <2>1. at' \notin {"route", "list", "verify", "prepare"}
    OBVIOUS
  <2>2. Taken' => Target = "none"
    BY <1>2 DEF Taken
  <2> QED BY <1>2, <2>1, <2>2, StartFixed DEF AdmissionInv, IssueRead, PullRead, Judged, Equipped
<1> QED BY <1>1, <1>3, <1>4 DEF AdmissionInv

\* The first reading binds the entity, and refuses one that is not the event's any more.
LEMMA GetAdmission == AdmissionInv /\ Get => AdmissionInv'
<1> SUFFICES ASSUME AdmissionInv, Get PROVE AdmissionInv'
  OBVIOUS
<1> USE DEF Get, Unmoved, start, world, Goes, Ends
<1>1. AdmissionTypes' /\ Outcomes' /\ EventTrue' /\ Calm' /\ WriteCommands' /\ ShownCalm'
  BY DEF AdmissionInv, AdmissionTypes, Outcomes, EventTrue, Calm, WriteCommands, ShownCalm
<1>2. ~Taken' /\ ~Prepared' /\ at' \in {"list", "done"}
  BY DEF Taken, Prepared
<1>3. Actors(event)' = Actors(event) /\ \A b : Witnessed(b)' = Witnessed(b)
  BY DEF Actors, IsRun, Witnessed
<1>4. ActorsKnown'
  BY <1>3 DEF AdmissionInv, ActorsKnown, Checked
<1>5. IssueRead'
  BY <1>2, StartFixed DEF IssueRead, Entity
<1>6. PullRead'
  BY <1>2, StartFixed DEF AdmissionInv, PullRead, Entity, AdmissionTypes
<1> QED BY <1>1, <1>2, <1>4, <1>5, <1>6 DEF AdmissionInv, Judged, Equipped

\* The changed files and the comments are read at some time between the two readings.
LEMMA ListFilesAdmission == AdmissionInv /\ ListFiles => AdmissionInv'
<1> SUFFICES ASSUME AdmissionInv, ListFiles PROVE AdmissionInv'
  OBVIOUS
<1> USE DEF ListFiles, Unmoved, start, world, Goes
<1>1. AdmissionTypes' /\ Outcomes' /\ EventTrue' /\ Calm' /\ WriteCommands' /\ ShownCalm'
  BY DEF AdmissionInv, AdmissionTypes, Outcomes, EventTrue, Calm, WriteCommands, ShownCalm,
     AfterList
<1>2. ~Taken' /\ ~Prepared' /\ at' \in {"list", "verify"}
  BY DEF Taken, Prepared, AfterList
<1>3. Actors(event)' = Actors(event) /\ \A b : Witnessed(b)' = Witnessed(b)
  BY DEF Actors, IsRun, Witnessed
<1>4. ActorsKnown'
  BY <1>3 DEF AdmissionInv, ActorsKnown, Checked
<1>5. IssueRead'
  BY <1>2, StartFixed DEF AdmissionInv, IssueRead
<1>6. PullRead'
  BY <1>2, StartFixed DEF AdmissionInv, PullRead, AdmissionTypes, AfterList
<1> QED BY <1>1, <1>2, <1>4, <1>5, <1>6 DEF AdmissionInv, Judged, Equipped

LEMMA ListCommentsAdmission == AdmissionInv /\ ListComments => AdmissionInv'
<1> SUFFICES ASSUME AdmissionInv, ListComments PROVE AdmissionInv'
  OBVIOUS
<1> USE DEF ListComments, Unmoved, start, world, Goes
<1>1. AdmissionTypes' /\ Outcomes' /\ EventTrue' /\ Calm' /\ WriteCommands'
  BY DEF AdmissionInv, AdmissionTypes, Outcomes, EventTrue, Calm, WriteCommands, AfterList
<1>2. ~Taken' /\ ~Prepared' /\ at' \in {"list", "verify"}
  BY DEF Taken, Prepared, AfterList
<1>3. Actors(event)' = Actors(event) /\ \A b : Witnessed(b)' = Witnessed(b)
  BY DEF Actors, IsRun, Witnessed
<1>4. ActorsKnown'
  BY <1>3 DEF AdmissionInv, ActorsKnown, Checked
<1>5. ShownCalm'
  <2>1. Cutoff \in {0, Trigger}
    BY DEF Cutoff
  <2>2. \A k \in DOMAIN comments : comments[k].updated < Cutoff => comments[k].body = 0
    <3> SUFFICES ASSUME NEW k \in DOMAIN comments, comments[k].updated < Cutoff
                 PROVE  comments[k].body = 0
      OBVIOUS
    <3>1. comments[k] \in Notes
      BY DEF AdmissionInv, AdmissionTypes
    <3>2. comments[k].updated \in Nat
      BY <3>1 DEF Notes
    <3>3. comments[k].updated < Trigger
      BY <2>1, <3>2 DEF Trigger
    <3> QED BY <3>3 DEF AdmissionInv, Calm
  <2> DEFINE own == IF event.name = "issue_comment" THEN {OwnComment} ELSE {}
             past == {k \in DOMAIN comments \ own :
                         /\ comments[k].created < Cutoff /\ comments[k].updated < Cutoff
                         /\ comments[k].author \notin inputs.excluded}
  <2>3. Selected(comments) = [k \in own \cup past |-> IF k \in own THEN 0 ELSE comments[k].body]
    BY DEF Selected
  <2>4. \A k \in own \cup past : k \in own \/ comments[k].body = 0
    BY <2>2
  <2>5. \A k \in DOMAIN Selected(comments) : Selected(comments)[k] = 0
    <3> HIDE DEF own, past
    <3> QED BY <2>3, <2>4
  <2> QED BY <2>5 DEF ShownCalm
<1>6. IssueRead'
  BY <1>2, StartFixed DEF AdmissionInv, IssueRead
<1>7. PullRead'
  BY <1>2, StartFixed DEF AdmissionInv, PullRead, AdmissionTypes, AfterList
<1> QED BY <1>1, <1>2, <1>4, <1>5, <1>6, <1>7 DEF AdmissionInv, Judged, Equipped

\* The last reading: a head that is where it was either never moved or went back.
LEMMA VerifyAdmission == AdmissionInv /\ Verify => AdmissionInv'
<1> SUFFICES ASSUME AdmissionInv, Verify PROVE AdmissionInv'
  OBVIOUS
<1> USE DEF Verify, Unmoved, start, world, Goes, Ends
<1>1. AdmissionTypes' /\ Outcomes' /\ EventTrue' /\ Calm' /\ WriteCommands' /\ ShownCalm'
  BY DEF AdmissionInv, AdmissionTypes, Outcomes, EventTrue, Calm, WriteCommands, ShownCalm
<1>2. ~Prepared' /\ at' \in {"get", "authorize", "done"}
  BY DEF Prepared
<1>3. Actors(event)' = Actors(event) /\ \A b : Witnessed(b)' = Witnessed(b)
  BY DEF Actors, IsRun, Witnessed
<1>4. ActorsKnown'
  BY <1>3 DEF AdmissionInv, ActorsKnown, Checked
<1>5. IssueRead'
  BY <1>2, StartFixed DEF AdmissionInv, IssueRead, Taken
<1>6. PullRead'
  BY <1>2, StartFixed DEF AdmissionInv, PullRead, AdmissionTypes, Taken
<1> QED BY <1>1, <1>2, <1>4, <1>5, <1>6 DEF AdmissionInv, Judged, Equipped

\* A failed run of a workflow without a pull request is demoted to a diagnosis, which only reads.
LEMMA AuthorizeAdmission == AdmissionInv /\ Authorize => AdmissionInv'
<1> SUFFICES ASSUME AdmissionInv, Authorize PROVE AdmissionInv'
  OBVIOUS
<1> USE DEF Authorize, Unmoved, start, world, reading, Goes, Ends
<1>1. AdmissionTypes' /\ Outcomes' /\ EventTrue' /\ Calm' /\ ShownCalm'
  BY DEF AdmissionInv, AdmissionTypes, Outcomes, EventTrue, Calm, ShownCalm
<1>2. WriteCommands'
  BY DEF AdmissionInv, WriteCommands, Finalized, Command
<1>3. ~Prepared' /\ at' \in {"prepare", "done"} /\ (Taken' => Taken)
  BY DEF Prepared, Taken
<1>4. Actors(event)' = Actors(event) /\ \A b : Witnessed(b)' = Witnessed(b)
  BY DEF Actors, IsRun, Witnessed
<1>5. ActorsKnown'
  BY <1>4 DEF AdmissionInv, ActorsKnown, Checked
<1>6. IssueRead' /\ PullRead'
  BY <1>3, StartFixed DEF AdmissionInv, IssueRead, PullRead
<1>7. Judged'
  <2>1. ActorsCanWrite' = ActorsCanWrite
    BY <1>4 DEF ActorsCanWrite
  <2>2. at' = "prepare" => /\ policy' = EvaluatePolicy(event, command', inputs.allowWrite, ActorsCanWrite, Resolved)
                           /\ policy'.allowed
                           /\ OperationFits(event, command', Target, Branch)
    OBVIOUS
  <2> QED BY <1>3, <2>1, <2>2, StartFixed DEF Judged, Granted
<1> QED BY <1>1, <1>2, <1>3, <1>5, <1>6, <1>7 DEF AdmissionInv, Equipped

LEMMA PrepareAdmission == AdmissionInv /\ Prepare => AdmissionInv'
<1> SUFFICES ASSUME AdmissionInv, Prepare PROVE AdmissionInv'
  OBVIOUS
<1> USE DEF Prepare, Unmoved, start, world, reading, Goes, Ends
<1>1. AdmissionTypes' /\ Outcomes' /\ EventTrue' /\ Calm' /\ WriteCommands' /\ ShownCalm'
  BY DEF AdmissionInv, AdmissionTypes, Outcomes, EventTrue, Calm, WriteCommands, ShownCalm
<1>2. at = "prepare" /\ at' = "done" /\ Taken /\ Checked
  BY DEF Taken, Checked
<1>3. Actors(event)' = Actors(event) /\ \A b : Witnessed(b)' = Witnessed(b)
  BY DEF Actors, IsRun, Witnessed
<1>4. ActorsKnown'
  BY <1>2, <1>3 DEF AdmissionInv, ActorsKnown
<1>5. IssueRead' /\ PullRead'
  BY <1>2, StartFixed DEF AdmissionInv, IssueRead, PullRead
<1>6. Judged'
  BY GrantedStays DEF AdmissionInv, Judged
<1>7. Equipped'
  <2>1. Prepared' => /\ config' \in Configs /\ ValidConfig(config')
                     /\ ~ExecutionRefused(config', policy, command.access, Binding, inputs.allowWrite)
                     /\ ~WorkerRefused(config', policy)
    BY DEF Prepared
  <2> QED BY <2>1, StartFixed DEF Equipped, Unrefused
<1> QED BY <1>1, <1>4, <1>5, <1>6, <1>7 DEF AdmissionInv

LEMMA RequestFailsAdmission == AdmissionInv /\ RequestFails => AdmissionInv'
<1> SUFFICES ASSUME AdmissionInv, RequestFails PROVE AdmissionInv'
  OBVIOUS
<1> USE DEF RequestFails, start, world, reading, Ends
<1>1. AdmissionTypes' /\ Outcomes' /\ EventTrue' /\ Calm' /\ WriteCommands' /\ ShownCalm'
  BY DEF AdmissionInv, AdmissionTypes, Outcomes, EventTrue, Calm, WriteCommands, ShownCalm
<1>2. ~Prepared' /\ at' = "done" /\ ~Taken' /\ ~Checked'
  BY DEF Prepared, Taken, Checked
<1>3. Actors(event)' = Actors(event) /\ \A b : Witnessed(b)' = Witnessed(b)
  BY DEF Actors, IsRun, Witnessed
<1>4. ActorsKnown'
  BY <1>2, <1>3 DEF AdmissionInv, ActorsKnown
<1>5. IssueRead' /\ PullRead'
  BY <1>2, StartFixed DEF AdmissionInv, IssueRead, PullRead
<1> QED BY <1>1, <1>2, <1>4, <1>5 DEF AdmissionInv, Judged, Equipped

-----------------------------------------------------------------------------
(* What happens on GitHub meanwhile *)

\* A note that is edited, or added, at a second that is not before the event.
LEMMA CommentsEdited ==
    ASSUME NEW list \in Seq(Notes), NEW k \in DOMAIN list, NEW time \in Nat,
           NEW edited, edited = [list EXCEPT ![k] = Edited(@, time)]
    PROVE  /\ edited \in Seq(Notes)
           /\ DOMAIN edited = DOMAIN list
           /\ edited[k].updated = time
           /\ \A i \in DOMAIN list \ {k} : edited[i] = list[i]
<1> DEFINE note == Edited(list[k], time)
<1>1. list[k] \in Notes
  OBVIOUS
<1>2. list[k].author \in People \cup {"other"} /\ list[k].created \in Nat /\ list[k].body + 1 \in Nat
  BY <1>1 DEF Notes
<1>3. note \in Notes /\ note.updated = time
  BY <1>2 DEF Notes, Edited
<1>4. edited = [list EXCEPT ![k] = note]
  OBVIOUS
<1> HIDE DEF note
<1> QED BY <1>3, <1>4

\* Changes leave alone what the run has read, and whom it has found to be a writer.
LEMMA HappensAdmission == AdmissionInv /\ Happens => AdmissionInv'
<1> SUFFICES ASSUME AdmissionInv, Happens PROVE AdmissionInv'
  OBVIOUS
<1>1. /\ UNCHANGED <<start, failures, at, command, access, reading, policy, config, outcome>>
      /\ at \notin {"authorize", "prepare", "done"}
      /\ now' \in {now, now + 1}
  BY DEF Happens, EditText, EditComment, AddComment, Touch, Push, Permit, Change, Kept
<1>2. now \in Nat /\ now' \in Nat \ {0}
  BY <1>1 DEF AdmissionInv, AdmissionTypes
<1>3. comments' \in Seq(Notes) /\ Calm'
  <2>1. CASE EditComment
    <3> PICK k \in DOMAIN comments :
          comments' = [comments EXCEPT ![k] = Edited(@, now')]
      BY <2>1 DEF EditComment
    <3>1. /\ comments' \in Seq(Notes) /\ DOMAIN comments' = DOMAIN comments
          /\ comments'[k].updated = now'
          /\ \A i \in DOMAIN comments \ {k} : comments'[i] = comments[i]
      <4>1. comments \in Seq(Notes) /\ now' \in Nat
        BY <1>2 DEF AdmissionInv, AdmissionTypes
      <4> QED BY <4>1, CommentsEdited
    <3> QED BY <1>2, <3>1 DEF AdmissionInv, Calm, Trigger
  <2>2. CASE AddComment
    <3> DEFINE note == Note("other", now', 1)
    <3>1. comments' = Append(comments, note)
      BY <2>2 DEF AddComment
    <3>2. note \in Notes /\ note.updated = now'
      BY <1>2 DEF Note, Notes
    <3> HIDE DEF note
    <3>3. /\ comments' \in Seq(Notes) /\ DOMAIN comments' = DOMAIN comments \cup {Len(comments) + 1}
          /\ comments'[Len(comments) + 1] = note
          /\ \A i \in DOMAIN comments : comments'[i] = comments[i]
      BY <3>1, <3>2 DEF AdmissionInv, AdmissionTypes
    <3> QED BY <1>2, <3>2, <3>3 DEF AdmissionInv, Calm, Trigger
  <2>3. CASE comments' = comments
    BY <2>3 DEF AdmissionInv, AdmissionTypes, Calm
  <2> QED BY <2>1, <2>2, <2>3 DEF Happens, EditText, Touch, Push, Permit
<1>4. /\ head' \in Nat /\ moved' \in BOOLEAN
      /\ ~moved' => ~moved /\ head <= head'
  <2>1. CASE Push
    <3>1. head' \in {head + 1} \cup 0..(head - 1) /\ moved' = (moved \/ head' < head)
      BY <2>1 DEF Push
    <3>2. head' \in Nat /\ (head' < head \/ head <= head')
      BY <3>1 DEF AdmissionInv, AdmissionTypes
    <3>3. moved' \in BOOLEAN
      BY <3>1, Zenon
    <3> QED BY <3>1, <3>2, <3>3
  <2>2. CASE head' = head /\ moved' = moved
    BY <2>2 DEF AdmissionInv, AdmissionTypes
  <2> QED BY <2>1, <2>2 DEF Happens, EditText, EditComment, AddComment, Touch, Permit
<1>5. wereWriters \subseteq wereWriters' /\ writers' \subseteq wereWriters'
  BY DEF Happens, EditText, EditComment, AddComment, Touch, Push, Permit, AdmissionInv,
     AdmissionTypes
<1>6. text' \in Nat
  <2>1. text' \in {text, text + 1}
    BY DEF Happens, EditText, EditComment, AddComment, Touch, Push, Permit
  <2> QED BY <2>1 DEF AdmissionInv, AdmissionTypes
<1>7. AdmissionTypes' /\ Outcomes' /\ EventTrue' /\ WriteCommands' /\ ShownCalm'
  BY <1>1, <1>2, <1>3, <1>4, <1>5, <1>6
     DEF AdmissionInv, AdmissionTypes, Outcomes, EventTrue, WriteCommands, ShownCalm, start, reading
<1>8. ~Taken /\ ~Taken' /\ ~Prepared /\ ~Prepared' /\ at' # "prepare" /\ Checked' = Checked
  BY <1>1 DEF AdmissionInv, Outcomes, Taken, Prepared, Checked
<1>9. ActorsKnown'
  <2>1. Actors(event)' = Actors(event)
    BY <1>1 DEF Actors, IsRun, start
  <2>2. \A a : Witnessed(a) => Witnessed(a)'
    BY <1>1, <1>5 DEF Witnessed, start
  <2> QED BY <1>1, <1>8, <2>1, <2>2 DEF AdmissionInv, ActorsKnown
<1>10. IssueRead'
  BY <1>1, <1>8, StartFixed DEF AdmissionInv, IssueRead, start, reading
<1>11. PullRead'
  BY <1>1, <1>4, <1>8, StartFixed DEF AdmissionInv, PullRead, AdmissionTypes, start, reading
<1> QED BY <1>3, <1>7, <1>8, <1>9, <1>10, <1>11 DEF AdmissionInv, Judged, Equipped

LEMMA StepAdmission == AdmissionInv /\ [Next]_vars => AdmissionInv'
<1> SUFFICES ASSUME AdmissionInv, [Next]_vars PROVE AdmissionInv'
  OBVIOUS
<1>1. CASE Step
  BY <1>1, RouteAdmission, CheckActorAdmission, GetAdmission, ListFilesAdmission,
     ListCommentsAdmission, VerifyAdmission, AuthorizeAdmission, PrepareAdmission DEF Step
<1>2. CASE Happens
  BY <1>2, HappensAdmission
<1>3. CASE RequestFails
  BY <1>3, RequestFailsAdmission
<1>4. CASE UNCHANGED vars
  <2> USE <1>4 DEF vars, start, world, reading
  <2>1. AdmissionTypes' /\ Outcomes' /\ EventTrue' /\ Calm' /\ WriteCommands' /\ ShownCalm'
    BY DEF AdmissionInv, AdmissionTypes, Outcomes, EventTrue, Calm, WriteCommands, ShownCalm
  <2>2. Taken' = Taken /\ Checked' = Checked /\ Prepared' = Prepared
    BY DEF Taken, Checked, Prepared
  <2>3. ActorsKnown'
    BY <2>2 DEF AdmissionInv, ActorsKnown, Actors, IsRun, Witnessed
  <2>4. IssueRead' /\ PullRead'
    BY <2>2, StartFixed DEF AdmissionInv, IssueRead, PullRead
  <2>5. Judged' /\ Equipped'
    BY <2>2, GrantedStays, UnrefusedStays DEF AdmissionInv, Judged, Equipped
  <2> QED BY <2>1, <2>3, <2>4, <2>5 DEF AdmissionInv
<1> QED BY <1>1, <1>2, <1>3, <1>4 DEF Next

\* What holds of a run between its steps, whatever changes on GitHub meanwhile: who was found
\* to be a writer was one, what was read is framed by two readings, and the decision is the
\* one that the policy takes on what was found.
THEOREM AdmissionInvariance == Spec => []AdmissionInv
BY InitAdmission, StepAdmission, PTL DEF Spec

-----------------------------------------------------------------------------
(* The context *)

\* What a prepared run shows its Agent is what there was at the event (github/fetch.ts): no
\* later comment or edit, the issue's own text, and the files of the bound head, unless the
\* head went away and came back between the two readings.
THEOREM ContextIsFrozen == Spec => []FrozenContext
<1>1. AdmissionInv => FrozenContext
  <2> SUFFICES ASSUME AdmissionInv, Prepared PROVE FrozenContext
    BY DEF FrozenContext
  <2>1. Taken
    BY DEF Taken
  <2> QED BY <2>1 DEF FrozenContext, AdmissionInv, ShownCalm, IssueRead, PullRead
<1> QED BY <1>1, AdmissionInvariance, PTL

-----------------------------------------------------------------------------
(* Trust *)

Permissions == {"untrusted", "trusted-read", "trusted-write"}

\* Trust comes of actors that all may write and of content of this repository; the power to
\* write, of a command that writes, in a workflow that opted in.
LEMMA PolicyTrust ==
    ASSUME Granted
    PROVE  /\ policy.trust \in Permissions
           /\ policy.trust # "untrusted" => ActorsCanWrite /\ Origin(event, Resolved) = "same"
           /\ command.source = "mention" => ActorsCanWrite
           /\ policy.trust = "trusted-write" <=> command.access = "write"
           /\ policy.trust = "trusted-write" =>
                 /\ inputs.allowWrite /\ event.name # "pull_request_target"
                 /\ IsRun(event) => command.operation = "fix" /\ Resolved # "none"
           /\ policy.capabilities \cap {"executeRepositoryCode", "modifyWorkspace"} # {} =>
                 policy.trust = "trusted-write"
<1> DEFINE trusted == Origin(event, Resolved) = "same" /\ ActorsCanWrite
           writes == command.access = "write"
           barred == \/ command.source = "mention" /\ ~ActorsCanWrite
                     \/ writes /\ \/ ~inputs.allowWrite
                                  \/ IsRun(event) /\ ~(command.operation = "fix" /\ Resolved # "none")
                                  \/ event.name = "pull_request_target"
                                  \/ ~trusted
           granted == [trust |-> IF ~trusted THEN "untrusted" ELSE IF writes THEN "trusted-write" ELSE "trusted-read",
                       allowed |-> TRUE,
                       capabilities |-> IF writes THEN WriteCapabilities(event, command)
                                        ELSE ReadCapabilities(command, trusted)]
<1>1. policy = IF barred THEN Denied ELSE granted
  BY DEF Granted, EvaluatePolicy
<1>2. ~barred /\ policy = granted
  BY <1>1 DEF Granted, Denied
<1>3. ReadCapabilities(command, trusted) \cap {"executeRepositoryCode", "modifyWorkspace"} = {}
  BY DEF ReadCapabilities
<1> HIDE DEF trusted
<1>4. policy.trust = (IF ~trusted THEN "untrusted" ELSE IF writes THEN "trusted-write" ELSE "trusted-read")
  BY <1>2
<1>5. ~writes => policy.capabilities \cap {"executeRepositoryCode", "modifyWorkspace"} = {}
  BY <1>2, <1>3
<1>6. (policy.trust = "trusted-write") <=> writes
  BY <1>2, <1>4
<1> QED BY <1>2, <1>4, <1>5, <1>6 DEF trusted, Permissions

\* All actors found writers have been so.
LEMMA TrustWitnessed ==
    ASSUME AdmissionInv, Prepared, ActorsCanWrite
    PROVE  TrustedActors
BY DEF AdmissionInv, ActorsKnown, Checked, Witnessed, TrustedActors, ActorsCanWrite

\* Content of this repository is not the one of a pull request from a fork.
LEMMA SameOrigin ==
    ASSUME EventTrue, Origin(event, Resolved) = "same"
    PROVE  ~(Target = "pull_request" /\ pull.fork)
BY DEF EventTrue, Origin, Resolved, Target, IsPull, IsRun, IsEntity, EntityEvents, PullEvents

-----------------------------------------------------------------------------
(* The tools *)

\* No builtin tool is for the untrusted, and those that change the workspace are for writers.
LEMMA ContractTrust ==
    /\ \A id \in Native : Contract[id].trust \subseteq Trusted
    /\ \A id \in {"workspace.edit", "native.bash", "native.subagent"} : Contract[id].trust = Writing
BY DEF Contract, Native, Workspace, Autonomy, Trusted, Writing

\* What the controlled plan loads has a tool that was asked for, and writes if one does.
LEMMA PlannedOwners ==
    ASSUME NEW c
    PROVE  /\ c.mode # "native" => \A owner \in Plan(c).owners :
                 /\ owner.tools # {} /\ owner.tools \subseteq ToolsOf(Plan(c).owners)
                 /\ \A tool \in owner.tools : tool.id \in Considered(c)
                 /\ owner.write => \E tool \in owner.tools : "workspace-write" \in tool.permissions
           /\ Plan(c).write => \E owner \in Plan(c).owners : owner.write
           /\ c.mode = "native" => Plan(c).tools = {}
           /\ c.mode # "native" => Plan(c).tools = ToolIds(Plan(c).owners) /\ Plan(c).owners = ControlledPlan(c).owners
<1> DEFINE Asked(owner) == {tool \in owner.tools : tool.id \in Considered(c)}
           Loaded(owner) == [id |-> owner.id, kind |-> owner.kind, network |-> owner.network,
                             tools |-> Asked(owner),
                             write |-> \E tool \in Asked(owner) : "workspace-write" \in tool.permissions]
           active == {Loaded(owner) : owner \in {o \in c.owners : Asked(o) # {}}}
<1>1. c.mode # "native" => Plan(c).owners = active /\ Plan(c).tools = ToolIds(active)
  BY DEF Plan, ControlledPlan
<1>2. c.mode # "native" => Plan(c).owners = ControlledPlan(c).owners
  BY DEF Plan
<1>3. ASSUME NEW owner \in active
      PROVE  /\ owner.tools # {} /\ owner.tools \subseteq ToolsOf(active)
             /\ \A tool \in owner.tools : tool.id \in Considered(c)
             /\ owner.write => \E tool \in owner.tools : "workspace-write" \in tool.permissions
  <2> PICK o \in c.owners : Asked(o) # {} /\ owner = Loaded(o)
    OBVIOUS
  <2>1. owner.tools = Asked(o) /\ (owner.write => \E tool \in Asked(o) : "workspace-write" \in tool.permissions)
    BY DEF Loaded
  <2>2. owner.tools \subseteq ToolsOf(active)
    <3> HIDE DEF active
    <3> QED BY DEF ToolsOf
  <2> QED BY <2>1, <2>2
<1>4. Plan(c).write => \E owner \in Plan(c).owners : owner.write
  BY DEF Plan
<1>5. c.mode = "native" => Plan(c).tools = {}
  BY DEF Plan, NativePlan
<1> HIDE DEF active
<1> QED BY <1>1, <1>2, <1>3, <1>4, <1>5

\* Whatever of the repository, a tool or an extension is granted, is granted to trust.
LEMMA GrantsNeedTrust ==
    ASSUME Granted, Unrefused, Grants
    PROVE  policy.trust \in Trusted
<1>1. /\ policy.trust \in Permissions
      /\ policy.capabilities \cap {"executeRepositoryCode", "modifyWorkspace"} # {} =>
            policy.trust = "trusted-write"
  BY PolicyTrust
<1>2. CASE Materialized(config, policy)
  BY <1>2 DEF Materialized, Trusted
<1>3. CASE Plan(config).owners # {}
  BY <1>1, <1>3 DEF Unrefused, WorkerRefused, Permissions, Trusted
<1>4. CASE Effective(config, policy, Binding, inputs.allowWrite) # {}
  <2>1. CASE Builtin(config, policy) # {}
    BY <2>1, ContractTrust DEF Builtin
  <2>2. CASE Commands(config, policy) # {}
    BY <1>1, <2>2 DEF Commands, Trusted
  <2>3. CASE GitHubTools(config, policy, Binding, inputs.allowWrite) # {}
    <3>1. policy.trust # "untrusted"
      BY <2>3 DEF GitHubTools
    <3> QED BY <1>1, <3>1 DEF Permissions, Trusted
  <2>4. CASE Plan(config).tools # {}
    <3>1. Plan(config).owners # {}
      BY <2>4, PlannedOwners DEF ToolIds, ToolsOf
    <3> QED BY <1>3, <3>1
  <2>5. Commands(config, policy) = {} => {c.id : c \in Commands(config, policy)} = {}
    OBVIOUS
  <2> QED BY <1>4, <2>1, <2>2, <2>3, <2>4, <2>5 DEF Effective
<1> QED BY <1>2, <1>3, <1>4 DEF Grants

\* An extension that writes is refused to everyone else.
LEMMA WritingPlan ==
    ASSUME Granted, Unrefused, Plan(config).write
    PROVE  policy.trust = "trusted-write"
<1>1. PICK owner \in Plan(config).owners : owner.write
  BY PlannedOwners
<1>2. ~PlanRefused(config, policy)
  BY DEF Unrefused, ExecutionRefused
<1>3. CASE config.mode = "native"
  BY <1>3 DEF Unrefused, WorkerRefused
<1>4. CASE config.mode # "native"
  <2>1. PICK tool \in owner.tools : "workspace-write" \in tool.permissions
    BY <1>1, <1>4, PlannedOwners
  <2>2. tool \in ToolsOf(ControlledPlan(config).owners)
    BY <1>1, <1>4, PlannedOwners
  <2>3. ~ToolRefused(tool, policy)
    BY <1>2, <1>4, <2>2 DEF PlanRefused, ControlledRefused
  <2> QED BY <2>1, <2>3 DEF ToolRefused, MayNotWrite
<1> QED BY <1>3, <1>4

\* A power to write is a writer's.
LEMMA PowersNeedWriter ==
    ASSUME Granted, Unrefused, WritePowers
    PROVE  policy.trust = "trusted-write"
<1>1. CASE WorkerWrites(config, policy)
  <2>1. CASE config.mode = "native"
    BY <1>1, <2>1 DEF WorkerWrites
  <2>2. CASE "workspace.edit" \in WorkerTools(config, policy)
    BY <2>2 DEF WorkerTools
  <2>3. CASE Plan(config).write
    BY <2>3, WritingPlan
  <2> QED BY <1>1, <2>1, <2>2, <2>3 DEF WorkerWrites
<1>2. CASE Commands(config, policy) # {}
  <2>1. "executeRepositoryCode" \in policy.capabilities
    BY <1>2 DEF Commands
  <2> QED BY <2>1, PolicyTrust
<1>3. CASE GitHubTools(config, policy, Binding, inputs.allowWrite) \cap DOMAIN Mutations # {}
  <2>1. "checks.read" \notin DOMAIN Mutations
    BY DEF Mutations
  <2> QED BY <1>3, <2>1 DEF GitHubTools
<1> QED BY <1>1, <1>2, <1>3 DEF WritePowers

\* Nothing beyond the packet of text is granted unless every actor had write permission during
\* the run and the content is of this repository, and no power to write unless the workflow
\* opted in and the event, the branch and the pull request allow one: through routing, lookups
\* that may fail, the snapshot and the three resolutions of the tools.
THEOREM OnlyTheTrusted == Spec => []GrantsAreTrusted
<1>1. AdmissionInv => GrantsAreTrusted
  <2> SUFFICES ASSUME AdmissionInv, Prepared PROVE GrantsAreTrusted
    BY DEF GrantsAreTrusted
  <2>1. Granted /\ Unrefused /\ EventTrue /\ WriteCommands
    BY DEF AdmissionInv, Judged, Equipped
  <2>2. Grants \/ command.source = "mention" => TrustedActors
    BY <2>1, GrantsNeedTrust, PolicyTrust, TrustWitnessed DEF Trusted
  <2>3. Grants => ~(Target = "pull_request" /\ pull.fork)
    BY <2>1, GrantsNeedTrust, PolicyTrust, SameOrigin DEF Trusted
  <2>4. ASSUME WritePowers
        PROVE  /\ inputs.allowWrite /\ inputs.baseKnown
               /\ event.name # "pull_request_target"
               /\ ~(Target = "pull_request" /\ pull.branch = "protected")
               /\ IsRun(event) => command.operation = "fix" /\ event.attached
    <3>1. policy.trust = "trusted-write"
      BY <2>1, <2>4, PowersNeedWriter
    <3>2. /\ command.access = "write"
          /\ inputs.allowWrite /\ event.name # "pull_request_target"
          /\ IsRun(event) => command.operation = "fix" /\ Resolved # "none"
      BY <2>1, <3>1, PolicyTrust
    <3>3. Branch # "unknown" /\ ~(Target = "pull_request" /\ Branch = "protected")
      BY <2>1, <3>2 DEF WriteCommands, Granted, OperationFits
    <3>4. inputs.baseKnown /\ Branch = pull.branch
      BY <3>3 DEF Branch
    <3>5. IsRun(event) /\ Resolved # "none" => event.attached
      BY DEF IsRun, Resolved, Target, IsPull, PullEvents, IsEntity, EntityEvents
    <3> QED BY <3>2, <3>3, <3>4, <3>5
  <2> QED BY <2>2, <2>3, <2>4 DEF GrantsAreTrusted
<1> QED BY <1>1, AdmissionInvariance, PTL

-----------------------------------------------------------------------------
(* The audit *)

Codes == {"EXPLICIT_DENY", "TRUST_REQUIRED", "ISOLATION_REQUIRED", "CAPABILITY_NOT_GRANTED",
          "BINDING_UNAVAILABLE", "PROVIDER_UNAVAILABLE"}

\* Of some grounds, the first in the order of precedence is found.
LEMMA CodeFound ==
    ASSUME NEW grounds \in SUBSET Codes, grounds # {}
    PROVE  SelectInSeq(Precedence, LAMBDA code : code \in grounds) # 0
<1> DEFINE I == {i \in 1..Len(Precedence) : Precedence[i] \in grounds}
<1>1. SelectInSeq(Precedence, LAMBDA code : code \in grounds) = IF I # {} THEN Min(I) ELSE 0
  BY DEF SelectInSeq
<1>2. I \in SUBSET (1..6)
  BY DEF Precedence
<1>3. PICK code \in grounds : code \in Codes
  OBVIOUS
<1>4. \E i \in 1..6 : Precedence[i] = code
  BY <1>3 DEF Codes, Precedence
<1>5. I # {}
  BY <1>4 DEF Precedence
<1> HIDE DEF I
<1>6. Min(I) \in I
  BY <1>2, <1>5, MinAmong
<1> QED BY <1>1, <1>2, <1>5, <1>6

\* What is not granted has a ground, which some boundary gives.
LEMMA GroundGiven ==
    ASSUME Granted, NEW id, id \in Requested(config),
           id \notin Effective(config, policy, Binding, inputs.allowWrite)
    PROVE  /\ Grounds(id, config, policy, Binding, inputs.allowWrite) # {}
           /\ Grounds(id, config, policy, Binding, inputs.allowWrite) \in SUBSET Codes
<1> DEFINE If(condition, code) == IF condition THEN {code} ELSE {}
           Lacks(capabilities) == If(~(capabilities \subseteq policy.capabilities), "CAPABILITY_NOT_GRANTED")
           Needs(trust) == If(~policy.allowed \/ policy.trust \notin trust, "TRUST_REQUIRED")
           ofNative == Needs(Contract[id].trust) \cup Lacks(Contract[id].takes)
                           \cup If(config.isolation # "docker", "ISOLATION_REQUIRED")
           ofChecks == Needs(Trusted) \cup Lacks({"readCi"})
                           \cup If(Binding \notin {"pull_request", "workflow_run"}, "BINDING_UNAVAILABLE")
           ofMutation == Needs(Writing) \cup Lacks({Mutations[id].takes})
                             \cup If(~inputs.allowWrite, "CAPABILITY_NOT_GRANTED")
                             \cup If(Binding \notin Mutations[id].on, "BINDING_UNAVAILABLE")
           asked == CHOOSE c \in config.commands : c.id = id
           ofCommand == Needs(Writing) \cup Lacks({"executeRepositoryCode"})
                            \cup (IF asked.write THEN Lacks({"modifyWorkspace"}) ELSE {})
                            \cup (IF asked.network THEN Lacks({"accessNetwork"}) ELSE {})
<1>1. Grounds(id, config, policy, Binding, inputs.allowWrite) =
        CASE id \in config.disallowed -> {"EXPLICIT_DENY"}
          [] id \in Native \ config.disallowed -> ofNative
          [] id = "checks.read" /\ id \notin config.disallowed -> ofChecks
          [] id \in DOMAIN Mutations \ config.disallowed -> ofMutation
          [] id \in CommandIds(config) \ config.disallowed -> ofCommand
          [] OTHER -> {"PROVIDER_UNAVAILABLE"}
  BY DEF Grounds
<1>2. /\ id \notin Builtin(config, policy)
      /\ id \notin {c.id : c \in Commands(config, policy)}
      /\ id \notin GitHubTools(config, policy, Binding, inputs.allowWrite)
  BY DEF Effective
<1>3. id \notin config.disallowed => id \in Considered(config)
  BY DEF Considered
<1>4. policy.trust \in Permissions /\ policy.allowed
  BY PolicyTrust DEF Granted
<1>5. /\ ofNative \in SUBSET Codes /\ ofChecks \in SUBSET Codes
      /\ ofMutation \in SUBSET Codes /\ ofCommand \in SUBSET Codes
  BY DEF Codes
<1>6. id \in Native \ config.disallowed => ofNative # {}
  BY <1>2, <1>3, <1>4 DEF Builtin
<1>7. id = "checks.read" /\ id \notin config.disallowed => ofChecks # {}
  <2>1. id = "checks.read" => id \in GitHub
    BY DEF GitHub
  <2> QED BY <1>2, <1>3, <1>4, <2>1 DEF GitHubTools, Trusted, Permissions
<1>8. id \in DOMAIN Mutations \ config.disallowed => ofMutation # {}
  <2>1. "checks.read" \notin DOMAIN Mutations /\ DOMAIN Mutations \subseteq GitHub
    BY DEF Mutations, GitHub
  <2> QED BY <1>2, <1>3, <1>4, <2>1 DEF GitHubTools, Writing
<1>9. id \in CommandIds(config) \ config.disallowed => ofCommand # {}
  <2> SUFFICES ASSUME id \in CommandIds(config) \ config.disallowed, ofCommand = {} PROVE FALSE
    OBVIOUS
  <2>1. asked \in config.commands /\ asked.id = id
    BY DEF CommandIds
  <2>2. asked \notin Commands(config, policy)
    BY <1>2, <2>1
  <2> HIDE DEF asked
  <2> QED BY <1>3, <2>1, <2>2 DEF Commands
<1> HIDE DEF ofNative, ofChecks, ofMutation, ofCommand
<1> QED BY <1>1, <1>5, <1>6, <1>7, <1>8, <1>9 DEF Codes

-----------------------------------------------------------------------------
(* The worker *)

\* The runner derives the tools that the Controller resolved.
LEMMA SameTools ==
    ASSUME Granted
    PROVE  WorkerTools(config, policy) = Builtin(config, policy)
<1> SUFFICES ASSUME NEW id \in Builtin(config, policy) PROVE id \in WorkerTools(config, policy)
  BY DEF WorkerTools
<1>1. id \in Native /\ config.isolation = "docker" /\ policy.trust \in Contract[id].trust
  BY DEF Builtin
<1>2. policy.trust # "untrusted"
  BY <1>1, ContractTrust DEF Trusted
<1>3. id \in {"workspace.edit", "native.bash", "native.subagent"} => policy.trust = "trusted-write"
  BY <1>1, ContractTrust DEF Writing
<1> QED BY <1>1, <1>2, <1>3 DEF WorkerTools

\* Nothing but the builtin tools has the name of one.
LEMMA NativeIsBuiltin ==
    ASSUME Unrefused
    PROVE  Effective(config, policy, Binding, inputs.allowWrite) \cap Native = Builtin(config, policy)
<1>1. CommandIds(config) \cap Native = {} /\ ToolIds(config.owners) \cap Native = {}
  BY ConfigAssumption DEF Unrefused
<1>2. {c.id : c \in Commands(config, policy)} \subseteq CommandIds(config)
  BY DEF Commands, CommandIds
<1>3. GitHub \cap Native = {}
  BY DEF GitHub, Mutations, Native, Workspace, Autonomy
<1>4. GitHubTools(config, policy, Binding, inputs.allowWrite) \subseteq GitHub
  BY DEF GitHubTools
<1>5. Plan(config).tools \subseteq ToolIds(config.owners)
  <2> DEFINE Asked(owner) == {tool \in owner.tools : tool.id \in Considered(config)}
             Loaded(owner) == [id |-> owner.id, kind |-> owner.kind, network |-> owner.network,
                               tools |-> Asked(owner),
                               write |-> \E tool \in Asked(owner) : "workspace-write" \in tool.permissions]
             active == {Loaded(owner) : owner \in {o \in config.owners : Asked(o) # {}}}
  <2>1. Plan(config).tools = IF config.mode = "native" THEN {} ELSE ToolIds(active)
    BY DEF Plan, NativePlan, ControlledPlan
  <2>2. \A owner \in active : \E o \in config.owners : owner.tools \subseteq o.tools
    OBVIOUS
  <2> HIDE DEF active
  <2>3. ToolIds(active) \subseteq ToolIds(config.owners)
    BY <2>2 DEF ToolIds, ToolsOf
  <2> QED BY <2>1, <2>3
<1>6. Builtin(config, policy) \subseteq Native
  BY DEF Builtin
<1> QED BY <1>1, <1>2, <1>3, <1>4, <1>5, <1>6 DEF Effective

\* What was disallowed is granted by no boundary.
LEMMA DisallowedNowhere ==
    Effective(config, policy, Binding, inputs.allowWrite) \cap config.disallowed = {}
<1>1. Considered(config) \cap config.disallowed = {}
  BY DEF Considered
<1>2. /\ Builtin(config, policy) \subseteq Considered(config)
      /\ GitHubTools(config, policy, Binding, inputs.allowWrite) \subseteq Considered(config)
      /\ {c.id : c \in Commands(config, policy)} \subseteq Considered(config)
  BY DEF Builtin, GitHubTools, Commands
<1>3. Plan(config).tools \subseteq Considered(config)
  <2>1. CASE config.mode = "native"
    BY <2>1, PlannedOwners
  <2>2. CASE config.mode # "native"
    <3>1. Plan(config).tools = ToolIds(Plan(config).owners)
      BY <2>2, PlannedOwners
    <3>2. \A owner \in Plan(config).owners : \A tool \in owner.tools : tool.id \in Considered(config)
      BY <2>2, PlannedOwners
    <3> QED BY <3>1, <3>2 DEF ToolIds, ToolsOf
  <2> QED BY <2>1, <2>2
<1> QED BY <1>1, <1>2, <1>3 DEF Effective

\* The worker writes exactly when the audit says so.
LEMMA SameWrites ==
    ASSUME Granted, Unrefused
    PROVE  Audit(config, policy, Binding, inputs.allowWrite).write <=> WorkerWrites(config, policy)
<1> DEFINE edits == "workspace.edit" \in Builtin(config, policy)
           runs == \E c \in Commands(config, policy) : c.write
<1>1. "workspace.edit" \in Native
  BY DEF Native, Workspace
<1>2. Audit(config, policy, Binding, inputs.allowWrite).write <=>
        edits \/ runs \/ (config.mode = "controlled" /\ Plan(config).write)
  BY <1>1, NativeIsBuiltin DEF Audit
<1>3. WorkerWrites(config, policy) <=>
        IF config.mode = "native" THEN policy.trust = "trusted-write" ELSE edits \/ Plan(config).write
  BY SameTools DEF WorkerWrites
<1>4. edits => policy.trust = "trusted-write"
  BY <1>1, ContractTrust DEF Builtin, Writing
<1>5. runs => policy.trust = "trusted-write"
  BY PolicyTrust DEF Commands
<1>6. policy.trust = "trusted-write" => edits
  BY PolicyTrust DEF Unrefused, ExecutionRefused
<1>7. config.mode \in {"controlled", "native"}
  BY ConfigAssumption DEF Unrefused
<1> HIDE DEF edits, runs
<1> QED BY <1>2, <1>3, <1>4, <1>5, <1>6, <1>7

\* The packages that stay enabled register what the worker's policy plugin knows, and all that
\* it allows is among it.
LEMMA SameNames ==
    ASSUME NEW tools \in SUBSET Native
    PROVE  LET mounted == UNION {Registers(row) : row \in MountedRows(tools)}
           IN  KnownNames(tools) = mounted /\ AllowedNames(tools) \subseteq mounted
<1> DEFINE mounted == UNION {Registers(row) : row \in MountedRows(tools)}
           If(condition, names) == IF condition THEN names ELSE {}
           onFiles == tools \cap {"workspace.read", "workspace.edit"} # {}
           byRow == If(onFiles, {"read", "read_image", "write", "edit"})
                        \cup If("workspace.search" \in tools, {"glob", "grep"})
                        \cup If("workspace.edit" \in tools, {"str_replace_editor"})
                        \cup If("native.bash" \in tools, {"bash"})
                        \cup If("native.subagent" \in tools, {"subagent"})
                        \cup If("native.web-search" \in tools, {"web_search"})
<1>1. MountedRows(tools) = If(onFiles, {"tool-fs"}) \cup If("workspace.search" \in tools, {"tool-fs-search"})
                               \cup If("workspace.edit" \in tools, {"tool-str-replace-editor"})
                               \cup If("native.bash" \in tools, {"tool-bash"})
                               \cup If("native.subagent" \in tools, {"tool-subagent"})
                               \cup If("native.web-search" \in tools, {"tool-web"})
  BY DEF MountedRows
<1>2. /\ Registers("tool-fs") = {"read", "read_image", "write", "edit"}
      /\ Registers("tool-fs-search") = {"glob", "grep"}
      /\ Registers("tool-str-replace-editor") = {"str_replace_editor"}
      /\ Registers("tool-bash") = {"bash"}
      /\ Registers("tool-subagent") = {"subagent"}
      /\ Registers("tool-web") = {"web_search"}
  BY DEF Registers
<1>3. mounted = byRow
  <2> HIDE DEF onFiles
  <2> QED BY <1>1, <1>2
<1>4. /\ RuntimeTools["workspace.read"] = {"read", "read_image"}
      /\ RuntimeTools["workspace.search"] = {"glob", "grep"}
      /\ RuntimeTools["workspace.edit"] = {"write", "edit", "str_replace_editor"}
      /\ RuntimeTools["native.bash"] = {"bash"}
      /\ RuntimeTools["native.web-search"] = {"web_search"}
      /\ RuntimeTools["native.subagent"] = {"subagent"}
  BY DEF RuntimeTools, Native, Workspace, Autonomy
<1>5. KnownNames(tools) = byRow
  BY <1>4 DEF KnownNames, Autonomy
<1>6. AllowedNames(tools) \subseteq byRow
  BY <1>4 DEF AllowedNames, Native, Workspace, Autonomy
<1> QED BY <1>3, <1>5, <1>6

\* The audit of buildPermissionAudit and the worker that the runner derives for itself agree, for
\* every configuration that the inputs admit: what is disallowed is nowhere, every other refusal
\* has its code, and the tools, the write access, the network and the names of the worker are
\* the audited ones.
THEOREM AuditIsTrue == Spec => []AuditTellsWorker
<1>1. AdmissionInv => AuditTellsWorker
  <2> SUFFICES ASSUME AdmissionInv, Prepared PROVE AuditTellsWorker
    BY DEF AuditTellsWorker
  <2> DEFINE audit == Audit(config, policy, Binding, inputs.allowWrite)
             tools == WorkerTools(config, policy)
             effective == Effective(config, policy, Binding, inputs.allowWrite)
             Ground(id) == Grounds(id, config, policy, Binding, inputs.allowWrite)
             Code(id) == SelectInSeq(Precedence, LAMBDA code : code \in Ground(id))
  <2>1. Granted /\ Unrefused
    BY DEF AdmissionInv, Judged, Equipped
  <2>2. audit.effective = effective /\ audit.denied = [id \in Requested(config) \ effective |-> Code(id)]
    BY DEF Audit
  <2>3. \A id \in Requested(config) \ effective : Code(id) # 0
    <3> SUFFICES ASSUME NEW id \in Requested(config) \ effective PROVE Code(id) # 0
      OBVIOUS
    <3>1. Ground(id) # {} /\ Ground(id) \in SUBSET Codes
      BY <2>1, GroundGiven
    <3> HIDE DEF Ground
    <3> QED BY <3>1, CodeFound
  <2>4. audit.effective \cap (config.disallowed \cup DOMAIN audit.denied) = {}
    <3> HIDE DEF effective, audit, Code
    <3>1. DOMAIN audit.denied = Requested(config) \ effective
      BY <2>2
    <3>2. effective \cap config.disallowed = {}
      BY DisallowedNowhere DEF effective
    <3> QED BY <2>2, <3>1, <3>2
  <2>5. \A id \in DOMAIN audit.denied : audit.denied[id] # 0
    <3> HIDE DEF effective, audit, Code
    <3> QED BY <2>2, <2>3
  <2>6. audit.effective \cap Native = tools
    BY <2>1, <2>2, NativeIsBuiltin, SameTools
  <2>7. audit.write <=> WorkerWrites(config, policy)
    BY <2>1, SameWrites
  <2>8. Plan(config).network => audit.network = "bridge"
    BY DEF Audit
  <2>9. tools \in SUBSET Native
    BY DEF WorkerTools, Builtin
  <2>10. LET mounted == UNION {Registers(row) : row \in MountedRows(tools)}
         IN  KnownNames(tools) = mounted /\ AllowedNames(tools) \subseteq mounted
    <3> HIDE DEF tools
    <3> QED BY <2>9, SameNames
  <2> HIDE DEF audit, tools
  <2> QED BY <2>4, <2>5, <2>6, <2>7, <2>8, <2>10 DEF AuditTellsWorker, audit, tools
<1> QED BY <1>1, AdmissionInvariance, PTL

=============================================================================
