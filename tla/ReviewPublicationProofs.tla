----------------------- MODULE ReviewPublicationProofs -----------------------
(***************************************************************************)
(* Proofs about ReviewPublication, for any files, any findings and any     *)
(* number of runs and faults: what a published review found can be read    *)
(* as far as the summary's limit leaves room, the gravest first,           *)
(* a place in the source has one thread (where a finding is placed and     *)
(* what identifies it may be any functions for these two), and a comment   *)
(* stands on a line that the patch shows, from the parser's rows up.       *)
(***************************************************************************)
EXTENDS ReviewPublication, FiniteSetTheorems, WellFoundedInduction, TLAPS

-----------------------------------------------------------------------------
(* The inductive invariant *)

Places == {[path |-> Locations[r][f].path, line |-> Locations[r][f].line, side |-> Locations[r][f].side] :
              r \in Revisions, f \in Reported}
Starts == {Locations[r][f].start : r \in Revisions, f \in Reported}
Prints == {Sources[r][f] : r \in Revisions, f \in Reported}
Bodies == {<<Sources[r][f], f.category, f.severity, f.prose>> : r \in Revisions, f \in Reported}
Threads == [rev : Revisions, loc : Places, start : Starts, fp : Prints, body : Bodies, about : Reported]

\* A request for comment number id: a new thread, or another one of its fingerprint.
Fits(r) == /\ r.comment \in Threads
           /\ r.id \in 0..Len(comments)
           /\ r.id # 0 => comments[r.id].fp = r.comment.fp

PublicationTypes ==
    /\ head \in Revisions /\ snapshot \in Revisions
    /\ comments \in Seq(Threads)
    /\ \A r \in adrift : Fits(r)
    /\ selected \in Seq(Reported) /\ todo \in Seq(Reported)
    /\ at \in {"idle", "list", "assert", "publish", "summary"}

\* The findings that the loop has come past, by their number; the others are to be done.
Past == 1..(Len(selected) - Len(todo))
Suffix ==
    /\ Len(todo) <= Len(selected)
    /\ \A i \in 1..Len(todo) : todo[i] = selected[Len(selected) - Len(todo) + i]

InLoop == at \in {"assert", "publish", "summary"}
Stages ==
    /\ at \in {"list", "assert", "publish", "summary"} => Suffix
    /\ at = "list" => Len(todo) = Len(selected)
    /\ at = "publish" => Len(todo) > 0
    /\ at = "summary" => Len(todo) = 0
    /\ at # "idle" => outcome = "none"

\* Two findings that share their source are excused; the others have it for themselves.
SharedExcused ==
    InLoop => \A i, j \in 1..Len(selected) :
        (/\ i # j /\ Location(selected[i]) # Nowhere /\ Location(selected[j]) # Nowhere
         /\ Source(selected[i]) = Source(selected[j])) => Source(selected[i]) \in excused

Handle(fp) == \E i \in Past : Location(selected[i]) # Nowhere /\ Source(selected[i]) = fp

\* The index of the threads, built once, still tells where they are, and what is in them
\* unless this run has written there.
IndexTrue ==
    InLoop => \A fp \in DOMAIN existing :
        LET c == comments[existing[fp].id]
        IN  /\ existing[fp].id \in 1..Len(comments)
            /\ c.fp = fp
            /\ c.rev = existing[fp].comment.rev /\ c.loc = existing[fp].comment.loc
            /\ c.body = existing[fp].comment.body \/ fp \in excused \/ Handle(fp)

\* A thread was there when they were listed, or this run made it, or it landed late.
ThreadsKnown ==
    InLoop => \A i \in 1..Len(comments) :
        \/ comments[i].fp \in DOMAIN existing
        \/ comments[i].fp \in excused
        \/ Handle(comments[i].fp)

\* The finding can be read inline.
Inline(f) ==
    \E i \in 1..Len(comments) :
        /\ comments[i].rev = snapshot /\ comments[i].loc = Comment(f).loc
        /\ comments[i].body = Body(f) /\ comments[i].fp = Source(f)
ToldOrCarried(f) == \/ Location(f) = Nowhere \/ f \in fallback \/ Source(f) \in excused \/ Inline(f)
PastTold == InLoop => \A i \in Past : ToldOrCarried(selected[i])

\* The summary's limit has cut the finding off, with all that the summary shows before it.
CutOff(i) == selected[i] \in summary.cut /\ summary.shows \subseteq {selected[j] : j \in 1..(i - 1)}
Told(f) == f \in summary.shows \/ (Location(f) # Nowhere /\ (Source(f) \in excused \/ Inline(f)))
AllTold == outcome = "published" => \A i \in 1..Len(selected) : Told(selected[i]) \/ CutOff(i)

PublicationInv ==
    /\ PublicationTypes /\ Stages /\ SharedExcused /\ IndexTrue /\ ThreadsKnown
    /\ PastTold /\ AllTold /\ OneThread

-----------------------------------------------------------------------------
(* The index *)

\* A set of natural numbers has a least element.
LEMMA LeastNatural ==
    ASSUME NEW I \in SUBSET Nat, I # {}
    PROVE  \E x \in I : \A y \in I : x <= y
<1> DEFINE R == OpToRel(<, Nat)
<1>1. IsWellFoundedOn(R, Nat)
  BY NatLessThanWellFounded
<1>2. R = {ss \in Nat \X Nat : ss[1] < ss[2]}
  BY DEF OpToRel
<1> HIDE DEF R
<1>3. PICK x \in I : \A y \in I : ~(<<y, x>> \in R)
  BY <1>1, WFMin
<1>4. \A k, l \in Nat : l < k => <<l, k>> \in R
  BY <1>2
<1>5. \A y \in I : x \in Nat /\ y \in Nat /\ ~(y < x)
  BY <1>3, <1>4
<1>6. \A y \in I : x <= y
  BY <1>5
<1> QED BY <1>6

\* A set of the indices of a sequence has its maximum in it.
LEMMA GreatestIndex ==
    ASSUME NEW n \in Nat, NEW I \in SUBSET (1..n), I # {}
    PROVE  Max(I) \in I /\ \A y \in I : y <= Max(I)
<1> DEFINE M == {n - x : x \in I}
<1>1. M \in SUBSET Nat
  OBVIOUS
<1>2. M # {}
  OBVIOUS
<1>3. PICK m \in M : \A y \in M : m <= y
  BY <1>1, <1>2, LeastNatural
<1>4. PICK x \in I : m = n - x
  OBVIOUS
<1>5. \A y \in I : y \in 1..n /\ n - y \in M
  OBVIOUS
<1> HIDE DEF M
<1>6. \A y \in I : x >= y
  BY <1>3, <1>4, <1>5
<1>7. Max(I) \in I /\ \A y \in I : Max(I) >= y
  BY <1>6 DEF Max
<1> QED BY <1>7

\* indexTrackingComments finds a thread for each fingerprint that one has.
LEMMA IndexFinds ==
    ASSUME comments \in Seq(Threads)
    PROVE  /\ \A i \in 1..Len(comments) : comments[i].fp \in DOMAIN Indexed
           /\ \A fp \in DOMAIN Indexed :
                 /\ Indexed[fp].id \in 1..Len(comments)
                 /\ Indexed[fp].comment = comments[Indexed[fp].id]
                 /\ comments[Indexed[fp].id].fp = fp
<1> DEFINE Printed == {c.fp : c \in ToSet(comments)}
           At(fp) == SelectLastInSeq(comments, LAMBDA c : c.fp = fp)
           I(fp) == {i \in 1..Len(comments) : comments[i].fp = fp}
<1>1. ToSet(comments) = {comments[i] : i \in 1..Len(comments)}
  BY DEF ToSet
<1>2. Printed = {comments[i].fp : i \in 1..Len(comments)}
  BY <1>1
<1>3. Indexed = [fp \in Printed |-> [id |-> At(fp), comment |-> comments[At(fp)]]]
  BY DEF Indexed
<1>4. \A fp \in Printed : At(fp) \in 1..Len(comments) /\ comments[At(fp)].fp = fp
  <2> SUFFICES ASSUME NEW fp \in Printed PROVE At(fp) \in I(fp)
    OBVIOUS
  <2>1. At(fp) = IF I(fp) # {} THEN Max(I(fp)) ELSE 0
    BY DEF SelectLastInSeq
  <2>2. I(fp) # {}
    BY <1>2
  <2>3. I(fp) \in SUBSET (1..Len(comments)) /\ Len(comments) \in Nat
    OBVIOUS
  <2> HIDE DEF I, At
  <2> QED BY <2>1, <2>2, <2>3, GreatestIndex
<1> HIDE DEF Printed, At
<1> QED BY <1>2, <1>3, <1>4

-----------------------------------------------------------------------------
(* Requests *)

\* What a finding would be posted as.
LEMMA Drafted ==
    ASSUME snapshot \in Revisions, NEW f \in Reported
    PROVE  /\ Comment(f) \in Threads
           /\ Comment(f).fp = Source(f) /\ Comment(f).body = Body(f) /\ Comment(f).rev = snapshot
<1>1. Location(f) = Locations[snapshot][f] /\ Source(f) = Sources[snapshot][f]
  BY DEF Location, Source
<1>2. /\ Comment(f).loc \in Places /\ Comment(f).start \in Starts /\ Comment(f).fp \in Prints
      /\ Comment(f).body \in Bodies
  BY <1>1 DEF Comment, Body, Places, Starts, Prints, Bodies
<1> QED BY <1>2 DEF Comment, Threads

\* A served request adds a thread, or rewords one with its fingerprint; no thread moves.
LEMMA ServedEffect ==
    ASSUME comments \in Seq(Threads), NEW r, Fits(r), Served(r)
    PROVE  /\ comments' \in Seq(Threads)
           /\ Len(comments') = IF r.id = 0 THEN Len(comments) + 1 ELSE Len(comments)
           /\ \A i \in 1..Len(comments) :
                 /\ comments'[i].rev = comments[i].rev /\ comments'[i].loc = comments[i].loc
                 /\ comments'[i].fp = comments[i].fp
                 /\ comments'[i].body = comments[i].body \/ comments[i].fp = r.comment.fp
           /\ r.id = 0 => comments'[Len(comments) + 1] = r.comment
           /\ r.id # 0 => /\ r.id \in 1..Len(comments)
                          /\ comments'[r.id].body = r.comment.body
<1>1. Len(comments) \in Nat /\ r.comment \in Threads /\ r.id \in 0..Len(comments)
  BY DEF Fits
<1>2. CASE r.id = 0
  <2>1. comments' = Append(comments, r.comment)
    BY <1>2 DEF Served
  <2> QED BY <1>1, <1>2, <2>1
<1>3. CASE r.id # 0
  <2> DEFINE new == WithProse(comments[r.id], r.comment)
  <2>1. comments' = [comments EXCEPT ![r.id] = new] /\ r.id \in 1..Len(comments)
    BY <1>1, <1>3 DEF Served
  <2>2. comments[r.id] \in Threads
    BY <2>1
  <2>3. new \in Threads
    BY <1>1, <2>2 DEF WithProse, Threads
  <2>4. /\ new.rev = comments[r.id].rev /\ new.loc = comments[r.id].loc
        /\ new.fp = comments[r.id].fp /\ new.body = r.comment.body
    BY DEF WithProse
  <2>5. comments[r.id].fp = r.comment.fp
    BY <1>3 DEF Fits
  <2> HIDE DEF new
  <2> QED BY <1>1, <1>3, <2>1, <2>3, <2>4, <2>5
<1> QED BY <1>2, <1>3

\* Requests that wait keep to their thread.
LEMMA StillFits ==
    ASSUME comments \in Seq(Threads), NEW r, Fits(r), Served(r) \/ UNCHANGED comments,
           NEW q, Fits(q)
    PROVE  Fits(q)'
<1>1. CASE UNCHANGED comments
  BY <1>1 DEF Fits
<1>2. CASE Served(r)
  <2>1. /\ Len(comments) \in Nat /\ Len(comments') >= Len(comments) /\ Len(comments') \in Nat
        /\ \A i \in 1..Len(comments) : comments'[i].fp = comments[i].fp
    BY <1>2, ServedEffect
  <2>2. q.id \in 0..Len(comments) /\ (q.id # 0 => q.id \in 1..Len(comments))
    BY <2>1 DEF Fits
  <2> QED BY <2>1, <2>2 DEF Fits
<1> QED BY <1>1, <1>2

-----------------------------------------------------------------------------
(* The invariant is inductive *)

LEMMA InitPublication == Init => PublicationInv
<1> SUFFICES ASSUME Init PROVE PublicationInv
  OBVIOUS
<1>1. 1 \in Revisions
  BY BoundsAssumption DEF Revisions
<1>2. PublicationTypes
  BY <1>1 DEF Init, PublicationTypes
<1>3. Stages /\ SharedExcused /\ IndexTrue /\ ThreadsKnown /\ PastTold /\ AllTold
  BY DEF Init, Stages, SharedExcused, IndexTrue, ThreadsKnown, PastTold, AllTold, InLoop
<1>4. OneThread
  BY DEF Init, OneThread
<1> QED BY <1>2, <1>3, <1>4 DEF PublicationInv

LEMMA BeginPublication == PublicationInv /\ Begin => PublicationInv'
<1> SUFFICES ASSUME PublicationInv, Begin PROVE PublicationInv'
  OBVIOUS
<1> USE DEF Begin, remoteVars
<1>1. PublicationTypes'
  <2>1. selected' \in Seq(Reported) /\ todo' \in Seq(Reported)
    BY SelectionsAssumption DEF Reported
  <2>2. \A r \in adrift : Fits(r)'
    BY DEF Fits, PublicationInv, PublicationTypes
  <2> QED BY <2>1, <2>2 DEF PublicationInv, PublicationTypes
<1>2. Stages'
  <2>1. Len(selected') \in Nat
    BY <1>1 DEF PublicationTypes
  <2> QED BY <2>1 DEF Stages, Suffix
<1>3. ~InLoop' /\ outcome' # "published"
  BY DEF InLoop
<1>4. OneThread'
  BY DEF PublicationInv, OneThread
<1> QED BY <1>1, <1>2, <1>3, <1>4
       DEF PublicationInv, SharedExcused, IndexTrue, ThreadsKnown, PastTold, AllTold

\* What is told, and what is known of a thread, stays while the threads and the run do.
LEMMA SameReading ==
    ASSUME UNCHANGED <<snapshot, selected>>
    PROVE  /\ \A f : Location(f)' = Location(f) /\ Source(f)' = Source(f) /\ Body(f)' = Body(f)
                        /\ Comment(f)' = Comment(f)
           /\ UNCHANGED comments => \A f : Inline(f)' = Inline(f)
           /\ UNCHANGED todo => Past' = Past /\ \A fp : Handle(fp)' = Handle(fp)
<1>1. \A f : Location(f)' = Location(f) /\ Source(f)' = Source(f)
  BY DEF Location, Source
<1>2. \A f : Body(f)' = Body(f) /\ Comment(f)' = Comment(f)
  BY <1>1 DEF Body, Comment, Location, Source
<1>3. UNCHANGED comments => \A f : Inline(f)' = Inline(f)
  BY <1>1, <1>2 DEF Inline
<1>4. UNCHANGED todo => Past' = Past
  BY DEF Past
<1>5. UNCHANGED todo => \A fp : Handle(fp)' = Handle(fp)
  BY <1>1, <1>4 DEF Handle
<1> QED BY <1>1, <1>2, <1>3, <1>4, <1>5

\* The threads are listed, and the findings that share their source are excused.
LEMMA ListPublication == PublicationInv /\ ListThreads => PublicationInv'
<1> SUFFICES ASSUME PublicationInv, ListThreads PROVE PublicationInv'
  OBVIOUS
<1> USE DEF ListThreads, remoteVars, runVars
<1>1. UNCHANGED <<snapshot, selected, todo, comments>>
  OBVIOUS
<1>2. PublicationTypes'
  BY DEF PublicationInv, PublicationTypes, Fits
<1>3. Stages'
  BY DEF PublicationInv, Stages, Suffix
<1>4. Len(selected) \in Nat /\ Past' = {}
  BY DEF PublicationInv, PublicationTypes, Stages, Past
<1>5. SharedExcused'
  <2> SUFFICES ASSUME NEW i \in 1..Len(selected), NEW j \in 1..Len(selected), i # j,
                      Location(selected[i]) # Nowhere, Location(selected[j]) # Nowhere,
                      Source(selected[i]) = Source(selected[j])
               PROVE  Source(selected[i]) \in excused'
    BY <1>1, SameReading DEF SharedExcused
  <2>1. DOMAIN selected = 1..Len(selected)
    BY DEF PublicationInv, PublicationTypes
  <2>2. Source(selected[i]) \in Shared(selected)
    BY <2>1 DEF Shared
  <2> QED BY <2>2
<1>6. IndexTrue' /\ ThreadsKnown'
  <2>1. comments \in Seq(Threads)
    BY DEF PublicationInv, PublicationTypes
  <2> QED BY <2>1, IndexFinds DEF IndexTrue, ThreadsKnown
<1>7. PastTold' /\ AllTold'
  BY <1>4 DEF PublicationInv, Stages, PastTold, AllTold
<1>8. OneThread'
  BY DEF PublicationInv, OneThread
<1> QED BY <1>2, <1>3, <1>5, <1>6, <1>7, <1>8 DEF PublicationInv

LEMMA AssertPublication == PublicationInv /\ AssertSnapshot => PublicationInv'
<1> SUFFICES ASSUME PublicationInv, AssertSnapshot PROVE PublicationInv'
  OBVIOUS
<1> USE DEF AssertSnapshot, remoteVars, runVars
<1>1. UNCHANGED <<snapshot, selected, comments, excused, adrift, head>>
  BY DEF Ends
<1>2. OneThread'
  BY <1>1 DEF PublicationInv, OneThread
<1>3. CASE head # snapshot
  <2> USE <1>3 DEF Ends
  <2>1. PublicationTypes'
    BY <1>1 DEF PublicationInv, PublicationTypes, Fits
  <2>2. Stages'
    BY DEF Stages
  <2> QED BY <1>2, <2>1, <2>2 DEF PublicationInv, InLoop, SharedExcused, IndexTrue, ThreadsKnown, PastTold, AllTold
<1>4. CASE head = snapshot
  <2> USE <1>4 DEF loopVars
  <2>1. UNCHANGED <<todo, existing, fallback, outcome>> /\ InLoop /\ InLoop' /\ outcome = "none"
    BY DEF InLoop, PublicationInv, Stages
  <2>2. PublicationTypes'
    BY <1>1 DEF PublicationInv, PublicationTypes, Fits
  <2>3. Stages'
    <3>1. (todo # <<>> => Len(todo) > 0) /\ (todo = <<>> => Len(todo) = 0)
      BY DEF PublicationInv, PublicationTypes
    <3>2. Suffix' = Suffix
      BY <1>1, <2>1 DEF Suffix
    <3> QED BY <2>1, <3>1, <3>2 DEF PublicationInv, Stages
  <2>4. SharedExcused' /\ IndexTrue' /\ ThreadsKnown'
    BY <1>1, <2>1, SameReading DEF PublicationInv, SharedExcused, IndexTrue, ThreadsKnown
  <2>5. PastTold' /\ AllTold'
    BY <1>1, <2>1, SameReading DEF PublicationInv, PastTold, AllTold, ToldOrCarried
  <2> QED BY <1>2, <2>2, <2>3, <2>4, <2>5 DEF PublicationInv
<1> QED BY <1>3, <1>4

-----------------------------------------------------------------------------
(* The finding at hand *)

\* It is the first that the loop has not come past.
LEMMA AtHand ==
    ASSUME PublicationInv, at = "publish"
    PROVE  /\ Len(selected) \in Nat /\ Len(todo) \in Nat /\ Len(todo) \in 1..Len(selected)
           /\ Len(selected) - Len(todo) + 1 \in 1..Len(selected)
           /\ Len(selected) - Len(todo) + 1 \notin Past
           /\ Past \subseteq 1..Len(selected)
           /\ Finding = selected[Len(selected) - Len(todo) + 1] /\ Finding \in Reported
           /\ InLoop /\ outcome = "none"
<1>1. /\ selected \in Seq(Reported) /\ todo \in Seq(Reported) /\ Suffix /\ Len(todo) > 0
      /\ outcome = "none"
  BY DEF PublicationInv, PublicationTypes, Stages
<1>2. /\ Len(selected) \in Nat /\ Len(todo) \in Nat /\ Len(todo) \in 1..Len(selected)
      /\ Len(selected) - Len(todo) + 1 \in 1..Len(selected)
  BY <1>1 DEF Suffix
<1>3. todo[1] = selected[Len(selected) - Len(todo) + 1]
  BY <1>1, <1>2 DEF Suffix
<1>4. Finding = todo[1] /\ Finding \in Reported
  BY <1>1, <1>2 DEF Finding
<1>5. Past \subseteq 1..Len(selected) /\ Len(selected) - Len(todo) + 1 \notin Past
  BY <1>2 DEF Past
<1> QED BY <1>1, <1>2, <1>3, <1>4, <1>5 DEF InLoop

\* And then it is one of those past.
LEMMA HandledPast ==
    ASSUME PublicationInv, at = "publish", NEW b \in BOOLEAN, Handled(b)
    PROVE  /\ todo' \in Seq(Reported) /\ Len(todo') = Len(todo) - 1 /\ Suffix'
           /\ Past' = Past \cup {Len(selected) - Len(todo) + 1}
           /\ Len(selected') = Len(selected)
<1>1. todo' = Tail(todo) /\ selected' = selected
  BY DEF Handled, runVars
<1>2. /\ selected \in Seq(Reported) /\ todo \in Seq(Reported) /\ Suffix
  BY DEF PublicationInv, PublicationTypes, Stages
<1>3. /\ Len(selected) \in Nat /\ Len(todo) \in Nat /\ Len(todo) \in 1..Len(selected)
  BY AtHand
<1>4. /\ todo' \in Seq(Reported) /\ Len(todo') = Len(todo) - 1
      /\ \A i \in 1..(Len(todo) - 1) : todo'[i] = todo[i + 1]
  BY <1>1, <1>2, <1>3
<1>5. Suffix'
  <2> SUFFICES ASSUME NEW i \in 1..Len(todo') PROVE todo'[i] = selected[Len(selected) - Len(todo') + i]
    BY <1>1, <1>3, <1>4 DEF Suffix
  <2>1. i + 1 \in 1..Len(todo) /\ todo'[i] = todo[i + 1]
    BY <1>3, <1>4
  <2>2. todo[i + 1] = selected[Len(selected) - Len(todo) + (i + 1)]
    BY <1>2, <2>1 DEF Suffix
  <2>3. Len(selected) - Len(todo) + (i + 1) = Len(selected) - Len(todo') + i
    BY <1>3, <1>4
  <2> QED BY <2>1, <2>2, <2>3
<1>6. Past' = Past \cup {Len(selected) - Len(todo) + 1}
  BY <1>1, <1>3, <1>4 DEF Past
<1> QED BY <1>1, <1>4, <1>5, <1>6

\* Its request is for a new thread, or for the one that the index has.
LEMMA RequestFits ==
    ASSUME PublicationInv, NeedsRequest
    PROVE  /\ Fits(Request)
           /\ Request.comment = Comment(Finding) /\ Request.comment.fp = Source(Finding)
           /\ Request.id = 0 <=> Source(Finding) \notin DOMAIN existing
           /\ Request.id # 0 => /\ comments[Request.id].rev = snapshot
                                /\ comments[Request.id].loc = Comment(Finding).loc
                                /\ comments[Request.id].fp = Source(Finding)
<1>1. /\ snapshot \in Revisions /\ Finding \in Reported /\ InLoop /\ Location(Finding) # Nowhere
      /\ comments \in Seq(Threads)
  BY AtHand DEF PublicationInv, PublicationTypes, NeedsRequest
<1>2. Comment(Finding) \in Threads /\ Comment(Finding).fp = Source(Finding)
  BY <1>1, Drafted
<1>3. Request.id = (IF HasPrior THEN Prior.id ELSE 0) /\ Request.comment = Comment(Finding)
  BY DEF Request
<1>4. HasPrior <=> Source(Finding) \in DOMAIN existing
  BY <1>1 DEF HasPrior
<1>5. ASSUME HasPrior
      PROVE  /\ Prior.id \in 1..Len(comments) /\ comments[Prior.id].fp = Source(Finding)
             /\ comments[Prior.id].rev = snapshot /\ comments[Prior.id].loc = Comment(Finding).loc
  <2>1. Prior = existing[Source(Finding)] /\ Source(Finding) \in DOMAIN existing
    BY <1>4, <1>5 DEF Prior
  <2>2. Prior.comment.rev = snapshot /\ Prior.comment.loc = Comment(Finding).loc
    BY <1>5 DEF NeedsRequest, PriorMatches
  <2> QED BY <1>1, <2>1, <2>2 DEF PublicationInv, IndexTrue
<1>6. Len(comments) \in Nat
  BY <1>1
<1> QED BY <1>2, <1>3, <1>4, <1>5, <1>6 DEF Fits

\* A finding past with the source of the one at hand: both are excused.
LEMMA SharedWithPast ==
    ASSUME PublicationInv, at = "publish", Location(Finding) # Nowhere,
           NEW i \in Past, Location(selected[i]) # Nowhere, Source(selected[i]) = Source(Finding)
    PROVE  Source(Finding) \in excused
BY AtHand DEF PublicationInv, SharedExcused

\* A finding is dealt with, by a request or without.
LEMMA HandlePublication ==
    ASSUME PublicationInv, at = "publish", NEW f, f = Finding, NEW b \in BOOLEAN, Handled(b),
           UNCHANGED <<head, summary>>,
           (NeedsRequest /\ Served(Request)) \/ UNCHANGED comments,
           UNCHANGED adrift \/ (NeedsRequest /\ adrift' = adrift \cup {Request}),
           ToldOrCarried(f)'
    PROVE  PublicationInv'
<1> DEFINE n == Len(selected) - Len(todo) + 1
<1>1. UNCHANGED <<snapshot, selected, existing, excused, outcome>> /\ at' = "assert" /\ InLoop'
  BY DEF Handled, runVars, InLoop
<1>2. /\ f = selected[n] /\ n \in 1..Len(selected) /\ n \notin Past /\ Past' = Past \cup {n}
      /\ Past \subseteq 1..Len(selected) /\ InLoop /\ outcome = "none"
  BY AtHand, HandledPast
<1>3. /\ \A g : Location(g)' = Location(g) /\ Source(g)' = Source(g) /\ Body(g)' = Body(g)
                  /\ Comment(g)' = Comment(g)
  BY <1>1, SameReading
<1>4. comments \in Seq(Threads) /\ Len(comments) \in Nat
  BY DEF PublicationInv, PublicationTypes
<1>5. \A i \in Past : selected'[i] = selected[i]
  BY <1>1
<1>6. \A fp : Handle(fp) => Handle(fp)'
  BY <1>1, <1>2, <1>3 DEF Handle
<1>7. Location(f) # Nowhere => \A fp : fp = Source(f) => Handle(fp)'
  BY <1>1, <1>2, <1>3 DEF Handle
<1>8. /\ comments' \in Seq(Threads) /\ Len(comments') \in Nat /\ Len(comments) <= Len(comments')
      /\ \A i \in 1..Len(comments) :
            /\ comments'[i].rev = comments[i].rev /\ comments'[i].loc = comments[i].loc
            /\ comments'[i].fp = comments[i].fp
            /\ comments'[i].body = comments[i].body
                 \/ (Location(f) # Nowhere /\ comments[i].fp = Source(f))
      /\ \A i \in (Len(comments) + 1)..Len(comments') :
            /\ i = Len(comments) + 1 /\ comments'[i].fp = Source(f)
            /\ Location(f) # Nowhere /\ Source(f) \notin DOMAIN existing
  <2>1. CASE UNCHANGED comments
    BY <1>4, <2>1
  <2>2. CASE NeedsRequest /\ Served(Request)
    <3>1. /\ Fits(Request) /\ Request.comment.fp = Source(f)
          /\ Request.id = 0 <=> Source(f) \notin DOMAIN existing
          /\ Location(f) # Nowhere
      BY <2>2, RequestFits DEF NeedsRequest
    <3> QED BY <1>4, <2>2, <3>1, ServedEffect
  <2> QED BY <2>1, <2>2
<1>9. PublicationTypes'
  <2>1. \A r \in adrift' : Fits(r)
    BY RequestFits DEF PublicationInv, PublicationTypes
  <2>2. \A r \in adrift' : Fits(r)'
    BY <1>4, <2>1, RequestFits, StillFits
  <2> QED BY <1>1, <1>8, <2>2, HandledPast DEF PublicationInv, PublicationTypes
<1>10. Stages'
  BY <1>1, <1>2, HandledPast DEF Stages
<1>11. SharedExcused'
  BY <1>1, <1>2, <1>3 DEF PublicationInv, SharedExcused
<1>12. IndexTrue'
  <2> SUFFICES ASSUME NEW fp \in DOMAIN existing, NEW k, k = existing[fp].id
               PROVE  /\ k \in 1..Len(comments') /\ comments'[k].fp = fp
                      /\ comments'[k].rev = existing[fp].comment.rev
                      /\ comments'[k].loc = existing[fp].comment.loc
                      /\ comments'[k].body = existing[fp].comment.body \/ fp \in excused \/ Handle(fp)'
    BY <1>1 DEF IndexTrue
  <2>1. /\ k \in 1..Len(comments) /\ comments[k].fp = fp
        /\ comments[k].rev = existing[fp].comment.rev /\ comments[k].loc = existing[fp].comment.loc
        /\ comments[k].body = existing[fp].comment.body \/ fp \in excused \/ Handle(fp)
    BY <1>2 DEF PublicationInv, IndexTrue
  <2> QED BY <1>4, <1>6, <1>7, <1>8, <2>1
<1>13. ThreadsKnown'
  <2> SUFFICES ASSUME NEW i \in 1..Len(comments'), NEW fp, fp = comments'[i].fp
               PROVE  fp \in DOMAIN existing \/ fp \in excused \/ Handle(fp)'
    BY <1>1 DEF ThreadsKnown
  <2>1. CASE i \in 1..Len(comments)
    BY <1>2, <1>6, <1>8, <2>1 DEF PublicationInv, ThreadsKnown
  <2>2. CASE i \in (Len(comments) + 1)..Len(comments')
    BY <1>7, <1>8, <2>2
  <2> QED BY <1>4, <1>8, <2>1, <2>2
<1>14. PastTold'
  <2> SUFFICES ASSUME NEW i \in Past, NEW g, g = selected[i] PROVE ToldOrCarried(g)'
    BY <1>1, <1>2 DEF PastTold
  <2>1. ToldOrCarried(g)
    BY <1>2 DEF PublicationInv, PastTold
  <2>2. CASE Location(g) = Nowhere \/ g \in fallback \/ Source(g) \in excused
    <3>1. fallback \subseteq fallback'
      BY DEF Handled
    <3> QED BY <1>1, <1>3, <2>2, <3>1 DEF ToldOrCarried
  <2>3. CASE Location(g) # Nowhere /\ Inline(g)
    <3>1. PICK k \in 1..Len(comments) :
             /\ comments[k].rev = snapshot /\ comments[k].loc = Comment(g).loc
             /\ comments[k].body = Body(g) /\ comments[k].fp = Source(g)
      BY <2>3 DEF Inline
    <3>2. CASE comments'[k].body = comments[k].body
      <4>1. k \in 1..Len(comments')
        BY <1>4, <1>8
      <4>2. Inline(g)'
        BY <1>1, <1>3, <1>8, <3>1, <3>2, <4>1 DEF Inline
      <4> QED BY <1>1, <4>2 DEF ToldOrCarried
    <3>3. CASE Location(f) # Nowhere /\ comments[k].fp = Source(f)
      <4>1. Source(g) \in excused
        BY <2>3, <3>1, <3>3, SharedWithPast
      <4> QED BY <1>1, <1>3, <4>1 DEF ToldOrCarried
    <3> QED BY <1>8, <3>2, <3>3
  <2> QED BY <2>1, <2>2, <2>3 DEF ToldOrCarried
<1>15. AllTold'
  BY <1>1, <1>2 DEF AllTold
<1>16. OneThread'
  <2>1. ASSUME NEW i \in 1..Len(comments), Location(f) # Nowhere,
               comments[i].fp = Source(f), Source(f) \notin DOMAIN existing
        PROVE  Source(f) \in excused
    <3>1. comments[i].fp \in excused \/ Handle(comments[i].fp)
      BY <1>2, <2>1 DEF PublicationInv, ThreadsKnown
    <3> QED BY <2>1, <3>1, SharedWithPast DEF Handle
  <2> SUFFICES ASSUME NEW i \in 1..Len(comments'), NEW j \in 1..Len(comments'),
                      i # j, comments'[i].fp = comments'[j].fp
               PROVE  comments'[i].fp \in excused
    BY <1>1 DEF OneThread
  <2>2. CASE i \in 1..Len(comments) /\ j \in 1..Len(comments)
    BY <1>8, <2>2 DEF PublicationInv, OneThread
  <2>3. CASE i \in 1..Len(comments) /\ j \notin 1..Len(comments)
    BY <1>4, <1>8, <2>1, <2>3
  <2>4. CASE i \notin 1..Len(comments) /\ j \in 1..Len(comments)
    BY <1>4, <1>8, <2>1, <2>4
  <2>5. CASE i \notin 1..Len(comments) /\ j \notin 1..Len(comments)
    BY <1>4, <1>8, <2>5
  <2> QED BY <2>2, <2>3, <2>4, <2>5
<1> QED BY <1>9, <1>10, <1>11, <1>12, <1>13, <1>14, <1>15, <1>16 DEF PublicationInv

\* With no place in the diff, or none that its thread could be moved to, it is for the summary.
LEMMA SummaryOnlyPublication == PublicationInv /\ SummaryOnly => PublicationInv'
<1> SUFFICES ASSUME PublicationInv, SummaryOnly, NEW f, f = Finding PROVE PublicationInv'
  OBVIOUS
<1> DEFINE b == Location(Finding) # Nowhere
<1>1. at = "publish" /\ Handled(b) /\ UNCHANGED <<head, summary, comments, adrift>>
  BY DEF SummaryOnly, remoteVars
<1>2. ToldOrCarried(f)'
  <2>1. Location(f)' = Location(f)
    BY <1>1, SameReading DEF Handled, runVars
  <2>2. Location(f) # Nowhere => f \in fallback'
    BY <1>1 DEF Handled
  <2> QED BY <2>1, <2>2 DEF ToldOrCarried
<1>3. b \in BOOLEAN
  OBVIOUS
<1> HIDE DEF b
<1> QED BY <1>1, <1>2, <1>3, HandlePublication

\* The thread that the index has says just this, or said it until it was touched by a finding
\* that shares its source.
LEMMA SkipPublication == PublicationInv /\ SkipDuplicate => PublicationInv'
<1> SUFFICES ASSUME PublicationInv, SkipDuplicate, NEW f, f = Finding PROVE PublicationInv'
  OBVIOUS
<1>1. at = "publish" /\ Handled(FALSE) /\ UNCHANGED <<head, summary, comments, adrift>>
  BY DEF SkipDuplicate, remoteVars
<1>2. UNCHANGED <<snapshot, selected, excused>>
  BY <1>1 DEF Handled, runVars
<1>3. ToldOrCarried(f)'
  <2>1. /\ Location(f) # Nowhere /\ Source(f) \in DOMAIN existing
        /\ existing[Source(f)].comment.rev = snapshot
        /\ existing[Source(f)].comment.loc = Comment(f).loc
        /\ existing[Source(f)].comment.body = Body(f)
    BY DEF SkipDuplicate, HasPrior, PriorMatches, Prior
  <2> DEFINE k == existing[Source(f)].id
  <2>2. /\ k \in 1..Len(comments) /\ comments[k].fp = Source(f)
        /\ comments[k].rev = existing[Source(f)].comment.rev
        /\ comments[k].loc = existing[Source(f)].comment.loc
        /\ comments[k].body = existing[Source(f)].comment.body \/ Source(f) \in excused \/ Handle(Source(f))
    BY <1>1, <2>1, AtHand DEF PublicationInv, IndexTrue
  <2> HIDE DEF k
  <2>3. Handle(Source(f)) => Source(f) \in excused
    BY <1>1, <2>1, SharedWithPast DEF Handle
  <2>4. Inline(f) \/ Source(f) \in excused
    BY <2>1, <2>2, <2>3 DEF Inline
  <2> QED BY <1>1, <1>2, <2>4, SameReading DEF ToldOrCarried
<1> QED BY <1>1, <1>3, HandlePublication

LEMMA PublishPublication == PublicationInv /\ Publish => PublicationInv'
<1> SUFFICES ASSUME PublicationInv, Publish, NEW f, f = Finding PROVE PublicationInv'
  OBVIOUS
<1>1. /\ at = "publish" /\ Handled(FALSE) /\ NeedsRequest /\ Served(Request)
      /\ UNCHANGED <<head, summary, adrift>>
  BY DEF Publish, NeedsRequest
<1>2. UNCHANGED <<snapshot, selected>>
  BY <1>1 DEF Handled, runVars
<1>3. Inline(f)'
  <2>1. comments \in Seq(Threads) /\ Len(comments) \in Nat /\ snapshot \in Revisions /\ f \in Reported
    BY <1>1, AtHand DEF PublicationInv, PublicationTypes
  <2>2. /\ Fits(Request) /\ Request.comment = Comment(f) /\ Comment(f).fp = Source(f)
        /\ Comment(f).body = Body(f) /\ Comment(f).rev = snapshot
    BY <1>1, <2>1, RequestFits, Drafted
  <2>3. CASE Request.id = 0
    <3>1. comments'[Len(comments) + 1] = Comment(f) /\ Len(comments) + 1 \in 1..Len(comments')
      BY <1>1, <2>1, <2>2, <2>3, ServedEffect
    <3> QED BY <1>2, <2>2, <3>1, SameReading DEF Inline
  <2>4. CASE Request.id # 0
    <3>1. /\ comments[Request.id].rev = snapshot /\ comments[Request.id].loc = Comment(f).loc
          /\ comments[Request.id].fp = Source(f)
      BY <1>1, <2>4, RequestFits
    <3>2. PICK k \in 1..Len(comments) : k = Request.id
      BY <2>2, <2>4 DEF Fits
    <3>3. /\ comments'[k].rev = snapshot /\ comments'[k].loc = Comment(f).loc
          /\ comments'[k].fp = Source(f) /\ comments'[k].body = Body(f) /\ k \in 1..Len(comments')
      BY <1>1, <2>1, <2>2, <2>4, <3>1, <3>2, ServedEffect
    <3> QED BY <1>2, <3>3, SameReading DEF Inline
  <2> QED BY <2>3, <2>4
<1> QED BY <1>1, <1>3, HandlePublication DEF ToldOrCarried

\* Whether the request was served or not, the summary carries the finding.
LEMMA FailPublication == PublicationInv /\ PublishFails => PublicationInv'
<1> SUFFICES ASSUME PublicationInv, PublishFails, NEW f, f = Finding PROVE PublicationInv'
  OBVIOUS
<1>1. /\ at = "publish" /\ Handled(TRUE) /\ NeedsRequest /\ UNCHANGED <<head, summary>>
      /\ Served(Request) \/ UNCHANGED comments
      /\ UNCHANGED adrift \/ adrift' = adrift \cup {Request}
  BY DEF PublishFails, NeedsRequest
<1>2. ToldOrCarried(f)'
  BY <1>1 DEF Handled, ToldOrCarried
<1> QED BY <1>1, <1>2, HandlePublication

-----------------------------------------------------------------------------
(* The ends of a run, and what happens on GitHub *)

\* The summary carries whatever the loop did not leave inline, as far as its limit lets it.
LEMMA SummaryPublication == PublicationInv /\ PublishSummary => PublicationInv'
<1> SUFFICES ASSUME PublicationInv, PublishSummary PROVE PublicationInv'
  OBVIOUS
<1> USE DEF PublishSummary, Ends, runVars
<1>1. PublicationTypes' /\ Stages'
  BY DEF PublicationInv, PublicationTypes, Stages, Fits
<1>2. OneThread'
  BY DEF PublicationInv, OneThread
<1>3. AllTold'
  <2> SUFFICES ASSUME NEW i \in 1..Len(selected), NEW f, f = selected[i]
               PROVE  Told(f)' \/ CutOff(i)'
    BY DEF AllTold
  <2>1. Len(selected) \in Nat /\ Len(todo) = 0 /\ selected \in Seq(Reported)
    BY DEF PublicationInv, PublicationTypes, Stages
  <2>2. i \in Past
    BY <2>1 DEF Past
  <2>3. ToldOrCarried(f)
    BY <2>2 DEF PublicationInv, PastTold, InLoop
  <2>4. f \in ToSet(selected)
    BY <2>1 DEF ToSet
  <2>5. CASE f \in Carried
    <3>1. PICK n \in 0..Len(selected) :
             summary' = [shows |-> {g \in Carried : \E j \in 1..n : g = selected[j]},
                         cut |-> Carried \ {g \in Carried : \E j \in 1..n : g = selected[j]}]
      BY DEF Summaries
    <3>2. f \in summary'.shows \/ f \in summary'.cut
      BY <2>5, <3>1
    <3>3. ASSUME f \in summary'.cut PROVE CutOff(i)'
      <4>1. i \notin 1..n /\ n \in Nat /\ i \in Nat
        BY <2>1, <3>1, <3>3
      <4>2. 1..n \subseteq 1..(i - 1)
        BY <4>1
      <4>3. summary'.shows \subseteq {selected[j] : j \in 1..(i - 1)}
        BY <3>1, <4>2
      <4> QED BY <3>3, <4>3 DEF CutOff
    <3> QED BY <3>2, <3>3 DEF Told
  <2>6. CASE f \notin Carried
    <3>1. Location(f) # Nowhere /\ f \notin fallback
      BY <2>4, <2>6 DEF Carried
    <3> QED BY <2>3, <3>1, SameReading DEF ToldOrCarried, Told
  <2> QED BY <2>5, <2>6
<1> QED BY <1>1, <1>2, <1>3
       DEF PublicationInv, InLoop, SharedExcused, IndexTrue, ThreadsKnown, PastTold

LEMMA RunFailsPublication == PublicationInv /\ RunFails => PublicationInv'
<1> SUFFICES ASSUME PublicationInv, RunFails PROVE PublicationInv'
  OBVIOUS
<1> USE DEF RunFails, Ends, runVars
<1>1. PublicationTypes' /\ Stages'
  BY DEF PublicationInv, PublicationTypes, Stages, Fits
<1>2. OneThread'
  BY DEF PublicationInv, OneThread
<1> QED BY <1>1, <1>2
       DEF PublicationInv, InLoop, SharedExcused, IndexTrue, ThreadsKnown, PastTold, AllTold

\* The run and its threads stay as they are when the head moves, or nothing happens.
LEMMA StillPublication ==
    ASSUME PublicationInv, head' \in Revisions,
           UNCHANGED <<comments, summary, adrift, at, runVars, loopVars, outcome, excused>>
    PROVE  PublicationInv'
<1> USE DEF runVars, loopVars
<1>1. PublicationTypes'
  BY DEF PublicationInv, PublicationTypes, Fits
<1>2. Stages' /\ OneThread'
  BY DEF PublicationInv, Stages, Suffix, OneThread
<1>3. SharedExcused' /\ IndexTrue' /\ ThreadsKnown'
  BY SameReading DEF PublicationInv, SharedExcused, IndexTrue, ThreadsKnown, InLoop
<1>4. PastTold' /\ AllTold'
  BY SameReading DEF PublicationInv, PastTold, AllTold, ToldOrCarried, Told, CutOff, InLoop
<1> QED BY <1>1, <1>2, <1>3, <1>4 DEF PublicationInv

LEMMA HeadMovesPublication == PublicationInv /\ HeadMoves => PublicationInv'
<1> SUFFICES ASSUME PublicationInv, HeadMoves PROVE PublicationInv'
  OBVIOUS
<1>1. head' \in Revisions
  BY BoundsAssumption DEF HeadMoves, PublicationInv, PublicationTypes, Revisions
<1> QED BY <1>1, StillPublication DEF HeadMoves, pastVars

\* A late landing excuses its fingerprint, and touches no thread of another one.
LEMMA LandsPublication == PublicationInv /\ Lands => PublicationInv'
<1> SUFFICES ASSUME PublicationInv, Lands PROVE PublicationInv'
  OBVIOUS
<1> USE DEF runVars, loopVars
<1> PICK r \in adrift : /\ Served(r) /\ adrift' = adrift \ {r}
                        /\ excused' = excused \cup {r.comment.fp}
  BY DEF Lands
<1>1. UNCHANGED <<head, summary, at, snapshot, selected, todo, existing, fallback, failures, outcome>>
  BY DEF Lands
<1>2. comments \in Seq(Threads) /\ Len(comments) \in Nat /\ Fits(r)
  BY DEF PublicationInv, PublicationTypes
<1>3. /\ \A f : Location(f)' = Location(f) /\ Source(f)' = Source(f) /\ Body(f)' = Body(f)
                  /\ Comment(f)' = Comment(f)
      /\ Past' = Past /\ \A fp : Handle(fp)' = Handle(fp)
  BY <1>1, SameReading
<1>4. /\ comments' \in Seq(Threads) /\ Len(comments') \in Nat /\ Len(comments) <= Len(comments')
      /\ \A i \in 1..Len(comments) :
            /\ comments'[i].rev = comments[i].rev /\ comments'[i].loc = comments[i].loc
            /\ comments'[i].fp = comments[i].fp
            /\ comments'[i].body = comments[i].body \/ comments[i].fp \in excused'
      /\ \A i \in (Len(comments) + 1)..Len(comments') : comments'[i].fp \in excused'
  BY <1>2, ServedEffect
<1>5. excused \subseteq excused' /\ InLoop' = InLoop
  BY <1>1 DEF InLoop
<1>6. PublicationTypes'
  <2>1. \A q \in adrift' : Fits(q)'
    BY <1>2, StillFits DEF PublicationInv, PublicationTypes
  <2> QED BY <1>1, <1>4, <2>1 DEF PublicationInv, PublicationTypes
<1>7. Stages'
  BY <1>1 DEF PublicationInv, Stages, Suffix
<1>8. SharedExcused'
  BY <1>1, <1>3, <1>5 DEF PublicationInv, SharedExcused
<1>9. IndexTrue'
  <2> SUFFICES ASSUME InLoop, NEW fp \in DOMAIN existing, NEW k, k = existing[fp].id
               PROVE  /\ k \in 1..Len(comments') /\ comments'[k].fp = fp
                      /\ comments'[k].rev = existing[fp].comment.rev
                      /\ comments'[k].loc = existing[fp].comment.loc
                      /\ comments'[k].body = existing[fp].comment.body \/ fp \in excused' \/ Handle(fp)
    BY <1>1, <1>3, <1>5 DEF IndexTrue
  <2>1. /\ k \in 1..Len(comments) /\ comments[k].fp = fp
        /\ comments[k].rev = existing[fp].comment.rev /\ comments[k].loc = existing[fp].comment.loc
        /\ comments[k].body = existing[fp].comment.body \/ fp \in excused \/ Handle(fp)
    BY DEF PublicationInv, IndexTrue
  <2> QED BY <1>2, <1>4, <1>5, <2>1
<1>10. ThreadsKnown'
  <2> SUFFICES ASSUME InLoop, NEW i \in 1..Len(comments'), NEW fp, fp = comments'[i].fp
               PROVE  fp \in DOMAIN existing \/ fp \in excused' \/ Handle(fp)
    BY <1>1, <1>3, <1>5 DEF ThreadsKnown
  <2>1. CASE i \in 1..Len(comments)
    BY <1>4, <1>5, <2>1 DEF PublicationInv, ThreadsKnown
  <2>2. CASE i \in (Len(comments) + 1)..Len(comments')
    BY <1>4, <2>2
  <2> QED BY <1>2, <1>4, <2>1, <2>2
<1>11. \A f : Inline(f) => Inline(f)' \/ Source(f) \in excused'
  <2> SUFFICES ASSUME NEW f, Inline(f) PROVE Inline(f)' \/ Source(f) \in excused'
    OBVIOUS
  <2>1. PICK k \in 1..Len(comments) :
           /\ comments[k].rev = snapshot /\ comments[k].loc = Comment(f).loc
           /\ comments[k].body = Body(f) /\ comments[k].fp = Source(f)
    BY DEF Inline
  <2>2. k \in 1..Len(comments')
    BY <1>2, <1>4
  <2> QED BY <1>1, <1>3, <1>4, <2>1, <2>2 DEF Inline
<1>12. PastTold'
  <2> SUFFICES ASSUME InLoop, NEW i \in Past, NEW f, f = selected[i] PROVE ToldOrCarried(f)'
    BY <1>1, <1>3, <1>5 DEF PastTold
  <2>1. ToldOrCarried(f)
    BY DEF PublicationInv, PastTold
  <2> QED BY <1>1, <1>3, <1>5, <1>11, <2>1 DEF ToldOrCarried
<1>13. AllTold'
  <2> SUFFICES ASSUME outcome = "published", NEW i \in 1..Len(selected), NEW f, f = selected[i]
               PROVE  Told(f)' \/ CutOff(i)'
    BY <1>1 DEF AllTold
  <2>1. Told(f) \/ CutOff(i)
    BY DEF PublicationInv, AllTold
  <2>2. CutOff(i)' = CutOff(i)
    BY <1>1 DEF CutOff
  <2> QED BY <1>1, <1>3, <1>5, <1>11, <2>1, <2>2 DEF Told
<1>14. OneThread'
  <2> SUFFICES ASSUME NEW i \in 1..Len(comments'), NEW j \in 1..Len(comments'),
                      i # j, comments'[i].fp = comments'[j].fp
               PROVE  comments'[i].fp \in excused'
    BY DEF OneThread
  <2>1. CASE i \in 1..Len(comments) /\ j \in 1..Len(comments)
    BY <1>4, <1>5, <2>1 DEF PublicationInv, OneThread
  <2>2. CASE i \in (Len(comments) + 1)..Len(comments') \/ j \in (Len(comments) + 1)..Len(comments')
    BY <1>4, <2>2
  <2> QED BY <1>2, <1>4, <2>1, <2>2
<1> QED BY <1>6, <1>7, <1>8, <1>9, <1>10, <1>12, <1>13, <1>14 DEF PublicationInv

LEMMA StepPublication == PublicationInv /\ [Next]_vars => PublicationInv'
<1> SUFFICES ASSUME PublicationInv, [Next]_vars PROVE PublicationInv'
  OBVIOUS
<1>1. CASE Begin
  BY <1>1, BeginPublication
<1>2. CASE PublicationStep
  BY <1>2, ListPublication, AssertPublication, SummaryOnlyPublication, SkipPublication,
     PublishPublication, FailPublication, SummaryPublication, RunFailsPublication
     DEF PublicationStep
<1>3. CASE HeadMoves \/ Lands
  BY <1>3, HeadMovesPublication, LandsPublication
<1>4. CASE UNCHANGED vars
  <2>1. head' \in Revisions
    BY <1>4 DEF vars, remoteVars, PublicationInv, PublicationTypes
  <2> QED BY <1>4, <2>1, StillPublication DEF vars, remoteVars, pastVars
<1> QED BY <1>1, <1>2, <1>3, <1>4 DEF Next

-----------------------------------------------------------------------------
(* The theorems *)

\* What holds of a publication at any moment of any run: the index built once still tells where
\* the threads are, every finding past is inline, carried or excused, and no place has two
\* threads, whatever fails, lands late or is pushed meanwhile.
THEOREM PublicationInvariance == Spec => []PublicationInv
BY InitPublication, StepPublication, PTL DEF Spec

\* What a published review found can be read on its line of this head or in the summary, after
\* moved heads, earlier threads and failed requests alike (publishPullRequestReview), or it was
\* carried and lies behind the summary's limit, and whatever the summary shows comes before it.
THEOREM FindingsAreTold == Spec => []EveryFindingTold
<1>1. PublicationInv => EveryFindingTold
  <2> SUFFICES ASSUME PublicationInv, outcome = "published", NEW i \in 1..Len(selected),
                      NEW f, f = selected[i]
               PROVE  \/ f \in summary.shows
                      \/ f \in summary.cut /\ summary.shows \subseteq {selected[j] : j \in 1..(i - 1)}
                      \/ Location(f) # Nowhere /\ Source(f) \in excused
                      \/ \E c \in ToSet(comments) :
                            c.rev = snapshot /\ c.loc = Comment(f).loc /\ c.body = Body(f)
    BY DEF EveryFindingTold
  <2>1. selected \in Seq(Reported) /\ comments \in Seq(Threads)
    BY DEF PublicationInv, PublicationTypes
  <2>2. Told(f) \/ CutOff(i)
    BY DEF PublicationInv, AllTold
  <2>3. \A k \in 1..Len(comments) : comments[k] \in ToSet(comments)
    BY <2>1 DEF ToSet
  <2> QED BY <2>2, <2>3 DEF Told, CutOff, Inline
<1> QED BY <1>1, PublicationInvariance, PTL

\* However often the review is repeated, a place in the source has one thread: a thread is only
\* created when the index, this run's own threads and what landed late have none for it.
THEOREM PlacesHaveOneThread == Spec => []OneThread
<1>1. PublicationInv => OneThread
  BY DEF PublicationInv
<1> QED BY <1>1, PublicationInvariance, PTL

-----------------------------------------------------------------------------
(* What has been read of a patch after some of its rows *)

Unread == [hunks |-> <<>>, open |-> FALSE, old |-> 0, new |-> 0, cut |-> FALSE]

Reading(patch, g, s) == IF s = {} THEN Unread ELSE LET x == Max(s) IN ReadRow(g[s \ {x}], patch[x])

Readings(patch) == CHOOSE g : g = [s \in SUBSET (DOMAIN patch) |-> Reading(patch, g, s)]

LEMMA ParsedIsReading == ASSUME NEW patch PROVE Parsed(patch) = Readings(patch)[DOMAIN patch]
BY DEF Parsed, FoldLeft, MapThenFoldSet, Readings, Reading, Unread

\* A function with the readings of all sets of at most n rows.
Layer(patch, n) ==
    \E g : /\ g = [s \in SUBSET (DOMAIN patch) |-> g[s]]
           /\ \A s \in SUBSET (DOMAIN patch) : Cardinality(s) <= n => g[s] = Reading(patch, g, s)

LEMMA RowsAreFinite ==
    ASSUME NEW patch, NEW N \in Nat, DOMAIN patch = 1..N, NEW s \in SUBSET (DOMAIN patch)
    PROVE  IsFiniteSet(s) /\ Cardinality(s) \in Nat
<1>1. IsFiniteSet(1..N)
  BY FS_Interval
<1>2. IsFiniteSet(s)
  BY <1>1, FS_Subset
<1> QED BY <1>2, FS_CardinalityType

LEMMA NextLayer ==
    ASSUME NEW patch, NEW N \in Nat, DOMAIN patch = 1..N, NEW n \in Nat, Layer(patch, n)
    PROVE  Layer(patch, n + 1)
<1>1. PICK g : \A s \in SUBSET (DOMAIN patch) : Cardinality(s) <= n => g[s] = Reading(patch, g, s)
  BY DEF Layer
<1> DEFINE h == [s \in SUBSET (DOMAIN patch) |->
                    IF Cardinality(s) <= n THEN g[s] ELSE Reading(patch, g, s)]
<1>2. h = [s \in SUBSET (DOMAIN patch) |-> h[s]]
  OBVIOUS
<1>3. ASSUME NEW s \in SUBSET (DOMAIN patch), Cardinality(s) <= n + 1
      PROVE  h[s] = Reading(patch, h, s)
  <2>1. h[s] = Reading(patch, g, s)
    BY <1>1
  <2>2. CASE s = {}
    BY <2>1, <2>2 DEF Reading
  <2>3. CASE s # {}
    <3>1. Max(s) \in s
      BY <2>3, GreatestIndex
    <3>2. IsFiniteSet(s) /\ Cardinality(s) \in Nat
      BY RowsAreFinite
    <3>3. Cardinality(s \ {Max(s)}) = Cardinality(s) - 1
      BY <3>1, <3>2, FS_RemoveElement
    <3>4. Cardinality(s \ {Max(s)}) <= n /\ s \ {Max(s)} \in SUBSET (DOMAIN patch)
      BY <1>3, <3>2, <3>3
    <3>5. h[s \ {Max(s)}] = g[s \ {Max(s)}]
      BY <3>4
    <3> HIDE DEF h
    <3> QED BY <2>1, <2>3, <3>5 DEF Reading
  <2> QED BY <2>2, <2>3
<1> HIDE DEF h
<1> QED BY <1>2, <1>3 DEF Layer

LEMMA AllLayers ==
    ASSUME NEW patch, NEW N \in Nat, DOMAIN patch = 1..N, NEW n \in Nat
    PROVE  Layer(patch, n)
<1> DEFINE Bad == {k \in Nat : ~Layer(patch, k)}
<1> SUFFICES ASSUME Bad # {} PROVE FALSE
  OBVIOUS
<1>1. PICK k \in Bad : \A j \in Bad : k <= j
  BY LeastNatural
<1>2. CASE k = 0
  <2> DEFINE g == [s \in SUBSET (DOMAIN patch) |-> Unread]
  <2>1. ASSUME NEW s \in SUBSET (DOMAIN patch), Cardinality(s) <= 0 PROVE g[s] = Reading(patch, g, s)
    <3>1. IsFiniteSet(s) /\ Cardinality(s) \in Nat
      BY RowsAreFinite
    <3>2. s = {}
      BY <2>1, <3>1, FS_EmptySet
    <3> QED BY <3>2 DEF Reading
  <2>2. g = [s \in SUBSET (DOMAIN patch) |-> g[s]]
    OBVIOUS
  <2> HIDE DEF g
  <2>3. Layer(patch, 0)
    BY <2>1, <2>2 DEF Layer
  <2> QED BY <1>2, <2>3
<1>3. CASE k # 0
  <2>1. k - 1 \in Nat /\ ~ (k <= k - 1) /\ (k - 1) + 1 = k
    BY <1>3
  <2>2. Layer(patch, k - 1)
    BY <1>1, <2>1
  <2>3. Layer(patch, k)
    BY <2>1, <2>2, NextLayer
  <2> QED BY <2>3
<1> QED BY <1>2, <1>3

\* After its first n rows.
Read(patch, n) == Readings(patch)[1..n]

LEMMA RowByRow ==
    ASSUME NEW patch, NEW N \in Nat, DOMAIN patch = 1..N
    PROVE  /\ Parsed(patch) = Read(patch, N)
           /\ Read(patch, 0) = Unread
           /\ \A n \in 0..(N - 1) : Read(patch, n + 1) = ReadRow(Read(patch, n), patch[n + 1])
<1>1. IsFiniteSet(1..N) /\ Cardinality(1..N) \in Nat
  BY FS_Interval, FS_CardinalityType
<1>2. PICK g : /\ g = [s \in SUBSET (DOMAIN patch) |-> g[s]]
               /\ \A s \in SUBSET (DOMAIN patch) :
                     Cardinality(s) <= Cardinality(1..N) => g[s] = Reading(patch, g, s)
  BY <1>1, AllLayers DEF Layer
<1>3. \A s \in SUBSET (DOMAIN patch) : g[s] = Reading(patch, g, s)
  BY <1>1, <1>2, FS_Subset
<1>4. g = [s \in SUBSET (DOMAIN patch) |-> Reading(patch, g, s)]
  BY <1>2, <1>3
<1>5. Readings(patch) = [s \in SUBSET (DOMAIN patch) |-> Reading(patch, Readings(patch), s)]
  BY <1>4 DEF Readings
<1>6. \A s \in SUBSET (DOMAIN patch) : Readings(patch)[s] = Reading(patch, Readings(patch), s)
  BY <1>5
<1>7. ASSUME NEW n \in 0..(N - 1)
      PROVE  Read(patch, n + 1) = ReadRow(Read(patch, n), patch[n + 1])
  <2>1. 1..(n + 1) \in SUBSET (DOMAIN patch) /\ n + 1 \in 1..(n + 1) /\ n + 1 \in Nat
    OBVIOUS
  <2>2. Max(1..(n + 1)) = n + 1
    <3>1. Max(1..(n + 1)) \in 1..(n + 1) /\ n + 1 <= Max(1..(n + 1))
      BY <2>1, GreatestIndex
    <3> QED BY <3>1
  <2>3. (1..(n + 1)) \ {n + 1} = 1..n
    OBVIOUS
  <2> QED BY <1>6, <2>1, <2>2, <2>3 DEF Reading, Read
<1>8. Read(patch, 0) = Unread
  <2>1. 1..0 = {}
    OBVIOUS
  <2> QED BY <1>6, <2>1 DEF Reading, Read
<1> QED BY <1>7, <1>8, ParsedIsReading DEF Read

-----------------------------------------------------------------------------
(* What the reader knows after each row *)

LinesOf(patch) ==
    [kind : LineKinds, text : {patch[i].text : i \in DOMAIN patch},
     LEFT : Nat \cup {NoLine}, RIGHT : Nat \cup {NoLine}]
HunksOf(patch) ==
    [heading : {patch[i].heading : i \in DOMAIN patch}, oldLines : Nat, newLines : Nat,
     lines : Seq(LinesOf(patch))]
Readers(patch) ==
    [hunks : Seq(HunksOf(patch)), open : BOOLEAN, old : Nat, new : Nat, cut : BOOLEAN]

Begins(patch, h, side) == IF side = "RIGHT" THEN patch[h].new ELSE patch[h].old
Count(patch, h, k, side) == Cardinality(Between(patch, h, k, side))

\* The line has the number that its row has in the patch.
Stands(patch, h, j, l) ==
    /\ InHunk(patch, h, j)
    /\ l.kind = patch[j].row
    /\ \A side \in Sides :
          l[side] = IF OnSide(patch[j], side)
                    THEN Begins(patch, h, side) + Count(patch, h, j - 1, side)
                    ELSE NoLine

Stood(patch, k, p) ==
    \A m \in 1..Len(p.hunks) : \A q \in 1..Len(p.hunks[m].lines) :
        \E h, j \in 1..k : Stands(patch, h, j, p.hunks[m].lines[q])

\* The hunk being read is that of row h.
ReadsHunk(patch, k, p, h) ==
    /\ h \in 1..k /\ patch[h].row = "header"
    /\ \A i \in (h + 1)..k : patch[i].row \in LineKinds \cup {"no newline"}
    /\ p.hunks # <<>>
    /\ Last(p.hunks).oldLines = patch[h].oldLines
    /\ Last(p.hunks).newLines = patch[h].newLines
    /\ p.old = Begins(patch, h, "LEFT") + Count(patch, h, k, "LEFT")
    /\ p.new = Begins(patch, h, "RIGHT") + Count(patch, h, k, "RIGHT")
    /\ \A side \in Sides : Consumed(Last(p.hunks).lines, side) = Count(patch, h, k, side)

Opened(patch, k, p) == p.open => \E h \in 1..k : ReadsHunk(patch, k, p, h)

\* Unless something is cut off, nothing is amiss so far.
Uncut(patch, k, p) ==
    ~p.cut => \A h \in 1..k : patch[h].row = "header" =>
        /\ p.open
        /\ \A i \in (h + 1)..k : patch[i].row # "other"
        /\ \/ \A i \in (h + 1)..k : patch[i].row # "header"
           \/ \E e \in h..(k - 1) : patch[e + 1].row = "header" /\ AsAnnounced(patch, h, e)

RowInv(patch, k, p) ==
    /\ p \in Readers(patch)
    /\ Stood(patch, k, p)
    /\ Opened(patch, k, p)
    /\ Uncut(patch, k, p)

\* One row more.
LEMMA CountType ==
    ASSUME NEW patch, NEW h \in Nat, NEW k \in Nat, NEW side
    PROVE  IsFiniteSet(Between(patch, h, k, side)) /\ Count(patch, h, k, side) \in Nat
<1>1. IsFiniteSet((h + 1)..k)
  BY FS_Interval
<1>2. IsFiniteSet(Between(patch, h, k, side))
  BY <1>1, FS_Subset DEF Between
<1> QED BY <1>2, FS_CardinalityType DEF Count

LEMMA CountStep ==
    ASSUME NEW patch, NEW k \in Nat, NEW h \in 1..k, NEW side
    PROVE  Count(patch, h, k + 1, side) =
               IF OnSide(patch[k + 1], side) THEN Count(patch, h, k, side) + 1
               ELSE Count(patch, h, k, side)
<1>1. CASE OnSide(patch[k + 1], side)
  <2>1. Between(patch, h, k + 1, side) = Between(patch, h, k, side) \cup {k + 1}
    BY <1>1 DEF Between
  <2>2. k + 1 \notin Between(patch, h, k, side)
    BY DEF Between
  <2>3. IsFiniteSet(Between(patch, h, k, side))
    BY CountType
  <2> QED BY <1>1, <2>1, <2>2, <2>3, FS_AddElement DEF Count
<1>2. CASE ~OnSide(patch[k + 1], side)
  <2>1. Between(patch, h, k + 1, side) = Between(patch, h, k, side)
    BY <1>2 DEF Between
  <2> QED BY <1>2, <2>1 DEF Count
<1> QED BY <1>1, <1>2

LEMMA CountNone ==
    ASSUME NEW patch, NEW h \in Nat, NEW side
    PROVE  Count(patch, h, h, side) = 0
<1>1. Between(patch, h, h, side) = {}
  BY DEF Between
<1> QED BY <1>1, FS_EmptySet DEF Count

LEMMA ConsumedStep ==
    ASSUME NEW S, NEW lines \in Seq(S), NEW l \in S, NEW side
    PROVE  Consumed(Append(lines, l), side) =
               IF l[side] # NoLine THEN Consumed(lines, side) + 1 ELSE Consumed(lines, side)
<1> DEFINE n == Len(lines)
           more == Append(lines, l)
           old == {i \in DOMAIN lines : lines[i][side] # NoLine}
           new == {i \in DOMAIN more : more[i][side] # NoLine}
<1>1. /\ n \in Nat /\ DOMAIN lines = 1..n /\ DOMAIN more = 1..(n + 1)
      /\ more[n + 1] = l /\ \A i \in 1..n : more[i] = lines[i]
  OBVIOUS
<1> HIDE DEF n, more
<1>2. IsFiniteSet(old) /\ n + 1 \notin old
  <2>1. IsFiniteSet(1..n)
    BY <1>1, FS_Interval
  <2>2. old \subseteq 1..n
    BY <1>1
  <2> QED BY <1>1, <2>1, <2>2, FS_Subset
<1>3. new = IF l[side] # NoLine THEN old \cup {n + 1} ELSE old
  BY <1>1
<1>4. Cardinality(new) = IF l[side] # NoLine THEN Cardinality(old) + 1 ELSE Cardinality(old)
  <2> HIDE DEF old, new
  <2> QED BY <1>2, <1>3, FS_AddElement
<1> QED BY <1>4 DEF Consumed, more

LEMMA ConsumedType ==
    ASSUME NEW S, NEW lines \in Seq(S), NEW side
    PROVE  Consumed(lines, side) \in Nat
<1> DEFINE old == {i \in DOMAIN lines : lines[i][side] # NoLine}
<1>1. IsFiniteSet(1..Len(lines)) /\ old \subseteq 1..Len(lines)
  BY FS_Interval
<1>2. IsFiniteSet(old)
  BY <1>1, FS_Subset
<1> QED BY <1>2, FS_CardinalityType DEF Consumed

LEMMA NothingConsumed == ASSUME NEW side PROVE Consumed(<<>>, side) = 0
<1>1. {i \in DOMAIN <<>> : <<>>[i][side] # NoLine} = {}
  OBVIOUS
<1> QED BY <1>1, FS_EmptySet DEF Consumed

LEMMA PatchRows ==
    ASSUME NEW patch, IsPatch(patch)
    PROVE  /\ Len(patch) \in Nat /\ DOMAIN patch = 1..Len(patch)
           /\ \A i \in DOMAIN patch :
                 /\ patch[i].row \in LineKinds \cup {"header", "no newline", "other"}
                 /\ patch[i].row = "header" =>
                       /\ patch[i].old \in Nat /\ patch[i].oldLines \in Nat
                       /\ patch[i].new \in Nat /\ patch[i].newLines \in Nat
<1>1. Len(patch) \in Nat /\ DOMAIN patch = 1..Len(patch)
  <2>1. patch \in Seq(ToSet(patch))
    BY DEF IsPatch
  <2> HIDE DEF ToSet
  <2> QED BY <2>1
<1>2. \A i \in DOMAIN patch : patch[i] \in ToSet(patch)
  BY DEF ToSet
<1> QED BY <1>1, <1>2 DEF IsPatch

LEMMA NothingRead ==
    ASSUME NEW patch, IsPatch(patch)
    PROVE  RowInv(patch, 0, Unread)
<1>1. Unread \in Readers(patch)
  BY DEF Unread, Readers
<1>2. Len(Unread.hunks) = 0 /\ Unread.open = FALSE
  BY DEF Unread
<1> QED BY <1>1, <1>2 DEF RowInv, Stood, Opened, Uncut

\* What stands in the patch so far stays there.
LEMMA StillStood ==
    ASSUME NEW patch, NEW k \in Nat, NEW l, \E h, j \in 1..k : Stands(patch, h, j, l)
    PROVE  \E h, j \in 1..(k + 1) : Stands(patch, h, j, l)
<1>1. 1..k \subseteq 1..(k + 1)
  OBVIOUS
<1> QED BY <1>1

\* The hunk being read, if it is complete, has what its header announces.
LEMMA LastAsAnnounced ==
    ASSUME NEW patch, NEW k \in Nat, NEW h \in 1..k, NEW p,
           patch[h].row = "header", \A i \in (h + 1)..k : patch[i].row # "header",
           p.open, Opened(patch, k, p), ~CutShort(p)
    PROVE  AsAnnounced(patch, h, k)
<1>1. PICK h0 \in 1..k : ReadsHunk(patch, k, p, h0)
  BY DEF Opened
<1>2. h0 = h
  <2>1. h0 \in (h + 1)..k \/ h \in (h0 + 1)..k \/ h0 = h
    OBVIOUS
  <2>2. h0 \notin (h + 1)..k
    BY <1>1 DEF ReadsHunk
  <2>3. h \notin (h0 + 1)..k
    BY <1>1 DEF ReadsHunk, LineKinds
  <2> QED BY <2>1, <2>2, <2>3
<1>3. ~Incomplete(Last(p.hunks))
  BY DEF CutShort
<1>4. /\ Consumed(Last(p.hunks).lines, "LEFT") = patch[h].oldLines
      /\ Consumed(Last(p.hunks).lines, "RIGHT") = patch[h].newLines
  BY <1>1, <1>2, <1>3 DEF Incomplete, ReadsHunk
<1> QED BY <1>1, <1>2, <1>4 DEF AsAnnounced, ReadsHunk, Count, Sides

LEMMA HeaderRead ==
    ASSUME NEW patch, IsPatch(patch), NEW k \in 0..(Len(patch) - 1), NEW p, RowInv(patch, k, p),
           patch[k + 1].row = "header"
    PROVE  RowInv(patch, k + 1, ReadRow(p, patch[k + 1]))
<1> DEFINE r == patch[k + 1]
           hunk == [heading |-> r.heading, oldLines |-> r.oldLines,
                    newLines |-> r.newLines, lines |-> <<>>]
           s == OpenHunk(p, r)
<1>0. k + 1 \in DOMAIN patch /\ k \in Nat /\ k + 1 \in Nat /\ Len(patch) \in Nat
  <2>1. Len(patch) \in Nat /\ DOMAIN patch = 1..Len(patch)
    BY PatchRows
  <2> QED BY <2>1
<1>1. ReadRow(p, r) = s
  BY DEF ReadRow, LineKinds
<1>2. p \in Readers(patch) /\ p.hunks \in Seq(HunksOf(patch)) /\ p.cut \in BOOLEAN
  BY DEF RowInv, Readers
<1>3. /\ r.old \in Nat /\ r.oldLines \in Nat /\ r.new \in Nat /\ r.newLines \in Nat
  BY <1>0, PatchRows
<1>4. hunk \in HunksOf(patch)
  <2>1. <<>> \in Seq(LinesOf(patch))
    OBVIOUS
  <2> QED BY <1>0, <1>3, <2>1 DEF HunksOf
<1>5. /\ s.hunks = Append(p.hunks, hunk) /\ s.open = TRUE
      /\ s.old = r.old /\ s.new = r.new /\ s.cut = (p.cut \/ CutShort(p))
  BY DEF OpenHunk
<1>6. s \in Readers(patch)
  BY <1>2, <1>3, <1>4 DEF OpenHunk, Readers
<1>7. Last(s.hunks) = hunk /\ Len(s.hunks) = Len(p.hunks) + 1 /\ s.hunks # <<>>
      /\ \A m \in 1..Len(p.hunks) : s.hunks[m] = p.hunks[m]
  <2> HIDE DEF s, hunk
  <2> QED BY <1>2, <1>4, <1>5 DEF Last
<1>8. Stood(patch, k + 1, s)
  <2> SUFFICES ASSUME NEW m \in 1..Len(s.hunks), NEW q \in 1..Len(s.hunks[m].lines)
               PROVE  \E h, j \in 1..(k + 1) : Stands(patch, h, j, s.hunks[m].lines[q])
    BY DEF Stood
  <2>1. CASE m \in 1..Len(p.hunks)
    <3>1. s.hunks[m] = p.hunks[m]
      BY <1>7, <2>1
    <3>2. \E h, j \in 1..k : Stands(patch, h, j, s.hunks[m].lines[q])
      BY <2>1, <3>1 DEF RowInv, Stood
    <3> QED BY <1>0, <3>2, StillStood
  <2>2. CASE m = Len(p.hunks) + 1
    <3>1. s.hunks[m] = hunk
      BY <1>7, <2>2 DEF Last
    <3>2. Len(s.hunks[m].lines) = 0
      BY <3>1
    <3> QED BY <3>2
  <2>3. Len(p.hunks) \in Nat
    BY <1>2
  <2> QED BY <1>7, <2>1, <2>2, <2>3
<1>9. ReadsHunk(patch, k + 1, s, k + 1)
  <2>1. \A side : Count(patch, k + 1, k + 1, side) = 0
    BY <1>0, CountNone
  <2>2. \A side : Consumed(hunk.lines, side) = 0
    BY NothingConsumed
  <2>3. Begins(patch, k + 1, "LEFT") = r.old /\ Begins(patch, k + 1, "RIGHT") = r.new
    BY DEF Begins
  <2>4. /\ Last(s.hunks).oldLines = r.oldLines /\ Last(s.hunks).newLines = r.newLines
        /\ Last(s.hunks).lines = hunk.lines
    BY <1>7
  <2>5. s.old = r.old + 0 /\ s.new = r.new + 0
    BY <1>3, <1>5
  <2>6. \A i \in ((k + 1) + 1)..(k + 1) : patch[i].row \in LineKinds \cup {"no newline"}
    <3>1. ((k + 1) + 1)..(k + 1) = {}
      BY <1>0
    <3> QED BY <3>1, Zenon
  <2>7. k + 1 \in 1..(k + 1)
    BY <1>0
  <2>8. \A side \in Sides : Consumed(Last(s.hunks).lines, side) = Count(patch, k + 1, k + 1, side)
    BY <2>1, <2>2, <2>4
  <2>9. /\ s.old = Begins(patch, k + 1, "LEFT") + Count(patch, k + 1, k + 1, "LEFT")
        /\ s.new = Begins(patch, k + 1, "RIGHT") + Count(patch, k + 1, k + 1, "RIGHT")
    BY <2>1, <2>3, <2>5
  <2> HIDE DEF s, hunk
  <2> QED BY <1>7, <2>4, <2>6, <2>7, <2>8, <2>9 DEF ReadsHunk
<1>10. Opened(patch, k + 1, s)
  BY <1>0, <1>9 DEF Opened
<1>11. Uncut(patch, k + 1, s)
  <2> SUFFICES ASSUME ~s.cut, NEW h \in 1..(k + 1), patch[h].row = "header"
               PROVE  /\ s.open
                      /\ \A i \in (h + 1)..(k + 1) : patch[i].row # "other"
                      /\ \/ \A i \in (h + 1)..(k + 1) : patch[i].row # "header"
                         \/ \E e \in h..((k + 1) - 1) :
                               patch[e + 1].row = "header" /\ AsAnnounced(patch, h, e)
    BY DEF Uncut
  <2>1. ~p.cut /\ ~CutShort(p)
    BY <1>5
  <2>2. CASE h = k + 1
    BY <1>5, <2>2
  <2>3. CASE h \in 1..k
    <3>1. /\ p.open
          /\ \A i \in (h + 1)..k : patch[i].row # "other"
          /\ \/ \A i \in (h + 1)..k : patch[i].row # "header"
             \/ \E e \in h..(k - 1) : patch[e + 1].row = "header" /\ AsAnnounced(patch, h, e)
      BY <2>1, <2>3 DEF RowInv, Uncut
    <3>2. \A i \in (h + 1)..(k + 1) : patch[i].row # "other"
      BY <3>1
    <3>3. CASE \E e \in h..(k - 1) : patch[e + 1].row = "header" /\ AsAnnounced(patch, h, e)
      <4>1. h..(k - 1) \subseteq h..((k + 1) - 1)
        OBVIOUS
      <4> QED BY <1>5, <3>2, <3>3, <4>1
    <3>4. CASE \A i \in (h + 1)..k : patch[i].row # "header"
      <4>5. AsAnnounced(patch, h, k)
        BY <1>0, <2>1, <2>3, <3>1, <3>4, LastAsAnnounced DEF RowInv
      <4>6. k \in h..((k + 1) - 1)
        BY <2>3
      <4> QED BY <1>5, <3>2, <4>5, <4>6
    <3> QED BY <3>1, <3>3, <3>4
  <2> QED BY <2>2, <2>3
<1> QED BY <1>1, <1>6, <1>8, <1>10, <1>11 DEF RowInv

LEMMA Wider ==
    ASSUME NEW k \in Nat, NEW h \in Nat
    PROVE  (h + 1)..k \subseteq (h + 1)..(k + 1)
OBVIOUS

LEMMA OneRowMore ==
    ASSUME NEW k \in Nat, NEW h \in 1..k
    PROVE  /\ h \in Nat /\ h < k + 1 /\ h \in 1..(k + 1)
           /\ \A i \in (h + 1)..(k + 1) : i \in (h + 1)..k \/ i = k + 1
OBVIOUS

\* The row that follows belongs to the same hunk.
LEMMA InSameHunk ==
    ASSUME NEW patch, NEW k \in Nat, NEW p, NEW h, ReadsHunk(patch, k, p, h),
           patch[k + 1].row \in LineKinds \cup {"no newline"}
    PROVE  /\ h \in 1..k /\ h \in 1..(k + 1) /\ InHunk(patch, h, k + 1)
           /\ \A i \in (h + 1)..(k + 1) : patch[i].row \in LineKinds \cup {"no newline"}
<1>1. h \in 1..k /\ patch[h].row = "header"
      /\ \A i \in (h + 1)..k : patch[i].row \in LineKinds \cup {"no newline"}
  BY DEF ReadsHunk
<1>0. h \in 1..k
  BY <1>1
<1>2. /\ h \in Nat /\ h < k + 1 /\ h \in 1..(k + 1)
      /\ \A i \in (h + 1)..(k + 1) : i \in (h + 1)..k \/ i = k + 1
  BY <1>0, OneRowMore, Zenon
<1>3. \A i \in (h + 1)..(k + 1) : patch[i].row \in LineKinds \cup {"no newline"}
  BY <1>1, <1>2
<1> QED BY <1>1, <1>2, <1>3 DEF InHunk

\* A row that is no header and cuts nothing off leaves it so.
LEMMA StillUncut ==
    ASSUME NEW patch, NEW k \in Nat, NEW p, NEW s, Uncut(patch, k, p),
           patch[k + 1].row \notin {"header", "other"}, s.cut = p.cut, s.open = p.open
    PROVE  Uncut(patch, k + 1, s)
<1> SUFFICES ASSUME ~s.cut, NEW h \in 1..(k + 1), patch[h].row = "header"
             PROVE  /\ s.open
                    /\ \A i \in (h + 1)..(k + 1) : patch[i].row # "other"
                    /\ \/ \A i \in (h + 1)..(k + 1) : patch[i].row # "header"
                       \/ \E e \in h..((k + 1) - 1) :
                             patch[e + 1].row = "header" /\ AsAnnounced(patch, h, e)
  BY DEF Uncut
<1>1. h # k + 1
  OBVIOUS
<1>2. h \in 1..k
  BY <1>1
<1>3. /\ p.open
      /\ \A i \in (h + 1)..k : patch[i].row # "other"
      /\ \/ \A i \in (h + 1)..k : patch[i].row # "header"
         \/ \E e \in h..(k - 1) : patch[e + 1].row = "header" /\ AsAnnounced(patch, h, e)
  BY <1>2 DEF Uncut
<1>4. \A i \in (h + 1)..(k + 1) : i \in (h + 1)..k \/ i = k + 1
  OBVIOUS
<1>5. h..(k - 1) \subseteq h..((k + 1) - 1)
  OBVIOUS
<1>6. \A i \in (h + 1)..(k + 1) : patch[i].row # "other"
  BY <1>3, <1>4
<1>7. CASE \A i \in (h + 1)..k : patch[i].row # "header"
  <2>1. \A i \in (h + 1)..(k + 1) : patch[i].row # "header"
    BY <1>4, <1>7
  <2> QED BY <1>3, <1>6, <2>1
<1>8. CASE \E e \in h..(k - 1) : patch[e + 1].row = "header" /\ AsAnnounced(patch, h, e)
  BY <1>3, <1>5, <1>6, <1>8
<1> QED BY <1>3, <1>7, <1>8

\* The hunk being read has one line more.
Extended(p, s, l) ==
    /\ p.hunks # <<>> /\ Len(s.hunks) = Len(p.hunks)
    /\ \A m \in 1..Len(p.hunks) : m # Len(p.hunks) => s.hunks[m] = p.hunks[m]
    /\ s.hunks[Len(p.hunks)].lines = Append(p.hunks[Len(p.hunks)].lines, l)
    /\ s.open = p.open /\ s.cut = p.cut

LEMMA LineRead ==
    ASSUME NEW patch, IsPatch(patch), NEW k \in 0..(Len(patch) - 1), NEW p, RowInv(patch, k, p),
           patch[k + 1].row \in LineKinds, p.open
    PROVE  /\ RowInv(patch, k + 1, ReadRow(p, patch[k + 1]))
           /\ \E l \in LinesOf(patch) : Extended(p, ReadRow(p, patch[k + 1]), l)
                                         /\ \E h \in 1..k : Stands(patch, h, k + 1, l)
<1> DEFINE r == patch[k + 1]
           isOld == r.row # "addition"
           isNew == r.row # "deletion"
           line == [kind |-> r.row, text |-> r.text,
                    LEFT |-> IF isOld THEN p.old ELSE NoLine,
                    RIGHT |-> IF isNew THEN p.new ELSE NoLine]
           s == AddLine(p, r)
           n == Len(p.hunks)
<1>0. k + 1 \in DOMAIN patch /\ k \in Nat /\ k + 1 \in Nat
  <2>1. Len(patch) \in Nat /\ DOMAIN patch = 1..Len(patch)
    BY PatchRows
  <2> QED BY <2>1
<1>1. ReadRow(p, r) = s
  BY DEF ReadRow, LineKinds
<1>2. /\ p \in Readers(patch) /\ p.hunks \in Seq(HunksOf(patch)) /\ p.cut \in BOOLEAN
      /\ p.old \in Nat /\ p.new \in Nat
  BY DEF RowInv, Readers
<1>3. PICK h \in 1..k : ReadsHunk(patch, k, p, h)
  BY DEF RowInv, Opened
<1>4. /\ InHunk(patch, h, k + 1) /\ h \in 1..(k + 1)
      /\ \A i \in (h + 1)..(k + 1) : patch[i].row \in LineKinds \cup {"no newline"}
  BY <1>0, <1>3, InSameHunk
<1>5. n \in Nat \ {0} /\ n \in 1..n /\ Last(p.hunks) = p.hunks[n] /\ p.hunks[n] \in HunksOf(patch)
  <2>1. p.hunks # <<>>
    BY <1>3 DEF ReadsHunk
  <2>2. n \in Nat /\ n # 0
    BY <1>2, <2>1
  <2>3. n \in 1..n
    BY <2>2
  <2> QED BY <1>2, <2>2, <2>3 DEF Last
<1>6. p.hunks[n].lines \in Seq(LinesOf(patch))
  BY <1>5 DEF HunksOf
<1>7. line \in LinesOf(patch)
  BY <1>0, <1>2 DEF LinesOf
<1>8. /\ s = [p EXCEPT !.hunks[n].lines = Append(@, line),
                       !.old = IF isOld THEN @ + 1 ELSE @,
                       !.new = IF isNew THEN @ + 1 ELSE @]
  BY DEF AddLine
<1> DEFINE hunk == [p.hunks[n] EXCEPT !.lines = Append(@, line)]
<1>9. /\ s.hunks = [p.hunks EXCEPT ![n] = hunk]
      /\ s.old = (IF isOld THEN p.old + 1 ELSE p.old)
      /\ s.new = (IF isNew THEN p.new + 1 ELSE p.new)
      /\ s.open = p.open /\ s.cut = p.cut
  BY <1>2, <1>8 DEF Readers
<1>10. /\ hunk \in HunksOf(patch) /\ hunk.lines = Append(p.hunks[n].lines, line)
       /\ hunk.oldLines = p.hunks[n].oldLines /\ hunk.newLines = p.hunks[n].newLines
  <2>1. Append(p.hunks[n].lines, line) \in Seq(LinesOf(patch))
    BY <1>6, <1>7
  <2> HIDE DEF line
  <2> QED BY <1>5, <2>1 DEF HunksOf
<1>11. /\ s.hunks \in Seq(HunksOf(patch)) /\ Len(s.hunks) = n /\ s.hunks[n] = hunk
       /\ \A m \in 1..n : m # n => s.hunks[m] = p.hunks[m]
  <2> HIDE DEF hunk, s
  <2> QED BY <1>2, <1>5, <1>9, <1>10
<1>12. s \in Readers(patch)
  <2>1. s = [hunks |-> s.hunks, open |-> s.open, old |-> s.old, new |-> s.new, cut |-> s.cut]
    BY <1>2, <1>8 DEF Readers
  <2>2. s.old \in Nat /\ s.new \in Nat /\ s.open \in BOOLEAN /\ s.cut \in BOOLEAN
    BY <1>2, <1>9 DEF Readers
  <2> HIDE DEF s
  <2> QED BY <1>11, <2>1, <2>2 DEF Readers
<1>13. Stands(patch, h, k + 1, line)
  <2>1. /\ p.old = Begins(patch, h, "LEFT") + Count(patch, h, k, "LEFT")
        /\ p.new = Begins(patch, h, "RIGHT") + Count(patch, h, k, "RIGHT")
    BY <1>3 DEF ReadsHunk
  <2>2. /\ line.kind = r.row
        /\ line.LEFT = IF isOld THEN p.old ELSE NoLine
        /\ line.RIGHT = IF isNew THEN p.new ELSE NoLine
    OBVIOUS
  <2>3. OnSide(r, "LEFT") <=> isOld
    BY DEF OnSide, LineKinds
  <2>4. OnSide(r, "RIGHT") <=> isNew
    BY DEF OnSide, LineKinds
  <2>5. (k + 1) - 1 = k
    BY <1>0
  <2> HIDE DEF line, r
  <2> QED BY <1>4, <2>1, <2>2, <2>3, <2>4, <2>5 DEF Stands, Sides, r
<1>14. Stood(patch, k + 1, s)
  <2> SUFFICES ASSUME NEW m \in 1..Len(s.hunks), NEW q \in 1..Len(s.hunks[m].lines)
               PROVE  \E h_1, j \in 1..(k + 1) : Stands(patch, h_1, j, s.hunks[m].lines[q])
    BY DEF Stood
  <2>1. CASE m # n
    <3>1. s.hunks[m] = p.hunks[m] /\ m \in 1..Len(p.hunks)
      BY <1>11, <2>1
    <3>2. \E h_1, j \in 1..k : Stands(patch, h_1, j, s.hunks[m].lines[q])
      BY <3>1 DEF RowInv, Stood
    <3> QED BY <1>0, <3>2, StillStood
  <2>2. CASE m = n
    <3> DEFINE old == p.hunks[n].lines
    <3>1. s.hunks[m].lines = Append(old, line)
      BY <1>10, <1>11, <2>2
    <3>2. /\ Len(Append(old, line)) = Len(old) + 1 /\ Len(old) \in Nat
          /\ Append(old, line)[Len(old) + 1] = line
          /\ \A i \in 1..Len(old) : Append(old, line)[i] = old[i]
      <4>1. old \in Seq(LinesOf(patch)) /\ line \in LinesOf(patch)
        BY <1>6, <1>7
      <4> HIDE DEF line, old
      <4> QED BY <4>1
    <3>3. CASE q = Len(old) + 1
      <4>1. s.hunks[m].lines[q] = line
        BY <3>1, <3>2, <3>3
      <4>2. k + 1 \in 1..(k + 1)
        BY <1>0
      <4> QED BY <1>4, <1>13, <4>1, <4>2
    <3>4. CASE q \in 1..Len(old)
      <4>1. s.hunks[m].lines[q] = p.hunks[n].lines[q]
        BY <3>1, <3>2, <3>4
      <4>2. \E h_1, j \in 1..k : Stands(patch, h_1, j, p.hunks[n].lines[q])
        <5>1. Stood(patch, k, p)
          BY DEF RowInv
        <5> HIDE DEF line, s
        <5> QED BY <1>5, <3>4, <5>1 DEF Stood
      <4>3. \E h_1, j \in 1..k : Stands(patch, h_1, j, s.hunks[m].lines[q])
        BY <4>1, <4>2
      <4> QED BY <1>0, <4>3, StillStood
    <3>5. q \in 1..(Len(old) + 1)
      BY <3>1, <3>2
    <3>6. q = Len(old) + 1 \/ q \in 1..Len(old)
      <4> HIDE DEF old, line, s
      <4> QED BY <3>2, <3>5
    <3> QED BY <3>3, <3>4, <3>6
  <2> QED BY <2>1, <2>2
<1>15. ReadsHunk(patch, k + 1, s, h)
  <2>1. Last(s.hunks) = hunk /\ s.hunks # <<>>
    BY <1>5, <1>11 DEF Last
  <2>2. /\ patch[h].row = "header"
        /\ p.hunks[n].oldLines = patch[h].oldLines /\ p.hunks[n].newLines = patch[h].newLines
        /\ p.old = Begins(patch, h, "LEFT") + Count(patch, h, k, "LEFT")
        /\ p.new = Begins(patch, h, "RIGHT") + Count(patch, h, k, "RIGHT")
        /\ \A side \in Sides : Consumed(p.hunks[n].lines, side) = Count(patch, h, k, side)
    BY <1>3, <1>5 DEF ReadsHunk
  <2>3. \A side : Count(patch, h, k + 1, side) = IF OnSide(r, side) THEN Count(patch, h, k, side) + 1
                                                 ELSE Count(patch, h, k, side)
    BY <1>0, CountStep
  <2>4. \A side \in Sides : OnSide(r, side) <=> line[side] # NoLine
    <3>1. OnSide(r, "LEFT") <=> isOld
      BY DEF OnSide, LineKinds
    <3>2. OnSide(r, "RIGHT") <=> isNew
      BY DEF OnSide, LineKinds
    <3>3. line.LEFT # NoLine <=> isOld
      BY <1>2 DEF NoLine
    <3>4. line.RIGHT # NoLine <=> isNew
      BY <1>2 DEF NoLine
    <3> HIDE DEF line, r
    <3> QED BY <3>1, <3>2, <3>3, <3>4 DEF Sides
  <2>5. \A side \in Sides : Consumed(hunk.lines, side) = Count(patch, h, k + 1, side)
    <3> SUFFICES ASSUME NEW side \in Sides PROVE Consumed(hunk.lines, side) = Count(patch, h, k + 1, side)
      OBVIOUS
    <3>1. Consumed(hunk.lines, side) = IF line[side] # NoLine THEN Consumed(p.hunks[n].lines, side) + 1
                                       ELSE Consumed(p.hunks[n].lines, side)
      BY <1>6, <1>7, <1>10, ConsumedStep
    <3> HIDE DEF line, hunk, r
    <3> QED BY <2>2, <2>3, <2>4, <3>1
  <2>6. Begins(patch, h, "LEFT") \in Nat /\ Begins(patch, h, "RIGHT") \in Nat
    <3>1. h \in DOMAIN patch
      <4>1. Len(patch) \in Nat /\ DOMAIN patch = 1..Len(patch)
        BY PatchRows
      <4> QED BY <4>1
    <3> QED BY <2>2, <3>1, PatchRows DEF Begins
  <2>7. \A side : Count(patch, h, k, side) \in Nat
    BY <1>0, CountType
  <2>8. /\ s.old = Begins(patch, h, "LEFT") + Count(patch, h, k + 1, "LEFT")
        /\ s.new = Begins(patch, h, "RIGHT") + Count(patch, h, k + 1, "RIGHT")
    <3>1. OnSide(r, "LEFT") <=> isOld
      BY DEF OnSide, LineKinds
    <3>2. OnSide(r, "RIGHT") <=> isNew
      BY DEF OnSide, LineKinds
    <3> HIDE DEF s, r
    <3> QED BY <1>9, <2>2, <2>3, <2>6, <2>7, <3>1, <3>2 DEF r
  <2> HIDE DEF s, hunk, n
  <2> QED BY <1>4, <1>10, <2>1, <2>2, <2>5, <2>8 DEF ReadsHunk
<1>16. Opened(patch, k + 1, s)
  BY <1>4, <1>15 DEF Opened
<1>17. Uncut(patch, k + 1, s)
  <2>1. r.row \notin {"header", "other"}
    BY DEF LineKinds
  <2> HIDE DEF s
  <2> QED BY <1>0, <1>9, <2>1, StillUncut DEF RowInv
<1>18. Extended(p, s, line)
  <2>1. p.hunks # <<>>
    BY <1>3 DEF ReadsHunk
  <2> HIDE DEF s, line
  <2> QED BY <1>9, <1>10, <1>11, <2>1 DEF Extended
<1> HIDE DEF s, line
<1> QED BY <1>1, <1>3, <1>7, <1>12, <1>13, <1>14, <1>16, <1>17, <1>18 DEF RowInv

\* The lines read stay where they are.
LEMMA StoodLonger ==
    ASSUME NEW patch, NEW k \in Nat, NEW p, NEW s, s.hunks = p.hunks, Stood(patch, k, p)
    PROVE  Stood(patch, k + 1, s)
<1> SUFFICES ASSUME NEW m \in 1..Len(s.hunks), NEW q \in 1..Len(s.hunks[m].lines)
             PROVE  \E h, j \in 1..(k + 1) : Stands(patch, h, j, s.hunks[m].lines[q])
  BY DEF Stood
<1>1. \E h, j \in 1..k : Stands(patch, h, j, s.hunks[m].lines[q])
  BY DEF Stood
<1> QED BY <1>1, StillStood

LEMMA RowNumbers ==
    ASSUME NEW patch, IsPatch(patch), NEW k \in 0..(Len(patch) - 1)
    PROVE  /\ k \in Nat /\ k + 1 \in DOMAIN patch
           /\ \A h \in 1..(k + 1) : h = k + 1 \/ h \in 1..k
<1>1. Len(patch) \in Nat /\ DOMAIN patch = 1..Len(patch)
  BY PatchRows
<1> QED BY <1>1

LEMMA OtherRead ==
    ASSUME NEW patch, IsPatch(patch), NEW k \in 0..(Len(patch) - 1), NEW p, RowInv(patch, k, p),
           patch[k + 1].row = "other", p.open
    PROVE  RowInv(patch, k + 1, ReadRow(p, patch[k + 1]))
<1> DEFINE s == [p EXCEPT !.open = FALSE, !.cut = TRUE]
<1>0. k \in Nat
  BY RowNumbers, Zenon
<1>1. ReadRow(p, patch[k + 1]) = s
  BY DEF ReadRow, LineKinds
<1>2. p \in Readers(patch)
  BY DEF RowInv
<1>3. s \in Readers(patch) /\ s.hunks = p.hunks /\ s.open = FALSE /\ s.cut = TRUE
  BY <1>2 DEF Readers
<1> HIDE DEF s
<1>4. Stood(patch, k + 1, s)
  BY <1>0, <1>3, StoodLonger DEF RowInv
<1>5. Opened(patch, k + 1, s) /\ Uncut(patch, k + 1, s)
  BY <1>3 DEF Opened, Uncut
<1> QED BY <1>1, <1>3, <1>4, <1>5 DEF RowInv

LEMMA RestRead ==
    ASSUME NEW patch, IsPatch(patch), NEW k \in 0..(Len(patch) - 1), NEW p, RowInv(patch, k, p),
           patch[k + 1].row # "header",
           p.open => patch[k + 1].row = "no newline"
    PROVE  RowInv(patch, k + 1, p)
<1>0. k \in Nat
  BY RowNumbers, Zenon
<1>1. Stood(patch, k + 1, p)
  BY <1>0, StoodLonger DEF RowInv
<1>2. Opened(patch, k + 1, p)
  <2> SUFFICES ASSUME p.open PROVE \E h \in 1..(k + 1) : ReadsHunk(patch, k + 1, p, h)
    BY DEF Opened
  <2>1. PICK h \in 1..k : ReadsHunk(patch, k, p, h)
    BY DEF RowInv, Opened
  <2>2. patch[k + 1].row = "no newline"
    OBVIOUS
  <2>3. /\ h \in 1..(k + 1)
        /\ \A i \in (h + 1)..(k + 1) : patch[i].row \in LineKinds \cup {"no newline"}
    BY <1>0, <2>1, <2>2, InSameHunk
  <2>4. \A side : Count(patch, h, k + 1, side) = Count(patch, h, k, side)
    <3>1. \A side : ~OnSide(patch[k + 1], side)
      BY <2>2 DEF OnSide, LineKinds
    <3> QED BY <1>0, <3>1, CountStep
  <2>5. ReadsHunk(patch, k + 1, p, h)
    BY <2>1, <2>3, <2>4, Zenon DEF ReadsHunk
  <2> QED BY <2>3, <2>5
<1>3. Uncut(patch, k + 1, p)
  <2>1. Uncut(patch, k, p)
    BY DEF RowInv
  <2>2. CASE patch[k + 1].row # "other"
    BY <1>0, <2>1, <2>2, StillUncut
  <2>3. CASE patch[k + 1].row = "other"
    <3>1. ~p.open
      BY <2>3
    <3>2. \A h \in 1..(k + 1) : patch[h].row = "header" => h \in 1..k
      <4>1. \A h \in 1..(k + 1) : h = k + 1 \/ h \in 1..k
        BY RowNumbers, Zenon
      <4> QED BY <4>1
    <3> QED BY <2>1, <3>1, <3>2 DEF Uncut
  <2> QED BY <2>2, <2>3
<1> QED BY <1>1, <1>2, <1>3 DEF RowInv

LEMMA RowRead ==
    ASSUME NEW patch, IsPatch(patch), NEW k \in 0..(Len(patch) - 1), NEW p, RowInv(patch, k, p)
    PROVE  RowInv(patch, k + 1, ReadRow(p, patch[k + 1]))
<1> DEFINE r == patch[k + 1]
<1>1. p.open \in BOOLEAN
  BY DEF RowInv, Readers
<1>2. r.row \in LineKinds \cup {"header", "no newline", "other"}
  <2>1. Len(patch) \in Nat /\ DOMAIN patch = 1..Len(patch)
    BY PatchRows
  <2>2. k + 1 \in DOMAIN patch
    BY <2>1
  <2> QED BY <2>2, PatchRows
<1>3. CASE r.row = "header"
  BY <1>3, HeaderRead
<1>4. CASE r.row \in LineKinds /\ p.open
  BY <1>4, LineRead
<1>5. CASE r.row = "other" /\ p.open
  BY <1>5, OtherRead
<1>6. CASE r.row # "header" /\ (p.open => r.row = "no newline")
  <2>1. ReadRow(p, r) = p
    BY <1>6 DEF ReadRow, LineKinds
  <2> QED BY <1>6, <2>1, RestRead
<1> QED BY <1>1, <1>2, <1>3, <1>4, <1>5, <1>6

LEMMA AllRead ==
    ASSUME NEW patch, IsPatch(patch)
    PROVE  RowInv(patch, Len(patch), Parsed(patch))
<1>1. Len(patch) \in Nat /\ DOMAIN patch = 1..Len(patch)
  BY PatchRows
<1>2. /\ Parsed(patch) = Read(patch, Len(patch)) /\ Read(patch, 0) = Unread
      /\ \A n \in 0..(Len(patch) - 1) : Read(patch, n + 1) = ReadRow(Read(patch, n), patch[n + 1])
  BY <1>1, RowByRow
<1> DEFINE Bad == {k \in 0..Len(patch) : ~RowInv(patch, k, Read(patch, k))}
<1>3. Bad = {}
  <2> SUFFICES ASSUME Bad # {} PROVE FALSE
    OBVIOUS
  <2>1. Bad \in SUBSET Nat
    BY <1>1
  <2>2. PICK k \in Bad : \A j \in Bad : k <= j
    <3> HIDE DEF Bad
    <3> QED BY <2>1, LeastNatural
  <2>3. k # 0
    BY <1>2, NothingRead
  <2>4. /\ k - 1 \in 0..(Len(patch) - 1) /\ k - 1 \in 0..Len(patch)
        /\ ~(k <= k - 1) /\ (k - 1) + 1 = k
    BY <1>1, <2>3
  <2>5. RowInv(patch, k - 1, Read(patch, k - 1))
    BY <2>2, <2>4
  <2>6. Read(patch, k) = ReadRow(Read(patch, k - 1), patch[k])
    BY <1>2, <2>4
  <2>7. RowInv(patch, (k - 1) + 1, ReadRow(Read(patch, k - 1), patch[(k - 1) + 1]))
    BY <2>4, <2>5, RowRead
  <2>8. RowInv(patch, k, Read(patch, k))
    BY <2>4, <2>6, <2>7, Zenon
  <2> QED BY <2>8
<1>4. Len(patch) \in 0..Len(patch)
  BY <1>1
<1> QED BY <1>2, <1>3, <1>4

-----------------------------------------------------------------------------
(* What a patch is read as, and what it shows *)

LEMMA WholeUnlessCut ==
    ASSUME NEW patch, IsPatch(patch), ~Parsed(patch).cut, ~CutShort(Parsed(patch))
    PROVE  Whole(patch)
<1> DEFINE p == Parsed(patch)
           N == Len(patch)
<1>1. N \in Nat /\ DOMAIN patch = 1..N
  BY PatchRows
<1>2. Opened(patch, N, p) /\ Uncut(patch, N, p)
  BY AllRead DEF RowInv
<1> SUFFICES ASSUME NEW h \in 1..N, patch[h].row = "header"
             PROVE  /\ \A i \in 1..N : i > h => patch[i].row # "other"
                    /\ \E e \in h..N : /\ e = N \/ patch[e + 1].row = "header"
                                       /\ AsAnnounced(patch, h, e)
  BY <1>1, Zenon DEF Whole
<1>3. /\ p.open
      /\ \A i \in (h + 1)..N : patch[i].row # "other"
      /\ \/ \A i \in (h + 1)..N : patch[i].row # "header"
         \/ \E e \in h..(N - 1) : patch[e + 1].row = "header" /\ AsAnnounced(patch, h, e)
  BY <1>2, Zenon DEF Uncut
<1> HIDE DEF p, N
<1>4. /\ N \in h..N /\ h..(N - 1) \subseteq h..N
      /\ \A i \in 1..N : i > h => i \in (h + 1)..N
  BY <1>1
<1>5. CASE \A i \in (h + 1)..N : patch[i].row # "header"
  <2>1. AsAnnounced(patch, h, N)
    BY <1>1, <1>2, <1>3, <1>5, LastAsAnnounced DEF p
  <2> QED BY <1>3, <1>4, <2>1, Zenon
<1>6. CASE \E e \in h..(N - 1) : patch[e + 1].row = "header" /\ AsAnnounced(patch, h, e)
  BY <1>3, <1>4, <1>6, Zenon
<1> QED BY <1>3, <1>5, <1>6

LEMMA SupportedShown ==
    ASSUME NEW patch, IsPatch(patch), NEW hunk \in ToSet(Parsed(patch).hunks), NEW side \in Sides
    PROVE  Commentable(hunk, side) \subseteq LinesShown(patch, side)
<1> DEFINE p == Parsed(patch)
           N == Len(patch)
<1>1. N \in Nat /\ Stood(patch, N, p) /\ p.hunks \in Seq(HunksOf(patch))
  BY PatchRows, AllRead DEF RowInv, Readers
<1> HIDE DEF p, N
<1>2. PICK m \in 1..Len(p.hunks) : hunk = p.hunks[m] /\ hunk \in HunksOf(patch)
  BY <1>1 DEF ToSet, p
<1>3. hunk.lines \in Seq(LinesOf(patch))
  BY <1>2 DEF HunksOf
<1> SUFFICES ASSUME NEW l \in ToSet(hunk.lines), Supports(l, side)
             PROVE  l[side] \in LinesShown(patch, side)
  BY DEF Commentable
<1>4. PICK q \in 1..Len(hunk.lines) : l = hunk.lines[q]
  BY <1>3 DEF ToSet
<1>5. PICK h, j \in 1..N : Stands(patch, h, j, l)
  BY <1>1, <1>2, <1>4 DEF Stood
<1>6. /\ OnSide(patch[j], side)
      /\ l[side] = Begins(patch, h, side) + Count(patch, h, j - 1, side)
  BY <1>5 DEF Stands, Supports
<1>7. <<h, j>> \in {q_1 \in (1..N) \X (1..N) : InHunk(patch, q_1[1], q_1[2]) /\ OnSide(patch[q_1[2]], side)}
  BY <1>5, <1>6 DEF Stands
<1> QED BY <1>6, <1>7 DEF LinesShown, Begins, Count, N

LEMMA RangeShown ==
    ASSUME NEW patch, IsPatch(patch), NEW file, file.hunks = Parsed(patch).hunks, NEW side \in Sides
    PROVE  /\ \A n : HasLine(file, n, side) => n \in LinesShown(patch, side)
           /\ \A first, last : HasRange(file, first, last, side)
                                   => first..last \subseteq LinesShown(patch, side)
<1>1. \A hunk \in ToSet(file.hunks) : Commentable(hunk, side) \subseteq LinesShown(patch, side)
  BY SupportedShown
<1> QED BY <1>1 DEF HasLine, HasRange

-----------------------------------------------------------------------------
(* What is not lost *)

\* Every line of a hunk has been read.
Kept(patch, k, p) ==
    \A h, j \in 1..k : InHunk(patch, h, j) /\ patch[j].row \in LineKinds =>
        \E m \in 1..Len(p.hunks) : \E q \in 1..Len(p.hunks[m].lines) :
            Stands(patch, h, j, p.hunks[m].lines[q])

\* A hunk without other rows is still open.
Goes(patch, k, p) ==
    \A h \in 1..k :
        patch[h].row = "header" /\ (\A i \in (h + 1)..k : patch[i].row \in LineKinds \cup {"no newline"})
            => p.open

\* Something is cut off only where a hunk has another row, or not the rows it announced.
Flawed(patch, k) ==
    \E h \in 1..k :
        /\ patch[h].row = "header"
        /\ \/ \E i \in (h + 1)..k : patch[i].row = "other"
           \/ \E e \in h..(k - 1) : /\ patch[e + 1].row = "header"
                                    /\ \A i \in (h + 1)..e : patch[i].row # "header"
                                    /\ ~AsAnnounced(patch, h, e)

LossInv(patch, k, p) ==
    /\ Kept(patch, k, p)
    /\ Goes(patch, k, p)
    /\ p.cut => Flawed(patch, k)

LEMMA StillFlawed ==
    ASSUME NEW patch, NEW k \in Nat, Flawed(patch, k)
    PROVE  Flawed(patch, k + 1)
<1>1. PICK h \in 1..k :
        /\ patch[h].row = "header"
        /\ \/ \E i \in (h + 1)..k : patch[i].row = "other"
           \/ \E e \in h..(k - 1) : /\ patch[e + 1].row = "header"
                                    /\ \A i \in (h + 1)..e : patch[i].row # "header"
                                    /\ ~AsAnnounced(patch, h, e)
  BY DEF Flawed
<1>2. /\ h \in 1..(k + 1) /\ (h + 1)..k \subseteq (h + 1)..(k + 1)
      /\ h..(k - 1) \subseteq h..((k + 1) - 1)
  OBVIOUS
<1> QED BY <1>1, <1>2, Zenon DEF Flawed

\* A hunk has one header.
LEMMA OneHeader ==
    ASSUME NEW patch, NEW k \in Nat, NEW h \in 1..k, NEW g \in 1..k,
           patch[h].row = "header", patch[g].row = "header",
           \A i \in (h + 1)..k : patch[i].row # "header",
           \A i \in (g + 1)..k : patch[i].row # "header"
    PROVE  h = g
<1>1. g \in (h + 1)..k \/ h \in (g + 1)..k \/ h = g
  OBVIOUS
<1> QED BY <1>1

\* The last hunk read, if it is not complete, has not the rows it announced.
LEMMA NotAsAnnounced ==
    ASSUME NEW patch, NEW k \in Nat, NEW p, p.open, Opened(patch, k, p), CutShort(p)
    PROVE  \E h \in 1..k : /\ patch[h].row = "header"
                           /\ \A i \in (h + 1)..k : patch[i].row # "header"
                           /\ ~AsAnnounced(patch, h, k)
<1>1. PICK h \in 1..k : ReadsHunk(patch, k, p, h)
  BY DEF Opened
<1>2. Incomplete(Last(p.hunks))
  BY DEF CutShort
<1>3. /\ Last(p.hunks).oldLines = patch[h].oldLines /\ Last(p.hunks).newLines = patch[h].newLines
      /\ \A side \in Sides : Consumed(Last(p.hunks).lines, side) = Count(patch, h, k, side)
      /\ patch[h].row = "header"
  BY <1>1 DEF ReadsHunk
<1>4. ~AsAnnounced(patch, h, k)
  BY <1>2, <1>3 DEF Incomplete, AsAnnounced, Count, Sides
<1>5. \A i \in (h + 1)..k : patch[i].row # "header"
  BY <1>1 DEF ReadsHunk, LineKinds
<1> QED BY <1>3, <1>4, <1>5

\* Lines that were read are not dropped again.
LEMMA StillKept ==
    ASSUME NEW patch, NEW k \in Nat, NEW p, NEW s, Kept(patch, k, p),
           \A m \in 1..Len(p.hunks) : \A q \in 1..Len(p.hunks[m].lines) :
               \E m_1 \in 1..Len(s.hunks) : \E q_1 \in 1..Len(s.hunks[m_1].lines) :
                   s.hunks[m_1].lines[q_1] = p.hunks[m].lines[q],
           \A h \in 1..k : InHunk(patch, h, k + 1) /\ patch[k + 1].row \in LineKinds =>
               \E m \in 1..Len(s.hunks) : \E q \in 1..Len(s.hunks[m].lines) :
                   Stands(patch, h, k + 1, s.hunks[m].lines[q])
    PROVE  Kept(patch, k + 1, s)
<1> SUFFICES ASSUME NEW h \in 1..(k + 1), NEW j \in 1..(k + 1),
                    InHunk(patch, h, j), patch[j].row \in LineKinds
             PROVE  \E m \in 1..Len(s.hunks) : \E q \in 1..Len(s.hunks[m].lines) :
                       Stands(patch, h, j, s.hunks[m].lines[q])
  BY DEF Kept
<1>1. h < j
  BY DEF InHunk
<1>2. h \in 1..k /\ (j = k + 1 \/ j \in 1..k)
  BY <1>1
<1>3. CASE j = k + 1
  BY <1>2, <1>3
<1>4. CASE j \in 1..k
  <2>1. PICK m \in 1..Len(p.hunks) : \E q \in 1..Len(p.hunks[m].lines) :
            Stands(patch, h, j, p.hunks[m].lines[q])
    BY <1>2, <1>4 DEF Kept
  <2>2. PICK q \in 1..Len(p.hunks[m].lines) : Stands(patch, h, j, p.hunks[m].lines[q])
    BY <2>1
  <2>3. PICK m_1 \in 1..Len(s.hunks) : \E q_1 \in 1..Len(s.hunks[m_1].lines) :
            s.hunks[m_1].lines[q_1] = p.hunks[m].lines[q]
    BY <2>1, <2>2, Zenon
  <2> QED BY <2>2, <2>3, Zenon
<1> QED BY <1>2, <1>3, <1>4

\* A row that is no line leaves the lines as they are.
LEMMA KeptLonger ==
    ASSUME NEW patch, NEW k \in Nat, NEW p, NEW s, Kept(patch, k, p), s.hunks = p.hunks,
           \A h \in 1..k : ~(InHunk(patch, h, k + 1) /\ patch[k + 1].row \in LineKinds)
    PROVE  Kept(patch, k + 1, s)
<1>1. \A m \in 1..Len(p.hunks) : \E m_1 \in 1..Len(s.hunks) : m_1 = m
  BY Zenon
<1>2. \A m \in 1..Len(p.hunks) : \A q \in 1..Len(p.hunks[m].lines) :
         \E m_1 \in 1..Len(s.hunks) : \E q_1 \in 1..Len(s.hunks[m_1].lines) :
             s.hunks[m_1].lines[q_1] = p.hunks[m].lines[q]
  BY Zenon
<1> QED BY <1>2, StillKept, Zenon

LEMMA HeaderKeeps ==
    ASSUME NEW patch, IsPatch(patch), NEW k \in 0..(Len(patch) - 1), NEW p, RowInv(patch, k, p),
           LossInv(patch, k, p), patch[k + 1].row = "header"
    PROVE  LossInv(patch, k + 1, ReadRow(p, patch[k + 1]))
<1> DEFINE r == patch[k + 1]
           hunk == [heading |-> r.heading, oldLines |-> r.oldLines,
                    newLines |-> r.newLines, lines |-> <<>>]
           s == OpenHunk(p, r)
<1>0. k \in Nat
  BY RowNumbers, Zenon
<1>1. ReadRow(p, r) = s
  BY DEF ReadRow, LineKinds
<1>2. p.hunks \in Seq(HunksOf(patch)) /\ p.cut \in BOOLEAN /\ p.open \in BOOLEAN
  BY DEF RowInv, Readers
<1>3. s.hunks = Append(p.hunks, hunk) /\ s.open = TRUE /\ s.cut = (p.cut \/ CutShort(p))
  BY DEF OpenHunk
<1>4. Len(s.hunks) = Len(p.hunks) + 1 /\ Len(p.hunks) \in Nat
      /\ \A m \in 1..Len(p.hunks) : s.hunks[m] = p.hunks[m]
  <2> HIDE DEF s, hunk
  <2> QED BY <1>2, <1>3
<1> HIDE DEF s, hunk
<1>5. Kept(patch, k + 1, s)
  <2>1. \A m \in 1..Len(p.hunks) : m \in 1..Len(s.hunks)
    BY <1>4
  <2>2. \A m \in 1..Len(p.hunks) : \A q \in 1..Len(p.hunks[m].lines) :
           \E m_1 \in 1..Len(s.hunks) : \E q_1 \in 1..Len(s.hunks[m_1].lines) :
               s.hunks[m_1].lines[q_1] = p.hunks[m].lines[q]
    BY <1>4, <2>1, Zenon
  <2>3. patch[k + 1].row \notin LineKinds
    BY DEF LineKinds
  <2> QED BY <1>0, <2>2, <2>3, StillKept, Zenon DEF LossInv
<1>6. Goes(patch, k + 1, s)
  BY <1>3 DEF Goes
<1>7. s.cut => Flawed(patch, k + 1)
  <2>1. CASE p.cut
    BY <1>0, <2>1, StillFlawed DEF LossInv
  <2>2. CASE CutShort(p)
    <3>1. p.open
      BY <2>2 DEF CutShort
    <3>2. PICK h \in 1..k : /\ patch[h].row = "header"
                            /\ \A i \in (h + 1)..k : patch[i].row # "header"
                            /\ ~AsAnnounced(patch, h, k)
      BY <1>0, <2>2, <3>1, NotAsAnnounced DEF RowInv
    <3>3. k \in h..((k + 1) - 1) /\ h \in 1..(k + 1)
      BY <1>0
    <3> QED BY <3>2, <3>3, Zenon DEF Flawed
  <2> QED BY <1>2, <1>3, <2>1, <2>2
<1> QED BY <1>1, <1>5, <1>6, <1>7 DEF LossInv

LEMMA LineKeeps ==
    ASSUME NEW patch, IsPatch(patch), NEW k \in 0..(Len(patch) - 1), NEW p, RowInv(patch, k, p),
           LossInv(patch, k, p), patch[k + 1].row \in LineKinds, p.open
    PROVE  LossInv(patch, k + 1, ReadRow(p, patch[k + 1]))
<1> DEFINE s == ReadRow(p, patch[k + 1])
           n == Len(p.hunks)
<1>0. k \in Nat
  BY RowNumbers, Zenon
<1>1. PICK l \in LinesOf(patch), h \in 1..k : Extended(p, s, l) /\ Stands(patch, h, k + 1, l)
  BY LineRead
<1> HIDE DEF s
<1>2. n \in Nat /\ n \in 1..n /\ p.hunks[n].lines \in Seq(LinesOf(patch))
      /\ \A m \in 1..n : p.hunks[m].lines \in Seq(LinesOf(patch))
  <2>1. p.hunks \in Seq(HunksOf(patch)) /\ p.hunks # <<>>
    BY <1>1 DEF RowInv, Readers, Extended
  <2>2. n \in Nat /\ n \in 1..n /\ \A m \in 1..n : p.hunks[m] \in HunksOf(patch)
    BY <2>1
  <2> HIDE DEF n
  <2> QED BY <2>2 DEF HunksOf
<1> DEFINE old == p.hunks[n].lines
<1>3. /\ Len(Append(old, l)) = Len(old) + 1 /\ Len(old) \in Nat
      /\ Append(old, l)[Len(old) + 1] = l
      /\ \A i \in 1..Len(old) : Append(old, l)[i] = old[i]
  <2>1. old \in Seq(LinesOf(patch))
    BY <1>2
  <2> HIDE DEF old
  <2> QED BY <2>1
<1>4. /\ Len(s.hunks) = n /\ s.hunks[n].lines = Append(old, l)
      /\ \A m \in 1..n : m # n => s.hunks[m] = p.hunks[m]
      /\ s.open = p.open /\ s.cut = p.cut
  BY <1>1 DEF Extended
<1>5. Kept(patch, k + 1, s)
  <2>1. ASSUME NEW m \in 1..n, NEW q \in 1..Len(p.hunks[m].lines)
        PROVE  q \in 1..Len(s.hunks[m].lines) /\ s.hunks[m].lines[q] = p.hunks[m].lines[q]
    <3>1. CASE m # n
      BY <1>4, <2>1, <3>1
    <3>2. CASE m = n
      <4>1. q \in 1..Len(old) /\ q \in 1..(Len(old) + 1)
        <5>1. q \in 1..Len(old)
          BY <2>1, <3>2
        <5> HIDE DEF old
        <5> QED BY <1>3, <5>1
      <4>2. s.hunks[m].lines = Append(old, l)
        BY <1>4, <3>2
      <4>3. Append(old, l)[q] = old[q] /\ q \in 1..Len(Append(old, l))
        BY <1>3, <4>1, Zenon
      <4> QED BY <3>2, <4>2, <4>3
    <3> QED BY <3>1, <3>2
  <2>2. \A m \in 1..Len(p.hunks) : \A q \in 1..Len(p.hunks[m].lines) :
           \E m_1 \in 1..Len(s.hunks) : \E q_1 \in 1..Len(s.hunks[m_1].lines) :
               s.hunks[m_1].lines[q_1] = p.hunks[m].lines[q]
    BY <1>4, <2>1, Zenon
  <2>3. ASSUME NEW g \in 1..k, InHunk(patch, g, k + 1)
        PROVE  \E m \in 1..Len(s.hunks) : \E q \in 1..Len(s.hunks[m].lines) :
                  Stands(patch, g, k + 1, s.hunks[m].lines[q])
    <3>1. InHunk(patch, h, k + 1)
      BY <1>1 DEF Stands
    <3>2. \A i \in (h + 1)..k : i \in (h + 1)..(k + 1)
      BY <1>0
    <3>3. \A i \in (g + 1)..k : i \in (g + 1)..(k + 1)
      BY <1>0
    <3>4. g = h
      BY <1>0, <2>3, <3>1, <3>2, <3>3, OneHeader DEF InHunk, LineKinds
    <3>5. Len(old) + 1 \in 1..Len(Append(old, l))
      <4> HIDE DEF old
      <4> QED BY <1>3
    <3>6. s.hunks[n].lines[Len(old) + 1] = l /\ Len(old) + 1 \in 1..Len(s.hunks[n].lines)
      BY <1>3, <1>4, <3>5
    <3> QED BY <1>1, <1>2, <1>4, <3>4, <3>6, Zenon
  <2> QED BY <1>0, <2>2, <2>3, StillKept DEF LossInv
<1>6. Goes(patch, k + 1, s)
  BY <1>4 DEF Goes
<1>7. s.cut => Flawed(patch, k + 1)
  BY <1>0, <1>4, StillFlawed DEF LossInv
<1> QED BY <1>5, <1>6, <1>7 DEF LossInv, s

LEMMA OtherKeeps ==
    ASSUME NEW patch, IsPatch(patch), NEW k \in 0..(Len(patch) - 1), NEW p, RowInv(patch, k, p),
           LossInv(patch, k, p), patch[k + 1].row = "other", p.open
    PROVE  LossInv(patch, k + 1, ReadRow(p, patch[k + 1]))
<1> DEFINE s == [p EXCEPT !.open = FALSE, !.cut = TRUE]
<1>0. k \in Nat
  BY RowNumbers, Zenon
<1>1. ReadRow(p, patch[k + 1]) = s
  BY DEF ReadRow, LineKinds
<1>2. s.hunks = p.hunks
  BY DEF RowInv, Readers
<1> HIDE DEF s
<1>3. patch[k + 1].row \notin LineKinds \cup {"header", "no newline"}
  BY DEF LineKinds
<1>4. Kept(patch, k + 1, s)
  BY <1>0, <1>2, <1>3, KeptLonger DEF LossInv
<1>5. \A h \in 1..k : k + 1 \in (h + 1)..(k + 1) /\ h \in 1..(k + 1)
  BY <1>0
<1>6. Goes(patch, k + 1, s)
  <2> SUFFICES ASSUME NEW h \in 1..(k + 1), patch[h].row = "header",
                      \A i \in (h + 1)..(k + 1) : patch[i].row \in LineKinds \cup {"no newline"}
               PROVE  FALSE
    BY DEF Goes
  <2>1. h # k + 1
    BY <1>3
  <2>2. h \in 1..k
    BY <2>1, RowNumbers, Zenon
  <2> QED BY <1>3, <1>5, <2>2
<1>7. Flawed(patch, k + 1)
  <2>1. PICK h \in 1..k : ReadsHunk(patch, k, p, h)
    BY DEF RowInv, Opened
  <2> QED BY <1>5, <2>1 DEF ReadsHunk, Flawed
<1> QED BY <1>1, <1>4, <1>6, <1>7 DEF LossInv

LEMMA RestKeeps ==
    ASSUME NEW patch, IsPatch(patch), NEW k \in 0..(Len(patch) - 1), NEW p, RowInv(patch, k, p),
           LossInv(patch, k, p), patch[k + 1].row # "header",
           p.open => patch[k + 1].row = "no newline"
    PROVE  LossInv(patch, k + 1, p)
<1>0. k \in Nat
  BY RowNumbers, Zenon
<1>1. \A h \in 1..k : \A i \in (h + 1)..k : i \in (h + 1)..(k + 1)
  <2> SUFFICES ASSUME NEW h \in 1..k PROVE (h + 1)..k \subseteq (h + 1)..(k + 1)
    BY Zenon
  <2>1. h \in Nat
    BY <1>0, OneRowMore, Zenon
  <2> QED BY <1>0, <2>1, Wider
<1>2. ASSUME NEW h \in 1..k, patch[h].row = "header",
             \A i \in (h + 1)..(k + 1) : patch[i].row \in LineKinds \cup {"no newline"}
      PROVE  p.open
  BY <1>1, <1>2 DEF LossInv, Goes
<1>3. Kept(patch, k + 1, p)
  <2>1. ASSUME NEW h \in 1..k, InHunk(patch, h, k + 1), patch[k + 1].row \in LineKinds PROVE FALSE
    <3>1. p.open
      BY <1>2, <2>1 DEF InHunk
    <3> QED BY <2>1, <3>1 DEF LineKinds
  <2> QED BY <1>0, <2>1, KeptLonger, Zenon DEF LossInv
<1>4. Goes(patch, k + 1, p)
  <2>1. \A h \in 1..(k + 1) : patch[h].row = "header" => h \in 1..k
    <3>1. \A h \in 1..(k + 1) : h = k + 1 \/ h \in 1..k
      BY RowNumbers, Zenon
    <3> QED BY <3>1
  <2> QED BY <1>2, <2>1, Zenon DEF Goes
<1>5. p.cut => Flawed(patch, k + 1)
  BY <1>0, StillFlawed DEF LossInv
<1> QED BY <1>3, <1>4, <1>5 DEF LossInv

LEMMA RowKeeps ==
    ASSUME NEW patch, IsPatch(patch), NEW k \in 0..(Len(patch) - 1), NEW p, RowInv(patch, k, p),
           LossInv(patch, k, p)
    PROVE  LossInv(patch, k + 1, ReadRow(p, patch[k + 1]))
<1> DEFINE r == patch[k + 1]
<1>1. p.open \in BOOLEAN
  BY DEF RowInv, Readers
<1>2. r.row \in LineKinds \cup {"header", "no newline", "other"}
  BY RowNumbers, PatchRows, Zenon
<1>3. CASE r.row = "header"
  BY <1>3, HeaderKeeps
<1>4. CASE r.row \in LineKinds /\ p.open
  BY <1>4, LineKeeps
<1>5. CASE r.row = "other" /\ p.open
  BY <1>5, OtherKeeps
<1>6. CASE r.row # "header" /\ (p.open => r.row = "no newline")
  <2>1. ReadRow(p, r) = p
    BY <1>6 DEF ReadRow, LineKinds
  <2> QED BY <1>6, <2>1, RestKeeps
<1> QED BY <1>1, <1>2, <1>3, <1>4, <1>5, <1>6

LEMMA AllKept ==
    ASSUME NEW patch, IsPatch(patch)
    PROVE  LossInv(patch, Len(patch), Parsed(patch))
<1>1. Len(patch) \in Nat /\ DOMAIN patch = 1..Len(patch)
  BY PatchRows
<1>2. /\ Parsed(patch) = Read(patch, Len(patch)) /\ Read(patch, 0) = Unread
      /\ \A n \in 0..(Len(patch) - 1) : Read(patch, n + 1) = ReadRow(Read(patch, n), patch[n + 1])
  BY <1>1, RowByRow
<1> DEFINE Inv(k) == RowInv(patch, k, Read(patch, k)) /\ LossInv(patch, k, Read(patch, k))
           Bad == {k \in 0..Len(patch) : ~Inv(k)}
<1>3. Inv(0)
  <2>1. LossInv(patch, 0, Unread)
    BY DEF LossInv, Kept, Goes, Unread
  <2> QED BY <1>2, <2>1, NothingRead
<1>4. ASSUME NEW k \in 0..(Len(patch) - 1), Inv(k) PROVE Inv(k + 1)
  BY <1>2, <1>4, RowRead, RowKeeps
<1>5. Bad = {}
  <2> HIDE DEF Inv
  <2> SUFFICES ASSUME Bad # {} PROVE FALSE
    OBVIOUS
  <2>1. Bad \in SUBSET Nat
    BY <1>1
  <2>2. PICK k \in Bad : \A j \in Bad : k <= j
    <3> HIDE DEF Bad
    <3> QED BY <2>1, LeastNatural
  <2>3. k # 0
    BY <1>3
  <2>4. /\ k - 1 \in 0..(Len(patch) - 1) /\ k - 1 \in 0..Len(patch)
        /\ ~(k <= k - 1) /\ (k - 1) + 1 = k
    BY <1>1, <2>3
  <2>5. Inv(k - 1)
    BY <2>2, <2>4
  <2>6. Inv((k - 1) + 1)
    BY <1>4, <2>4, <2>5
  <2>7. Inv(k)
    BY <2>4, <2>6
  <2> QED BY <2>7
<1>6. Len(patch) \in 0..Len(patch)
  BY <1>1
<1> QED BY <1>2, <1>5, <1>6

LEMMA CutUnlessWhole ==
    ASSUME NEW patch, IsPatch(patch), Whole(patch)
    PROVE  ~Parsed(patch).cut /\ ~CutShort(Parsed(patch))
<1> DEFINE p == Parsed(patch)
           N == Len(patch)
<1>1. N \in Nat /\ DOMAIN patch = 1..N
  BY PatchRows
<1>2. (p.cut => Flawed(patch, N)) /\ Opened(patch, N, p)
  BY AllRead, AllKept DEF LossInv, RowInv
<1> HIDE DEF p, N
<1>3. \A h \in 1..N : patch[h].row = "header" =>
         /\ \A i \in 1..N : i > h => patch[i].row # "other"
         /\ \E e \in h..N : (e = N \/ patch[e + 1].row = "header") /\ AsAnnounced(patch, h, e)
  BY <1>1 DEF Whole, N
<1>4. ASSUME NEW h \in 1..N, patch[h].row = "header", NEW e \in h..N,
             e = N \/ patch[e + 1].row = "header", \A i \in (h + 1)..e : patch[i].row # "header",
             ~AsAnnounced(patch, h, e)
      PROVE  FALSE
  <2>1. PICK d \in h..N : (d = N \/ patch[d + 1].row = "header") /\ AsAnnounced(patch, h, d)
    BY <1>3, <1>4
  <2>2. \A i \in (h + 1)..d : patch[i].row # "header"
    BY <2>1 DEF AsAnnounced
  <2>3. d = e \/ (d # N /\ d + 1 \in (h + 1)..e) \/ (e # N /\ e + 1 \in (h + 1)..d)
    BY <1>1
  <2>4. d # e
    BY <1>4, <2>1
  <2>5. ~(d # N /\ d + 1 \in (h + 1)..e)
    BY <1>4, <2>1
  <2>6. ~(e # N /\ e + 1 \in (h + 1)..d)
    BY <1>4, <2>2
  <2> QED BY <2>3, <2>4, <2>5, <2>6
<1>5. ~Flawed(patch, N)
  <2> SUFFICES ASSUME NEW h \in 1..N, patch[h].row = "header",
                      \/ \E i \in (h + 1)..N : patch[i].row = "other"
                      \/ \E e \in h..(N - 1) : /\ patch[e + 1].row = "header"
                                               /\ \A i \in (h + 1)..e : patch[i].row # "header"
                                               /\ ~AsAnnounced(patch, h, e)
               PROVE  FALSE
    BY DEF Flawed
  <2>1. \A i \in (h + 1)..N : i \in 1..N /\ i > h
    BY <1>1
  <2>2. h..(N - 1) \subseteq h..N
    BY <1>1
  <2> QED BY <1>3, <1>4, <2>1, <2>2
<1>6. ~CutShort(p)
  <2> SUFFICES ASSUME CutShort(p) PROVE FALSE
    OBVIOUS
  <2>1. p.open
    BY DEF CutShort
  <2>2. PICK h \in 1..N : /\ patch[h].row = "header"
                          /\ \A i \in (h + 1)..N : patch[i].row # "header"
                          /\ ~AsAnnounced(patch, h, N)
    BY <1>1, <1>2, <2>1, NotAsAnnounced
  <2>3. N \in h..N
    BY <1>1
  <2> QED BY <1>4, <2>2, <2>3
<1> QED BY <1>2, <1>5, <1>6 DEF p

LEMMA ShownSupported ==
    ASSUME NEW patch, IsPatch(patch), NEW side \in Sides
    PROVE  LinesShown(patch, side) \subseteq
               UNION {Commentable(hunk, side) : hunk \in ToSet(Parsed(patch).hunks)}
<1> DEFINE p == Parsed(patch)
           N == Len(patch)
<1>1. N \in Nat /\ Kept(patch, N, p) /\ p.hunks \in Seq(HunksOf(patch)) /\ DOMAIN patch = 1..N
  BY PatchRows, AllRead, AllKept DEF RowInv, Readers, LossInv
<1> SUFFICES ASSUME NEW h \in 1..N, NEW j \in 1..N, InHunk(patch, h, j), OnSide(patch[j], side)
             PROVE  Begins(patch, h, side) + Count(patch, h, j - 1, side) \in
                        UNION {Commentable(hunk, side) : hunk \in ToSet(p.hunks)}
  BY DEF LinesShown, Begins, Count
<1> HIDE DEF p, N
<1>2. patch[j].row \in LineKinds /\ patch[j].row # (IF side = "RIGHT" THEN "deletion" ELSE "addition")
  BY DEF OnSide
<1>3. PICK m \in 1..Len(p.hunks) : \E q \in 1..Len(p.hunks[m].lines) :
          Stands(patch, h, j, p.hunks[m].lines[q])
  BY <1>1, <1>2 DEF Kept
<1>4. PICK q \in 1..Len(p.hunks[m].lines) : Stands(patch, h, j, p.hunks[m].lines[q])
  BY <1>3
<1> DEFINE l == p.hunks[m].lines[q]
<1>5. l.kind = patch[j].row /\ l[side] = Begins(patch, h, side) + Count(patch, h, j - 1, side)
  BY <1>4 DEF Stands
<1>6. l[side] \in Nat
  <2>1. Begins(patch, h, side) \in Nat
    BY <1>1, PatchRows DEF Begins, InHunk
  <2>2. h \in Nat /\ j - 1 \in Nat
    BY <1>1
  <2>3. Count(patch, h, j - 1, side) \in Nat
    BY <2>2, CountType
  <2> QED BY <1>5, <2>1, <2>3
<1>7. l \in ToSet(p.hunks[m].lines) /\ p.hunks[m] \in ToSet(p.hunks)
  <2>1. p.hunks[m] \in HunksOf(patch) /\ DOMAIN p.hunks = 1..Len(p.hunks)
    BY <1>1
  <2>2. p.hunks[m].lines \in Seq(LinesOf(patch))
    BY <2>1 DEF HunksOf
  <2>3. DOMAIN p.hunks[m].lines = 1..Len(p.hunks[m].lines)
    BY <2>2
  <2> QED BY <2>1, <2>3 DEF ToSet
<1>8. Supports(l, side)
  BY <1>2, <1>5, <1>6 DEF Supports, NoLine
<1>9. l[side] \in Commentable(p.hunks[m], side)
  BY <1>7, <1>8 DEF Commentable
<1> QED BY <1>5, <1>7, <1>9

\* A patch is read exactly, whatever its rows: it is called cut off just if it is not whole, and
\* the lines that a comment may be attached to are just those it shows (parseGitHubFilePatch,
\* supportsInlineSide).
THEOREM PatchReadExactly ==
    ASSUME NEW patch, IsPatch(patch)
    PROVE  /\ (Parsed(patch).cut \/ CutShort(Parsed(patch))) <=> ~Whole(patch)
           /\ \A side \in Sides :
                 UNION {Commentable(hunk, side) : hunk \in ToSet(Parsed(patch).hunks)}
                     = LinesShown(patch, side)
<1>1. Parsed(patch).cut \in BOOLEAN
  BY AllRead DEF RowInv, Readers
<1>2. (Parsed(patch).cut \/ CutShort(Parsed(patch))) <=> ~Whole(patch)
  BY <1>1, WholeUnlessCut, CutUnlessWhole, Zenon
<1>3. ASSUME NEW side \in Sides
      PROVE  UNION {Commentable(hunk, side) : hunk \in ToSet(Parsed(patch).hunks)}
                 \subseteq LinesShown(patch, side)
  BY SupportedShown
<1> QED BY <1>2, <1>3, ShownSupported

-----------------------------------------------------------------------------
(* Where a finding is placed *)

\* A set of the indices of a sequence has its minimum in it.
LEMMA SmallestIndex ==
    ASSUME NEW n \in Nat, NEW I \in SUBSET (1..n), I # {}
    PROVE  Min(I) \in I
<1>1. I \in SUBSET Nat
  OBVIOUS
<1>2. \E x \in I : \A y \in I : x <= y
  BY <1>1, LeastNatural
<1> QED BY <1>2 DEF Min

\* findFile: a file that has the path, or had it.
LEMMA FileFound ==
    ASSUME NEW r \in Revisions, NEW path, FindFile(Diff[r], path) # 0
    PROVE  LET i == FindFile(Diff[r], path)
           IN  /\ i \in 1..Len(Files[r])
               /\ Diff[r][i] = FilePatch(Files[r][i])
               /\ Diff[r][i].new = path \/ Diff[r][i].old = path
<1> DEFINE n == Len(Files[r])
           I == {i \in 1..n : Diff[r][i].new = path \/ Diff[r][i].old = path}
<1>1. n \in Nat
  <2>1. Files[r] \in Seq(ToSet(Files[r]))
    BY FilesAssumption
  <2> HIDE DEF ToSet
  <2> QED BY <2>1
<1>2. Diff[r] = [i \in 1..n |-> FilePatch(Files[r][i])]
  BY DEF Diff, ParsedDiff
<1>3. Len(Diff[r]) = n
  BY <1>1, <1>2
<1>4. FindFile(Diff[r], path) = IF I # {} THEN Min(I) ELSE 0
  BY <1>3 DEF FindFile, SelectInSeq
<1>5. FindFile(Diff[r], path) \in I
  BY <1>1, <1>4, SmallestIndex
<1> QED BY <1>2, <1>5

\* The lines shown have numbers.
LEMMA ShownAreNumbers ==
    ASSUME NEW patch, IsPatch(patch), NEW side
    PROVE  LinesShown(patch, side) \subseteq Nat
<1> SUFFICES ASSUME NEW h \in 1..Len(patch), NEW j \in 1..Len(patch), InHunk(patch, h, j)
             PROVE  Begins(patch, h, side) + Cardinality(Between(patch, h, j - 1, side)) \in Nat
  BY DEF LinesShown, Begins
<1>1. Len(patch) \in Nat /\ DOMAIN patch = 1..Len(patch)
  BY PatchRows
<1>2. Begins(patch, h, side) \in Nat
  BY <1>1, PatchRows DEF Begins, InHunk
<1>3. Cardinality(Between(patch, h, j - 1, side)) \in Nat
  <2>1. h \in Nat /\ j - 1 \in Nat
    BY <1>1
  <2> QED BY <2>1, CountType DEF Count
<1> QED BY <1>2, <1>3

\* The location of finding f in file i of revision r: on lines that the whole patch shows.
OnItsLine(r, f, i) ==
    LET loc == Locations[r][f]
    IN  /\ i \in Meant(f, Files[r]) \cap Entire[r]
        /\ loc.path = Files[r][i].filename /\ loc.line = f.line /\ loc.side \in Sides
        /\ (IF loc.start = NoLine THEN loc.line ELSE loc.start)..loc.line \subseteq Shown[r][i][loc.side]

LEMMA FileMeant ==
    ASSUME NEW r \in Revisions, NEW i \in 1..Len(Files[r]), NEW f \in Reported,
           FilePatch(Files[r][i]).new = f.path \/ FilePatch(Files[r][i]).old = f.path
    PROVE  /\ i \in Meant(f, Files[r])
           /\ (IF FilePatch(Files[r][i]).new # NoPath THEN FilePatch(Files[r][i]).new
               ELSE FilePatch(Files[r][i]).old) = Files[r][i].filename
<1> DEFINE file == Files[r][i]
           now == {k \in 1..Len(Files[r]) : Files[r][k].filename = f.path}
           once == {k \in 1..Len(Files[r]) : Files[r][k].previous = f.path}
<1>1. /\ Files[r] \in Seq(ToSet(Files[r]))
      /\ \A k, l \in DOMAIN Files[r] :
            k # l => Files[r][k].filename \notin {Files[r][l].filename, Files[r][l].previous}
  BY FilesAssumption
<1>2. DOMAIN Files[r] = 1..Len(Files[r])
  <2> HIDE DEF ToSet
  <2> QED BY <1>1
<1>3. file \in ToSet(Files[r])
  BY <1>2 DEF ToSet
<1>4. /\ file.filename # NoPath
      /\ file.status = "removed" => file.previous = file.filename
  BY <1>3, FilesAssumption
<1>5. f.path # NoPath
  BY FindingsAssumption
<1>6. /\ FilePatch(file).new = IF file.status = "removed" THEN NoPath ELSE file.filename
      /\ FilePatch(file).old = IF file.status = "added" THEN NoPath ELSE file.previous
  BY DEF FilePatch
<1>7. file.filename = f.path \/ file.previous = f.path
  BY <1>5, <1>6
<1>8. (IF FilePatch(file).new # NoPath THEN FilePatch(file).new ELSE FilePatch(file).old) = file.filename
  BY <1>4, <1>6
<1>9. i \in IF now # {} THEN now ELSE once
  <2>1. CASE file.filename = f.path
    BY <2>1
  <2>2. CASE file.previous = f.path /\ now # {}
    <3>1. PICK k \in now : TRUE
      BY <2>2
    <3>2. k = i
      BY <1>1, <1>2, <2>2, <3>1
    <3> QED BY <3>1, <3>2
  <2>3. CASE file.previous = f.path /\ now = {}
    BY <2>3
  <2> QED BY <1>7, <2>1, <2>2, <2>3
<1> QED BY <1>8, <1>9 DEF Meant

\* mapFindingToInline guesses nothing.
LEMMA MappedOnItsLine ==
    ASSUME NEW r \in Revisions, NEW f \in Reported, Locations[r][f] # Nowhere
    PROVE  \E i \in 1..Len(Files[r]) : OnItsLine(r, f, i)
<1> DEFINE i == FindFile(Diff[r], f.path)
           file == Diff[r][i]
           side == SideOf(file, f)
           loc == Locations[r][f]
<1>1. loc = MapFinding(Diff[r], f)
  BY DEF Locations
<1>2. i # 0 /\ Mappable(file, f, side)
  BY <1>1, Zenon DEF MapFinding
<1>3. loc = [path |-> IF file.new # NoPath THEN file.new ELSE file.old,
             line |-> f.line, side |-> side, start |-> f.start]
  BY <1>1, <1>2, Zenon DEF MapFinding
<1>4. /\ i \in 1..Len(Files[r]) /\ file = FilePatch(Files[r][i])
      /\ file.new = f.path \/ file.old = f.path
  BY <1>2, FileFound, Zenon
<1>5. side \in Sides
  BY FindingsAssumption DEF SideOf, Sides
<1> DEFINE g == Files[r][i]
<1> HIDE DEF i, side, loc
<1>6. IsPatch(g.patch) /\ g.truncated \in BOOLEAN /\ g.binary \in BOOLEAN
  <2>1. /\ Files[r] \in Seq(ToSet(Files[r]))
        /\ \A x \in ToSet(Files[r]) :
              IsPatch(x.patch) /\ x.truncated \in BOOLEAN /\ x.binary \in BOOLEAN
    BY FilesAssumption
  <2>2. DOMAIN Files[r] = 1..Len(Files[r])
    <3> HIDE DEF ToSet
    <3> QED BY <2>1
  <2> QED BY <1>4, <2>1, <2>2 DEF ToSet
<1>7. /\ file.hunks = Parsed(g.patch).hunks /\ file.binary = g.binary
      /\ file.truncated = (g.truncated \/ Parsed(g.patch).cut \/ CutShort(Parsed(g.patch)))
  BY <1>4 DEF FilePatch
<1>8. /\ ~file.binary /\ ~file.truncated /\ HasLine(file, f.line, side)
      /\ f.start # NoLine => HasRange(file, f.start, f.line, side)
  BY <1>2 DEF Mappable
<1>9. i \in Entire[r]
  <2>1. Whole(g.patch)
    BY <1>6, <1>7, <1>8, WholeUnlessCut
  <2> QED BY <1>4, <1>7, <1>8, <2>1 DEF Entire
<1>10. Shown[r][i][side] = LinesShown(g.patch, side)
  BY <1>4, <1>5 DEF Shown
<1>11. (IF f.start = NoLine THEN f.line ELSE f.start)..f.line \subseteq LinesShown(g.patch, side)
  <2>1. CASE f.start # NoLine
    BY <1>5, <1>6, <1>7, <1>8, <2>1, RangeShown
  <2>2. CASE f.start = NoLine
    <3>1. f.line \in LinesShown(g.patch, side) /\ f.line \in Nat
      BY <1>5, <1>6, <1>7, <1>8, RangeShown, ShownAreNumbers
    <3>2. f.line..f.line = {f.line}
      BY <3>1
    <3> QED BY <2>2, <3>1, <3>2
  <2> QED BY <2>1, <2>2
<1>12. i \in Meant(f, Files[r]) /\ loc.path = g.filename
  BY <1>3, <1>4, FileMeant
<1>13. loc.line = f.line /\ loc.side = side /\ loc.start = f.start
  BY <1>3
<1>14. OnItsLine(r, f, i)
  BY <1>5, <1>9, <1>10, <1>11, <1>12, <1>13 DEF OnItsLine, loc
<1> QED BY <1>4, <1>14

-----------------------------------------------------------------------------
(* Where a comment stands *)

\* Its place is that of the finding it is about.
PlaceOf(rev, loc, f) ==
    /\ f \in Reported /\ Locations[rev][f] # Nowhere
    /\ loc = [path |-> Locations[rev][f].path, line |-> Locations[rev][f].line,
              side |-> Locations[rev][f].side]

\* An update replaces what a comment is about, and leaves it with the first finding's range.
Posted(c) ==
    /\ c.rev \in Revisions /\ PlaceOf(c.rev, c.loc, c.about)
    /\ \E g \in Reported : PlaceOf(c.rev, c.loc, g) /\ c.start = Locations[c.rev][g].start

Keeps(r) ==
    /\ Posted(r.comment)
    /\ r.id # 0 => comments[r.id].rev = r.comment.rev /\ comments[r.id].loc = r.comment.loc

Standing ==
    /\ \A i \in 1..Len(comments) : Posted(comments[i])
    /\ \A r \in adrift : Keeps(r)

\* A request served puts comments nowhere else.
LEMMA ServedStands ==
    ASSUME comments \in Seq(Threads), \A i \in 1..Len(comments) : Posted(comments[i]),
           NEW r, Fits(r), Keeps(r), Served(r)
    PROVE  \A i \in 1..Len(comments') : Posted(comments'[i])
<1>1. Len(comments) \in Nat /\ r.id \in 0..Len(comments) /\ r.comment \in Threads
  BY DEF Fits
<1>2. CASE r.id = 0
  <2>1. comments' = Append(comments, r.comment)
    BY <1>2 DEF Served
  <2>2. /\ Len(comments') = Len(comments) + 1 /\ comments'[Len(comments) + 1] = r.comment
        /\ \A i \in 1..Len(comments) : comments'[i] = comments[i]
    BY <1>1, <2>1
  <2>3. \A i \in 1..(Len(comments) + 1) : i \in 1..Len(comments) \/ i = Len(comments) + 1
    BY <1>1
  <2>4. Posted(r.comment)
    BY DEF Keeps
  <2> QED BY <2>2, <2>3, <2>4, Zenon
<1>3. CASE r.id # 0
  <2> DEFINE old == comments[r.id]
             new == WithProse(old, r.comment)
  <2>1. comments' = [comments EXCEPT ![r.id] = new] /\ r.id \in 1..Len(comments)
    BY <1>1, <1>3 DEF Served
  <2>2. /\ Len(comments') = Len(comments) /\ comments'[r.id] = new
        /\ \A i \in 1..Len(comments) : i # r.id => comments'[i] = comments[i]
    <3> HIDE DEF new
    <3> QED BY <1>1, <2>1
  <2>3. /\ new.rev = old.rev /\ new.loc = old.loc /\ new.start = old.start
        /\ new.about = r.comment.about
    BY DEF WithProse
  <2>4. Posted(old) /\ Posted(r.comment) /\ old.rev = r.comment.rev /\ old.loc = r.comment.loc
    BY <1>3, <2>1 DEF Keeps
  <2>5. Posted(new)
    <3> HIDE DEF old, new
    <3> QED BY <2>3, <2>4 DEF Posted
  <2> HIDE DEF old, new
  <2> QED BY <2>2, <2>4, <2>5
<1> QED BY <1>2, <1>3

\* A request that waits still fits where it will be served.
LEMMA StillKeeps ==
    ASSUME comments \in Seq(Threads), NEW r, Fits(r), Served(r) \/ UNCHANGED comments,
           NEW q, Fits(q), Keeps(q)
    PROVE  Keeps(q)'
<1>1. CASE UNCHANGED comments
  BY <1>1 DEF Keeps, Posted, PlaceOf
<1>2. CASE Served(r)
  <2>1. \A i \in 1..Len(comments) :
           comments'[i].rev = comments[i].rev /\ comments'[i].loc = comments[i].loc
    BY <1>2, ServedEffect
  <2>2. q.id # 0 => q.id \in 1..Len(comments)
    <3>1. q.id \in 0..Len(comments) /\ Len(comments) \in Nat
      BY DEF Fits
    <3> QED BY <3>1
  <2> QED BY <2>1, <2>2 DEF Keeps
<1> QED BY <1>1, <1>2

\* What a finding would be posted as stands in its place.
LEMMA RequestKeeps ==
    ASSUME PublicationInv, NeedsRequest
    PROVE  Keeps(Request)
<1>1. snapshot \in Revisions /\ Finding \in Reported /\ Location(Finding) # Nowhere
  BY AtHand DEF PublicationInv, PublicationTypes, NeedsRequest
<1>2. /\ Request.comment = Comment(Finding)
      /\ Request.id # 0 => /\ comments[Request.id].rev = snapshot
                           /\ comments[Request.id].loc = Comment(Finding).loc
  BY RequestFits
<1>3. /\ Comment(Finding).rev = snapshot /\ Comment(Finding).about = Finding
      /\ Comment(Finding).start = Locations[snapshot][Finding].start
      /\ PlaceOf(snapshot, Comment(Finding).loc, Finding)
  BY <1>1 DEF Comment, Location, PlaceOf
<1> QED BY <1>1, <1>2, <1>3 DEF Keeps, Posted

LEMMA InitStands == Init => Standing
BY DEF Init, Standing

LEMMA StepStands == PublicationInv /\ Standing /\ [Next]_vars => Standing'
<1> SUFFICES ASSUME PublicationInv, Standing, [Next]_vars PROVE Standing'
  OBVIOUS
<1>1. /\ comments \in Seq(Threads) /\ \A r \in adrift : Fits(r)
      /\ \A i \in 1..Len(comments) : Posted(comments[i])
      /\ \A r \in adrift : Keeps(r)
  BY DEF PublicationInv, PublicationTypes, Standing
<1>2. CASE UNCHANGED <<comments, adrift>>
  BY <1>2 DEF Standing, Keeps, Posted, PlaceOf
<1>3. ASSUME NEW r, Fits(r), Keeps(r), Served(r) \/ UNCHANGED comments,
             adrift' \subseteq adrift \cup {r}
      PROVE  Standing'
  <2>1. \A i \in 1..Len(comments') : Posted(comments'[i])
    BY <1>1, <1>3, ServedStands
  <2>2. \A q \in adrift' : Keeps(q)'
    BY <1>1, <1>3, StillKeeps
  <2>3. \A i \in 1..Len(comments') : Posted(comments[i])'
    BY <2>1 DEF Posted, PlaceOf
  <2> QED BY <2>2, <2>3 DEF Standing
<1>4. CASE Publish
  <2>1. NeedsRequest /\ Served(Request) /\ adrift' = adrift
    BY <1>4 DEF Publish
  <2> QED BY <1>3, <2>1, RequestFits, RequestKeeps
<1>5. CASE PublishFails
  <2>1. /\ NeedsRequest
        /\ Served(Request) \/ UNCHANGED comments
        /\ adrift' \subseteq adrift \cup {Request}
    BY <1>5 DEF PublishFails
  <2> QED BY <1>3, <2>1, RequestFits, RequestKeeps
<1>6. CASE Lands
  <2>1. PICK r \in adrift : Served(r) /\ adrift' = adrift \ {r}
    BY <1>6 DEF Lands
  <2> QED BY <1>1, <1>3, <2>1
<1> QED
  <2>1. CASE Begin \/ ListThreads \/ AssertSnapshot
    BY <1>2, <2>1 DEF Begin, ListThreads, AssertSnapshot, remoteVars
  <2>2. CASE SummaryOnly \/ SkipDuplicate
    BY <1>2, <2>2 DEF SummaryOnly, SkipDuplicate, remoteVars
  <2>3. CASE PublishSummary \/ RunFails \/ HeadMoves
    BY <1>2, <2>3 DEF PublishSummary, RunFails, HeadMoves
  <2>4. CASE UNCHANGED vars
    BY <1>2, <2>4 DEF vars, remoteVars
  <2> QED BY <1>4, <1>5, <1>6, <2>1, <2>2, <2>3, <2>4 DEF Next, PublicationStep

\* It is on the line of its finding, and its range is that of a finding in the same place.
LEMMA StandsOnItsLine == PublicationInv /\ Standing => InlineOnItsLine
<1> SUFFICES ASSUME PublicationInv, Standing, NEW c \in ToSet(comments)
             PROVE  \E i \in Meant(c.about, Files[c.rev]) \cap Entire[c.rev] :
                       /\ c.loc.path = Files[c.rev][i].filename
                       /\ c.loc.line = c.about.line
                       /\ (IF c.start = NoLine THEN c.loc.line ELSE c.start)..c.loc.line
                             \subseteq Shown[c.rev][i][c.loc.side]
  BY DEF InlineOnItsLine
<1>1. Posted(c)
  <2>1. DOMAIN comments = 1..Len(comments)
    BY DEF PublicationInv, PublicationTypes
  <2> QED BY <2>1 DEF Standing, ToSet
<1>2. PICK g \in Reported : PlaceOf(c.rev, c.loc, g) /\ c.start = Locations[c.rev][g].start
  BY <1>1 DEF Posted
<1>3. c.rev \in Revisions /\ PlaceOf(c.rev, c.loc, c.about)
  BY <1>1 DEF Posted
<1>4. PICK i \in 1..Len(Files[c.rev]) : OnItsLine(c.rev, c.about, i)
  BY <1>3, MappedOnItsLine DEF PlaceOf
<1>5. PICK j \in 1..Len(Files[c.rev]) : OnItsLine(c.rev, g, j)
  BY <1>2, <1>3, MappedOnItsLine DEF PlaceOf
<1>6. /\ c.loc.path = Locations[c.rev][g].path /\ c.loc.path = Locations[c.rev][c.about].path
      /\ c.loc.line = Locations[c.rev][g].line /\ c.loc.line = Locations[c.rev][c.about].line
      /\ c.loc.side = Locations[c.rev][g].side
  BY <1>2, <1>3 DEF PlaceOf
<1>7. i = j
  <2>1. Files[c.rev][i].filename = Files[c.rev][j].filename
    BY <1>4, <1>5, <1>6 DEF OnItsLine
  <2>2. /\ Files[c.rev] \in Seq(ToSet(Files[c.rev]))
        /\ \A k, l \in DOMAIN Files[c.rev] :
              k # l => Files[c.rev][k].filename \notin {Files[c.rev][l].filename, Files[c.rev][l].previous}
    BY <1>3, FilesAssumption
  <2>3. DOMAIN Files[c.rev] = 1..Len(Files[c.rev])
    <3> HIDE DEF ToSet
    <3> QED BY <2>2
  <2> QED BY <2>1, <2>2, <2>3
<1> QED BY <1>2, <1>4, <1>5, <1>6, <1>7 DEF OnItsLine

\* A comment stands on a line that the complete patch of the file its finding speaks of really
\* shows, wherever in the patch, however the thread came to say what it says, and however late:
\* parseUnifiedDiff counts every line right, and mapFindingToInline guesses none.
THEOREM CommentsStand == Spec => []InlineOnItsLine
<1>1. Init => Standing
  BY InitStands
<1>2. PublicationInv /\ Standing /\ [Next]_vars => Standing'
  BY StepStands
<1>3. PublicationInv /\ Standing => InlineOnItsLine
  BY StandsOnItsLine
<1> QED BY <1>1, <1>2, <1>3, PublicationInvariance, PTL DEF Spec

-----------------------------------------------------------------------------
(* What identifies a thread *)

\* A file that has the path, or had it, is found.
LEMMA FileIsFound ==
    ASSUME NEW r \in Revisions, NEW path, NEW k \in 1..Len(Files[r]),
           FilePatch(Files[r][k]).new = path \/ FilePatch(Files[r][k]).old = path
    PROVE  FindFile(Diff[r], path) # 0
<1> DEFINE n == Len(Files[r])
           I == {i \in 1..n : Diff[r][i].new = path \/ Diff[r][i].old = path}
<1>1. n \in Nat
  <2>1. Files[r] \in Seq(ToSet(Files[r]))
    BY FilesAssumption
  <2> HIDE DEF ToSet
  <2> QED BY <2>1
<1>2. Diff[r] = [i \in 1..n |-> FilePatch(Files[r][i])]
  BY DEF Diff, ParsedDiff
<1>3. Len(Diff[r]) = n
  BY <1>1, <1>2
<1>4. FindFile(Diff[r], path) = IF I # {} THEN Min(I) ELSE 0
  BY <1>3 DEF FindFile, SelectInSeq
<1>5. k \in I
  BY <1>2
<1>6. Min(I) \in 1..n
  BY <1>1, <1>5, SmallestIndex
<1> QED BY <1>1, <1>4, <1>5, <1>6

\* The publisher looks the file up by the path to be commented on, and finds the same file.
LEMMA SameFile ==
    ASSUME NEW r \in Revisions, NEW f \in Reported, Locations[r][f] # Nowhere
    PROVE  LET i == FindFile(Diff[r], f.path)
           IN  /\ i \in 1..Len(Files[r]) /\ Diff[r][i] = FilePatch(Files[r][i])
               /\ FindFile(Diff[r], Locations[r][f].path) = i
<1> DEFINE i == FindFile(Diff[r], f.path)
           loc == Locations[r][f]
           j == FindFile(Diff[r], loc.path)
<1>1. loc = MapFinding(Diff[r], f)
  BY DEF Locations
<1>2. i # 0
  BY <1>1, Zenon DEF MapFinding
<1>3. loc.path = IF Diff[r][i].new # NoPath THEN Diff[r][i].new ELSE Diff[r][i].old
  BY <1>1, <1>2 DEF MapFinding
<1>4. /\ i \in 1..Len(Files[r]) /\ Diff[r][i] = FilePatch(Files[r][i])
      /\ Diff[r][i].new = f.path \/ Diff[r][i].old = f.path
  BY <1>2, FileFound, Zenon
<1> HIDE DEF i, loc
<1>5. loc.path = Files[r][i].filename
  BY <1>3, <1>4, FileMeant
<1>6. j # 0
  BY <1>3, <1>4, FileIsFound
<1>7. /\ j \in 1..Len(Files[r]) /\ Diff[r][j] = FilePatch(Files[r][j])
      /\ Diff[r][j].new = loc.path \/ Diff[r][j].old = loc.path
  BY <1>6, FileFound, Zenon
<1> HIDE DEF j
<1>8. /\ Files[r] \in Seq(ToSet(Files[r]))
      /\ \A k, l \in DOMAIN Files[r] :
            k # l => Files[r][k].filename \notin {Files[r][l].filename, Files[r][l].previous}
      /\ \A file \in ToSet(Files[r]) : file.filename # NoPath
  BY FilesAssumption
<1>9. DOMAIN Files[r] = 1..Len(Files[r])
  <2> HIDE DEF ToSet
  <2> QED BY <1>8
<1>10. loc.path # NoPath
  BY <1>4, <1>5, <1>8, <1>9 DEF ToSet
<1>11. Files[r][j].filename = Files[r][i].filename \/ Files[r][j].previous = Files[r][i].filename
  BY <1>5, <1>7, <1>10 DEF FilePatch
<1>12. j = i
  BY <1>4, <1>7, <1>8, <1>9, <1>11
<1> QED BY <1>4, <1>12 DEF i, j, loc

\* The hunk on which a finding is mapped spans it.
LEMMA MappedIsSpanned ==
    ASSUME NEW patch, IsPatch(patch), NEW file, file.hunks = Parsed(patch).hunks,
           NEW f \in Reported, NEW side \in Sides, Mappable(file, f, side),
           NEW loc, loc.line = f.line, loc.start = f.start, loc.side = side
    PROVE  \E h \in ToSet(file.hunks) : Spanned(h, loc) # {}
<1> DEFINE first == IF loc.start = NoLine THEN loc.line ELSE loc.start
<1>1. f.line \in Nat /\ first \in Nat
  BY FindingsAssumption
<1>2. first <= f.line /\ \E h \in ToSet(file.hunks) : first..f.line \subseteq Commentable(h, side)
  <2>1. CASE f.start = NoLine
    <3>1. PICK h \in ToSet(file.hunks) : f.line \in Commentable(h, side)
      BY DEF Mappable, HasLine
    <3>2. first..f.line = {f.line} /\ first <= f.line
      BY <1>1, <2>1
    <3> QED BY <3>1, <3>2
  <2>2. CASE f.start # NoLine
    BY <2>2 DEF Mappable, HasRange
  <2> QED BY <2>1, <2>2
<1>3. PICK h \in ToSet(file.hunks) : first..f.line \subseteq Commentable(h, side)
  BY <1>2
<1> DEFINE Within(i) == Supports(h.lines[i], loc.side) /\ h.lines[i][loc.side] \in first..loc.line
           rows == {i \in 1..Len(h.lines) : Within(i)}
<1>4. first \in first..f.line /\ f.line \in first..f.line
  BY <1>1, <1>2
<1>5. DOMAIN h.lines = 1..Len(h.lines)
  <2>1. file.hunks \in Seq(HunksOf(patch))
    BY AllRead DEF RowInv, Readers
  <2>2. h \in HunksOf(patch)
    BY <2>1 DEF ToSet
  <2>3. h.lines \in Seq(LinesOf(patch))
    BY <2>2 DEF HunksOf
  <2> QED BY <2>3
<1>6. ASSUME NEW x \in first..f.line PROVE \E i \in rows : h.lines[i][loc.side] = x
  <2>1. x \in Commentable(h, side)
    BY <1>3
  <2>2. PICK l \in ToSet(h.lines) : Supports(l, side) /\ l[side] = x
    BY <2>1 DEF Commentable
  <2>3. PICK i \in 1..Len(h.lines) : l = h.lines[i]
    BY <1>5, <2>2 DEF ToSet
  <2> QED BY <2>2, <2>3
<1> HIDE DEF first
<1>7. {first, loc.line} \subseteq {h.lines[i][loc.side] : i \in rows}
  BY <1>4, <1>6
<1>8. Spanned(h, loc) = rows
  BY <1>7 DEF Spanned, first
<1>9. rows # {}
  BY <1>4, <1>6
<1> QED BY <1>3, <1>8, <1>9

\* A finding that has a place is known by the source around it, never by its line: the location is
\* a fallback "for callers that do not have a parsed diff" (review/fingerprint.ts), and the publisher,
\* which has one, never falls back; hence threads survive the move of a hunk.
THEOREM PlacedHaveSource ==
    ASSUME NEW r \in Revisions, NEW f \in Reported, Locations[r][f] # Nowhere
    PROVE  /\ AnchorContext(Diff[r], Locations[r][f]) # NoContext
           /\ Sources[r][f] = <<"source", f.path, AnchorContext(Diff[r], Locations[r][f])>>
<1> DEFINE i == FindFile(Diff[r], f.path)
           file == Diff[r][i]
           side == SideOf(file, f)
           loc == Locations[r][f]
           g == Files[r][i]
           hunks == file.hunks
           I == {k \in 1..Len(hunks) : Spanned(hunks[k], loc) # {}}
<1>1. loc = MapFinding(Diff[r], f)
  BY DEF Locations
<1>2. i # 0 /\ Mappable(file, f, side)
  BY <1>1, Zenon DEF MapFinding
<1>3. loc.line = f.line /\ loc.side = side /\ loc.start = f.start
  BY <1>1, <1>2 DEF MapFinding
<1>4. i \in 1..Len(Files[r]) /\ file = FilePatch(g) /\ FindFile(Diff[r], loc.path) = i
  BY SameFile, Zenon
<1>5. side \in Sides
  BY FindingsAssumption DEF SideOf, Sides
<1> HIDE DEF i, side, loc
<1>6. IsPatch(g.patch)
  <2>1. Files[r] \in Seq(ToSet(Files[r])) /\ \A x \in ToSet(Files[r]) : IsPatch(x.patch)
    BY FilesAssumption
  <2>2. DOMAIN Files[r] = 1..Len(Files[r])
    <3> HIDE DEF ToSet
    <3> QED BY <2>1
  <2> QED BY <1>4, <2>1, <2>2 DEF ToSet
<1>7. hunks = Parsed(g.patch).hunks
  BY <1>4 DEF FilePatch
<1>8. hunks \in Seq(HunksOf(g.patch))
  BY <1>6, <1>7, AllRead DEF RowInv, Readers
<1>9. PICK h \in ToSet(hunks) : Spanned(h, loc) # {}
  BY <1>2, <1>3, <1>5, <1>6, <1>7, MappedIsSpanned
<1>10. Len(hunks) \in Nat /\ \E k \in 1..Len(hunks) : h = hunks[k]
  BY <1>8 DEF ToSet
<1> HIDE DEF file, hunks
<1>11. I # {} /\ I \in SUBSET (1..Len(hunks))
  BY <1>9, <1>10
<1>12. Min(I) \in 1..Len(hunks)
  BY <1>10, <1>11, SmallestIndex
<1>13. SelectInSeq(hunks, LAMBDA x : Spanned(x, loc) # {}) = Min(I)
  BY <1>11 DEF SelectInSeq
<1>14. AnchorContext(Diff[r], loc) = Window(hunks[Min(I)], loc)
  <2>1. Diff[r][FindFile(Diff[r], loc.path)].hunks = hunks
    BY <1>4 DEF hunks, file
  <2>2. SelectInSeq(Diff[r][FindFile(Diff[r], loc.path)].hunks, LAMBDA x : Spanned(x, loc) # {}) = Min(I)
    BY <1>13, <2>1
  <2>3. Min(I) # 0
    BY <1>10, <1>12
  <2> HIDE DEF I
  <2> QED BY <2>1, <2>2, <2>3, Zenon DEF AnchorContext
<1>15. Window(hunks[Min(I)], loc).side = loc.side /\ "side" \in DOMAIN Window(hunks[Min(I)], loc)
  BY DEF Window
<1>16. AnchorContext(Diff[r], loc) # NoContext
  BY <1>14, <1>15 DEF NoContext
<1> QED BY <1>16 DEF Sources, Fingerprint, loc
=============================================================================
