------------------------------- MODULE DiffMap -------------------------------
(***************************************************************************)
(* From the patches GitHub gives for a pull request to the lines a review  *)
(* comment may be attached to: parseGitHubFilePatch, mapFindingToInline    *)
(* and the publisher's source anchor, as functions of a revision's files.  *)
(*                                                                         *)
(* A row of a patch is a hunk header, a line (its kind and its text), the  *)
(* mark of a missing final newline, or anything else ("other").            *)
(***************************************************************************)
EXTENDS Integers, Sequences, SequencesExt

Sides == {"LEFT", "RIGHT"}
Unset == "unset"        \* an optional side that is not given
NoLine == -1            \* an optional line that is not given, and null; a hunk may begin at 0
NoPath == "/dev/null"   \* the path of a file on the side where it does not exist
LineKinds == {"context", "addition", "deletion"}

-----------------------------------------------------------------------------
(* parseUnifiedDiff, for the patch of one file *)

Consumed(lines, side) == Cardinality({i \in DOMAIN lines : lines[i][side] # NoLine})

\* finalizeHunk: the rows of a hunk must be as many as its header announced.
Incomplete(hunk) ==
    \/ Consumed(hunk.lines, "LEFT") # hunk.oldLines
    \/ Consumed(hunk.lines, "RIGHT") # hunk.newLines

\* The hunk being read, if any, is closed.
CutShort(p) == p.open /\ Incomplete(Last(p.hunks))

OpenHunk(p, r) ==
    [hunks |-> Append(p.hunks, [heading |-> r.heading, oldLines |-> r.oldLines,
                                newLines |-> r.newLines, lines |-> <<>>]),
     open |-> TRUE, old |-> r.old, new |-> r.new, cut |-> p.cut \/ CutShort(p)]

\* A mutant: a deleted line advances the new file too.
AddLineBoth(p, r) ==
    LET isOld == r.row # "addition"
        isNew == r.row # "deletion"
        line == [kind |-> r.row, text |-> r.text,
                 LEFT |-> IF isOld THEN p.old ELSE NoLine,
                 RIGHT |-> IF isNew THEN p.new ELSE NoLine]
    IN  [p EXCEPT !.hunks[Len(p.hunks)].lines = Append(@, line),
                  !.old = IF isOld THEN @ + 1 ELSE @,
                  !.new = @ + 1]

\* A line is numbered on the sides on which it exists.
AddLine(p, r) ==
    LET isOld == r.row # "addition"
        isNew == r.row # "deletion"
        line == [kind |-> r.row, text |-> r.text,
                 LEFT |-> IF isOld THEN p.old ELSE NoLine,
                 RIGHT |-> IF isNew THEN p.new ELSE NoLine]
    IN  [p EXCEPT !.hunks[Len(p.hunks)].lines = Append(@, line),
                  !.old = IF isOld THEN @ + 1 ELSE @,
                  !.new = IF isNew THEN @ + 1 ELSE @]

\* Rows outside a hunk carry names and modes; GitHub's own metadata replaces them.
ReadRow(p, r) ==
    CASE r.row = "header" -> OpenHunk(p, r)
      [] r.row \in LineKinds /\ p.open -> AddLine(p, r)
      [] r.row = "other" /\ p.open -> [p EXCEPT !.open = FALSE, !.cut = TRUE]
      [] OTHER -> p

Parsed(patch) ==
    FoldLeft(ReadRow, [hunks |-> <<>>, open |-> FALSE, old |-> 0, new |-> 0, cut |-> FALSE], patch)

\* parseGitHubFilePatch: names and flags come from GitHub, never from the patch.
FilePatch(f) ==
    LET p == Parsed(f.patch)
    IN  [old |-> IF f.status = "added" THEN NoPath ELSE f.previous,
         new |-> IF f.status = "removed" THEN NoPath ELSE f.filename,
         hunks |-> p.hunks,
         binary |-> f.binary,
         truncated |-> f.truncated \/ p.cut \/ CutShort(p)]

\* buildDiff: files are parsed one by one; one that is cut off spoils no other.
ParsedDiff(files) == [i \in 1..Len(files) |-> FilePatch(files[i])]

-----------------------------------------------------------------------------
(* mapFindingToInline *)

Supports(line, side) ==
    /\ line[side] # NoLine
    /\ line.kind # (IF side = "RIGHT" THEN "deletion" ELSE "addition")

Commentable(hunk, side) ==
    {l[side] : l \in {m \in ToSet(hunk.lines) : Supports(m, side)}}

HasLine(file, n, side) == \E h \in ToSet(file.hunks) : n \in Commentable(h, side)

HasRange(file, first, last, side) ==
    /\ first <= last
    /\ \E h \in ToSet(file.hunks) : first..last \subseteq Commentable(h, side)

\* The first file that bears the path, or bore it before the pull request.
FindFile(diff, path) == SelectInSeq(diff, LAMBDA f : f.new = path \/ f.old = path)

SideOf(file, finding) ==
    IF finding.side # Unset THEN finding.side
    ELSE IF HasLine(file, finding.line, "RIGHT") THEN "RIGHT" ELSE "LEFT"

Nowhere == [path |-> NoPath, line |-> NoLine, side |-> Unset, start |-> NoLine]

\* Mutants: a file whose patch is cut off is used as far as it goes.
MappableCut(file, finding, side) ==
    /\ ~file.binary
    /\ HasLine(file, finding.line, side)
    /\ finding.start = NoLine => finding.startSide = Unset
    /\ finding.start # NoLine =>
          /\ finding.startSide \in {Unset, side}
          /\ HasRange(file, finding.start, finding.line, side)

\* Nothing is guessed: not in a binary or cut off patch, not outside the hunks, and
\* not over a range that crosses hunks or sides.
Mappable(file, finding, side) ==
    /\ ~file.binary /\ ~file.truncated
    /\ HasLine(file, finding.line, side)
    /\ finding.start = NoLine => finding.startSide = Unset
    /\ finding.start # NoLine =>
          /\ finding.startSide \in {Unset, side}
          /\ HasRange(file, finding.start, finding.line, side)

MapFinding(diff, finding) ==
    LET i == FindFile(diff, finding.path)
    IN  IF i = 0 THEN Nowhere
        ELSE LET file == diff[i]
                 side == SideOf(file, finding)
             IN  IF Mappable(file, finding, side)
                 THEN [path |-> IF file.new # NoPath THEN file.new ELSE file.old,
                       line |-> finding.line, side |-> side, start |-> finding.start]
                 ELSE Nowhere

-----------------------------------------------------------------------------
(* findDiffAnchorContext *)

Anchor(l) == <<l.kind, l.text>>
NoAnchor == <<>>

\* The rows of a hunk that a location spans.
Spanned(hunk, loc) ==
    LET first == IF loc.start = NoLine THEN loc.line ELSE loc.start
        Within(i) == Supports(hunk.lines[i], loc.side) /\ hunk.lines[i][loc.side] \in first..loc.line
        rows == {i \in 1..Len(hunk.lines) : Within(i)}
    IN  IF {first, loc.line} \subseteq {hunk.lines[i][loc.side] : i \in rows} THEN rows ELSE {}

\* What surrounds them, without line numbers, so that it survives a move of the hunk.
Window(hunk, loc) ==
    LET rows == Spanned(hunk, loc)
        OnSide(l) == Supports(l, loc.side)
        target == SelectSeq(SubSeq(hunk.lines, Min(rows), Max(rows)), OnSide)
        before == SelectSeq(SubSeq(hunk.lines, 1, Min(rows) - 1), OnSide)
        after == SelectSeq(SubSeq(hunk.lines, Max(rows) + 1, Len(hunk.lines)), OnSide)
    IN  [side |-> loc.side, heading |-> hunk.heading,
         before |-> IF before = <<>> THEN NoAnchor ELSE Anchor(Last(before)),
         target |-> [i \in 1..Len(target) |-> Anchor(target[i])],
         after |-> IF after = <<>> THEN NoAnchor ELSE Anchor(Head(after))]

NoContext == <<>>

\* The publisher looks the file up again, by the path to be commented on.
AnchorContext(diff, loc) ==
    LET hunks == diff[FindFile(diff, loc.path)].hunks
        i == SelectInSeq(hunks, LAMBDA h : Spanned(h, loc) # {})
    IN  IF i = 0 THEN NoContext ELSE Window(hunks[i], loc)

-----------------------------------------------------------------------------
(* What the patch of a file shows, without a parser: the number of a row on a side *)
(* is that of its hunk plus the rows of that side between the header and it.       *)

OnSide(r, side) ==
    r.row \in LineKinds /\ r.row # (IF side = "RIGHT" THEN "deletion" ELSE "addition")

\* The rows of a side behind row h, up to row j.
Between(patch, h, j, side) == {i \in (h + 1)..j : OnSide(patch[i], side)}

\* Row j lies in the hunk whose header is row h.
InHunk(patch, h, j) ==
    /\ patch[h].row = "header" /\ h < j
    /\ \A i \in (h + 1)..j : patch[i].row \in LineKinds \cup {"no newline"}

LinesShown(patch, side) ==
    {(IF side = "RIGHT" THEN patch[p[1]].new ELSE patch[p[1]].old)
        + Cardinality(Between(patch, p[1], p[2] - 1, side)) :
     p \in {q \in (1..Len(patch)) \X (1..Len(patch)) :
              InHunk(patch, q[1], q[2]) /\ OnSide(patch[q[2]], side)}}

\* The hunk of row h ends with row e, and has the rows that its header announces.
AsAnnounced(patch, h, e) ==
    /\ \A j \in (h + 1)..e : patch[j].row # "header"
    /\ patch[h].oldLines = Cardinality(Between(patch, h, e, "LEFT"))
    /\ patch[h].newLines = Cardinality(Between(patch, h, e, "RIGHT"))

\* The patch has every row that its headers announce, and from the first header on
\* nothing else; names and modes may come before it.
Whole(patch) ==
    \A h \in DOMAIN patch : patch[h].row = "header" =>
        /\ \A i \in DOMAIN patch : i > h => patch[i].row # "other"
        /\ \E e \in h..Len(patch) :
              /\ e = Len(patch) \/ patch[e + 1].row = "header"
              /\ AsAnnounced(patch, h, e)

\* What the text of a patch can be read as; the numbers of a header are decimal digits.
IsPatch(patch) ==
    /\ patch \in Seq(ToSet(patch))
    /\ \A r \in ToSet(patch) :
          /\ r.row \in LineKinds \cup {"header", "no newline", "other"}
          /\ r.row = "header" => {r.old, r.oldLines, r.new, r.newLines} \subseteq Nat
=============================================================================
