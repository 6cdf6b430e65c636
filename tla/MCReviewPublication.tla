-------------------------- MODULE MCReviewPublication --------------------------
(* Two heads, the second with a hunk moved; files that are changed, renamed or cut *)
(* off; findings on every kind of place.                                           *)
EXTENDS ReviewPublication

Hunk(old, oldLines, new, newLines) ==
    [row |-> "header", old |-> old, oldLines |-> oldLines, new |-> new, newLines |-> newLines,
     heading |-> "f"]
Line(kind, text) == [row |-> kind, text |-> text]

Change == <<Line("context", "k"), Line("deletion", "x"), Line("addition", "y"), Line("context", "z")>>
Second == <<Line("deletion", "u"), Line("addition", "v"), Line("addition", "v")>>

File(name, was, status, patch) ==
    [filename |-> name, previous |-> was, status |-> status, patch |-> patch,
     truncated |-> FALSE, binary |-> FALSE]

Others == <<
    File("b", "old", "renamed", <<Hunk(1, 2, 1, 1)>> \o <<Line("deletion", "q"), Line("context", "r")>>),
    File("cut", "cut", "modified", <<Hunk(1, 3, 1, 3)>> \o Change \o <<[row |-> "other"]>>),
    File("short", "short", "modified", <<Hunk(1, 9, 1, 9)>> \o Change)>>

MCFiles == <<
    <<File("a", "a", "modified",
           <<Hunk(1, 3, 1, 3)>> \o Change \o <<[row |-> "no newline"], Hunk(8, 1, 8, 2)>> \o Second)>> \o Others,
    <<File("a", "a", "modified", <<Hunk(2, 3, 3, 3)>> \o Change)>> \o Others>>

At(path, line, side) ==
    [path |-> path, line |-> line, side |-> side, start |-> NoLine, startSide |-> Unset,
     category |-> "security", severity |-> "high", sure |-> TRUE, prose |-> "p"]

OnY == At("a", 2, "RIGHT")
OnYAgain == [OnY EXCEPT !.category = "correctness", !.side = Unset, !.prose = "q"]
Reworded == [OnY EXCEPT !.prose = "r"]
OnYMoved == At("a", 4, Unset)
OnV == At("a", 9, "RIGHT")
OnX == At("a", 2, "LEFT")
Ranged == [At("a", 3, "RIGHT") EXCEPT !.start = 2, !.severity = "critical"]
Renamed == At("old", 1, "LEFT")
Cut == At("cut", 2, "RIGHT")
Short == At("short", 2, "RIGHT")
Vague == [OnV EXCEPT !.sure = FALSE]

MCResults == {<<OnY>>, <<Reworded, OnYMoved>>, <<OnY, OnYAgain>>, <<OnX, Vague, OnV>>,
              <<Cut, Ranged, Renamed>>, <<Short, Ranged, OnYMoved>>}
=============================================================================
