------------------------------ MODULE EditTool ------------------------------
(***************************************************************************)
(* The edit tool of bundles/core: several replacements in one file, each   *)
(* found by its old text, located, checked for overlap and applied at      *)
(* once.                                                                   *)
(*                                                                         *)
(* A text is a sequence of characters: letters, a blank, a byte order      *)
(* mark, and a line end, which is one character whatever it is made of.    *)
(***************************************************************************)
EXTENDS Naturals, Sequences, FiniteSets, SequencesExt, FiniteSetsExt, Sorting

CONSTANTS
    Characters, \* of files and edits
    Targets,    \* the contents a file may have
    EditLists   \* the edits a call may ask for: sequences of [old, new]

LineEnds == {"lf", "crlf", "cr"}
Blank == "blank"

ASSUME TextsAssumption ==
    /\ LineEnds \subseteq Characters
    /\ Targets \subseteq Seq(Characters)
    /\ EditLists \subseteq Seq([old : Seq(Characters), new : Seq(Characters)])

VARIABLES
    target, \* the content of the file
    edits,  \* the edits of the call
    result  \* of the call; the locals a property speaks of

editVars == <<target, edits, result>>

EditInit ==
    /\ target \in Targets
    /\ edits \in EditLists
    /\ result = [error |-> "none", done |-> FALSE]

-----------------------------------------------------------------------------
(* Texts *)

NormalizeToLf(text) == [i \in DOMAIN text |-> IF text[i] \in LineEnds THEN "lf" ELSE text[i]]

RestoreLineEndings(text, ending) ==
    IF ending = "crlf" THEN [i \in DOMAIN text |-> IF text[i] = "lf" THEN "crlf" ELSE text[i]]
    ELSE text

DetectLineEnding(text) == IF Contains(text, "crlf") THEN "crlf" ELSE "lf"

\* stripBom: what precedes the content.
Bom(text) == IF text # <<>> /\ Head(text) = "bom" THEN <<"bom">> ELSE <<>>

\* splitLines: the line end at the end of the text starts no line.
SplitLines(text) ==
    LET ends == {i \in DOMAIN text : text[i] = "lf"}
        starts == {0} \cup (ends \ {Len(text)})
        order == Sorted(starts, {p \in starts \X starts : p[1] < p[2]})
        EndOf(s) == Min({i - 1 : i \in {e \in ends : e > s}} \cup {Len(text)})
    IN IF text = <<>> THEN <<>>
       ELSE [k \in DOMAIN order |-> SubSeq(text, order[k] + 1, EndOf(order[k]))]

TrimEnd(line) ==
    SubSeq(line, 1, Max({0} \cup {i \in DOMAIN line : line[i] # Blank}))

\* Joined by a line end.
Join(lines) ==
    FlattenSeq([k \in DOMAIN lines |-> IF k = 1 THEN lines[k] ELSE <<"lf">> \o lines[k]])

\* Blanks at the ends of lines go, and so does the last line end.
NormalizeForFuzzy(text) ==
    LET lines == SplitLines(text) IN Join([k \in DOMAIN lines |-> TrimEnd(lines[k])])

\* Positions count from 0, as in the source; Len(text) stands for -1.
OccursAt(text, needle, i) ==
    i + Len(needle) <= Len(text) /\ SubSeq(text, i + 1, i + Len(needle)) = needle

IndexOf(text, needle, from) ==
    Min({i \in from..Len(text) : OccursAt(text, needle, i)} \cup {Len(text)})

Includes(text, needle) == IndexOf(text, needle, 0) # Len(text) \/ needle = <<>>

\* Occurrences that do not overlap, from the left.
CountOccurrences(text, needle) ==
    LET count[from \in 0..Len(text)] ==
            LET i == IndexOf(text, needle, from)
            IN IF i = Len(text) THEN 0 ELSE 1 + count[i + Len(needle)]
    IN count[0]

-----------------------------------------------------------------------------
(* The tool *)

NormalizeEntry(edit) ==
    [old |-> NormalizeForFuzzy(NormalizeToLf(edit.old)),
     new |-> NormalizeForFuzzy(NormalizeToLf(edit.new))]

\* The first edit that is empty or changes nothing.
Validate(entries) ==
    LET empty == {k \in DOMAIN entries : entries[k].old = <<>>}
        same == {k \in DOMAIN entries : entries[k].old = entries[k].new}
    IN CASE empty \cup same = {} -> "none"
         [] empty \cup same # {} /\ Min(empty \cup same) \in empty -> "empty"
         [] OTHER -> "no changes"

\* The indices of the edits by the position of their old texts; the sort is stable.
ByPosition(base, entries) ==
    LET At(k) == IndexOf(base, entries[k].old, 0)
        Pairs == (DOMAIN entries) \X (DOMAIN entries)
    IN Sorted(DOMAIN entries, {p \in Pairs : At(p[1]) < At(p[2]) \/ (At(p[1]) = At(p[2]) /\ p[1] < p[2])})

\* The matches by position, or the first error.
Locate(entries, base) ==
    LET At(k) == IndexOf(base, entries[k].old, 0)
        order == ByPosition(base, entries)
        missing == {k \in DOMAIN entries : At(k) = Len(base)}
        duplicate == {k \in DOMAIN entries \ missing : CountOccurrences(base, entries[k].old) > 1}
        matched == [j \in DOMAIN order |->
                       [at |-> At(order[j]), length |-> Len(entries[order[j]].old),
                        new |-> entries[order[j]].new]]
        overlap == \E k \in 2..Len(matched) :
                       matched[k - 1].at + matched[k - 1].length > matched[k].at
    IN [error |-> CASE missing \cup duplicate # {} ->
                           IF Min(missing \cup duplicate) \in missing THEN "missing" ELSE "duplicate"
                    [] missing \cup duplicate = {} /\ overlap -> "overlap"
                    [] OTHER -> "none",
        matched |-> matched]

Replaced(text, match) ==
    SubSeq(text, 1, match.at) \o match.new \o SubSeq(text, match.at + match.length + 1, Len(text))

\* Bug: the matches are applied from the front, at positions the earlier ones moved.
Apply_Forward(base, matched) == FoldLeft(Replaced, base, matched)

\* From the last match to the first, so that the positions of the others hold.
Apply(base, matched) == FoldLeft(Replaced, base, Reverse(matched))

CommonPrefix(left, right) ==
    Max({n \in 0..Min({Len(left), Len(right)}) : SubSeq(left, 1, n) = SubSeq(right, 1, n)})

\* 0 when no line changed.
FirstChangedLine(old, new) ==
    LET prefix == CommonPrefix(SplitLines(old), SplitLines(new))
    IN IF prefix < Len(SplitLines(old)) \/ prefix < Len(SplitLines(new)) THEN prefix + 1 ELSE 0

Refused(error) == result' = [result EXCEPT !.error = error, !.done = TRUE] /\ UNCHANGED target

\* One call.  The exact text is looked for first; if some edit has none, all edits go to the
\* text without blanks at the ends of its lines.  The read and the write may fail.
Execute ==
    /\ ~result.done
    /\ LET bom == Bom(target)
           content == SubSeq(target, Len(bom) + 1, Len(target))
           normalized == NormalizeToLf(content)
           entries == [k \in DOMAIN edits |-> NormalizeEntry(edits[k])]
           fuzzy == \E k \in DOMAIN entries : ~Includes(normalized, entries[k].old)
           base == IF fuzzy THEN NormalizeForFuzzy(normalized) ELSE normalized
           located == Locate(entries, base)
           new == Apply(base, located.matched)
       IN \/ Refused("read failed")
          \/ CASE edits = <<>> -> Refused("no edits")
               [] edits # <<>> /\ Validate(entries) # "none" -> Refused(Validate(entries))
               [] edits # <<>> /\ Validate(entries) = "none" /\ located.error # "none" ->
                      Refused(located.error)
               [] OTHER ->
                      \/ new = base /\ Refused("no changes")
                      \/ new # base /\ Refused("write failed")
                      \/ /\ new # base
                         /\ target' = bom \o RestoreLineEndings(new, DetectLineEnding(content))
                         /\ result' = [error |-> "none", done |-> TRUE, bom |-> bom, base |-> base,
                                       new |-> new, entries |-> entries,
                                       firstLine |-> FirstChangedLine(base, new)]
    /\ UNCHANGED edits

EditNext == Execute

EditSpec == EditInit /\ [][EditNext]_editVars

-----------------------------------------------------------------------------
(* Properties *)

\* What becomes of a text when its gaps stay and new texts come between them.
Woven(gaps, texts) ==
    gaps[1] \o FlattenSeq([k \in DOMAIN texts |-> texts[k] \o gaps[k + 1]])

\* Every edit that is reported as made is in the file and nothing between the edits moved:
\* the text before was gap, old, gap, old, gap and the text after is the same gaps with the
\* new texts, whatever the order and the lengths of the edits; the reported line is the
\* first that differs (locate, apply, firstChangedLine).
EditsLandInPlace ==
    result.done /\ result.error = "none" =>
        LET order == ByPosition(result.base, result.entries)
            olds == [k \in DOMAIN order |-> result.entries[order[k]].old]
            news == [k \in DOMAIN order |-> result.entries[order[k]].new]
            Ends(k) == IF k = 0 THEN 0 ELSE IndexOf(result.base, olds[k], 0) + Len(olds[k])
            Starts(k) == IF k > Len(olds) THEN Len(result.base) ELSE IndexOf(result.base, olds[k], 0)
            gaps == [k \in 1..Len(olds) + 1 |-> SubSeq(result.base, Ends(k - 1) + 1, Starts(k))]
            before == SplitLines(result.base)
            after == SplitLines(result.new)
        IN /\ Woven(gaps, olds) = result.base
           /\ NormalizeToLf(target) = result.bom \o Woven(gaps, news)
           /\ result.firstLine > 0 =>
                  /\ \A k \in 1..result.firstLine - 1 : before[k] = after[k]
                  /\ result.firstLine \in DOMAIN before \cap DOMAIN after
                        => before[result.firstLine] # after[result.firstLine]
=============================================================================
