----------------------------- MODULE TrimSpaces ------------------------------
(***************************************************************************)
(* The fixed text transformation, written twice: transform_output of       *)
(* src/src/broker.rs, which the supervisor applies, and                    *)
(* normalize_trailing_ascii_spaces of src/src/maintenance_process.rs,      *)
(* which the evaluator recomputes.  Both are compared with one definition  *)
(* of what they are for, on every short text.                              *)
(***************************************************************************)
EXTENDS Naturals, SequencesExt

CONSTANT MaxLen  \* bound on the length of a text

ASSUME TrimBounds == MaxLen \in Nat

VARIABLE text

Bytes == {"x", "space", "CR", "LF"}

Least(m, n) == IF m <= n THEN m ELSE n

(* The part of s[from .. to] in front of its trailing spaces.              *)
Trimmed(s, from, to) ==
    SubSeq(s, from, Max({from - 1} \cup {k \in from .. to : s[k] # "space"}))

-----------------------------------------------------------------------------

(* Last position of the content of the line that ends at i.                *)
ContentEnd(s, start, i) == IF i > start /\ s[i - 1] = "CR" THEN i - 2 ELSE i - 1

(* One line, its ending in front of i included.                            *)
Line(s, start, i) ==
    LET end == ContentEnd(s, start, i)
    IN  Trimmed(s, start, end) \o SubSeq(s, end + 1, i - 1)

Loop(s, last, Step(_, _)) ==
    FoldLeft(Step, [out |-> <<>>, start |-> 1], [i \in 1 .. last |-> i])

(* Mutant of both: what follows the last line ending is copied.            *)
LinesOnly(s) ==
    LET Step(acc, i) ==
            IF s[i] # "LF" THEN acc
            ELSE [out |-> Append(acc.out \o Line(s, acc.start, i), "LF"), start |-> i + 1]
        lines == Loop(s, Len(s), Step)
    IN  lines.out \o SubSeq(s, lines.start, Len(s))

(* transform_output: the end of the text ends a line too.                  *)
TransformOutput(s) ==
    LET Step(acc, i) ==
            IF i <= Len(s) /\ s[i] # "LF" THEN acc
            ELSE [out |-> acc.out \o Line(s, acc.start, i) \o SubSeq(s, i, Least(i, Len(s))),
                  start |-> i + 1]
    IN  Loop(s, Len(s) + 1, Step).out

(* normalize_trailing_ascii_spaces.                                        *)
Normalize(s) ==
    LET Step(acc, i) ==
            IF s[i] # "LF" THEN acc
            ELSE [out |-> Append(acc.out \o Line(s, acc.start, i), "LF"), start |-> i + 1]
        lines == Loop(s, Len(s), Step)
    IN  lines.out \o Trimmed(s, lines.start, Len(s))

-----------------------------------------------------------------------------
(* Every text of at most MaxLen bytes.                                     *)

Init == text = <<>>
Next == Len(text) < MaxLen /\ \E b \in Bytes : text' = Append(text, b)
Spec == Init /\ [][Next]_text

(* A trailing space: nothing but spaces up to an LF, a CRLF or the end.    *)
IsTrailing(s, i) ==
    \E j \in i + 1 .. Len(s) + 1 :
        /\ \A k \in i .. j - 1 : s[k] = "space"
        /\ \/ j = Len(s) + 1
           \/ s[j] = "LF"
           \/ s[j] = "CR" /\ j < Len(s) /\ s[j + 1] = "LF"

WithoutTrailing(s) ==
    LET kept == SelectSeq([i \in DOMAIN s |-> i], LAMBDA i : ~IsTrailing(s, i))
    IN  [n \in DOMAIN kept |-> s[kept[n]]]

(* Both functions remove exactly the ASCII spaces in front of an LF, of a  *)
(* CRLF and at the end of the text, as the comment on transform_output     *)
(* says, and so agree.  Texts that end in a bare CR are excepted for       *)
(* transform_output: there it also removes the spaces in front of the CR,  *)
(* which the comment does not say and the evaluator's function does not do. *)
TrimIsExact ==
    /\ Normalize(text) = WithoutTrailing(text)
    /\ (text # <<>> => Last(text) # "CR") => TransformOutput(text) = WithoutTrailing(text)
=============================================================================
