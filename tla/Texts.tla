------------------------------- MODULE Texts -------------------------------
(***************************************************************************)
(* What the server computes from texts: the page of a file that            *)
(* remote_view_file returns, the new text of remote_replace_file_content,  *)
(* the tail of a task's output, and the three parts of a command's output. *)
(* A text is a sequence of characters; the markers of a command's output   *)
(* are single tokens.                                                      *)
(***************************************************************************)
EXTENDS Integers, Sequences, SequencesExt, FiniteSetsExt

CONSTANTS
    Refused,   \* the result is an error, and nothing is written
    Panic      \* the slice expression panics

NL == "n"      \* line feed
CR == "r"
SP == " "

-----------------------------------------------------------------------------
(* strings.Split and Join at line feeds, Count and Replace, TrimRight *)

\* The lines so far when the character c follows.
Extended(lines, c) ==
    IF c = NL THEN Append(lines, <<>>) ELSE [lines EXCEPT ![Len(lines)] = Append(@, c)]

Split(t) ==
    LET upTo[i \in 0 .. Len(t)] ==
            IF i = 0 THEN << <<>> >> ELSE Extended(upTo[i - 1], t[i])
    IN  upTo[Len(t)]

Join(lines) ==
    FlattenSeq([i \in DOMAIN lines |-> IF i = 1 THEN lines[i] ELSE <<NL>> \o lines[i]])

\* The places where Replace finds old: the leftmost that do not overlap.
Places(t, old) ==
    LET is(i) == i + Len(old) - 1 <= Len(t) /\ SubSeq(t, i, i + Len(old) - 1) = old
        upTo[i \in 0 .. Len(t)] ==
            IF i = 0 THEN <<>>
            ELSE LET at == upTo[i - 1]
                 IN  IF is(i) /\ (at = <<>> \/ i >= Last(at) + Len(old))
                     THEN Append(at, i) ELSE at
    IN  upTo[Len(t)]

Replace(t, at, old, new) ==
    LET from(j) == IF j = 1 THEN 1 ELSE at[j - 1] + Len(old)
        piece(j) == IF j > Len(at) THEN SubSeq(t, from(j), Len(t))
                                   ELSE SubSeq(t, from(j), at[j] - 1) \o new
    IN  FlattenSeq([j \in 1 .. Len(at) + 1 |-> piece(j)])

TrimRight(t, c) == SubSeq(t, 1, Max({0} \cup {i \in DOMAIN t : t[i] # c}))

-----------------------------------------------------------------------------
(* remote_view_file *)

\* bufio.ScanLines: a final line feed ends a line and begins none; a carriage
\* return before it is dropped.
ScanLines(t) ==
    LET all  == Split(t)
        kept == IF Last(all) = <<>> THEN Front(all) ELSE all
        dropCR(l) == IF l # <<>> /\ Last(l) = CR THEN Front(l) ELSE l
    IN  [i \in DOMAIN kept |-> dropCR(kept[i])]

\* "%6d | %s\n", for fewer than a million lines.
LineSize(line) == 10 + Len(line)

PageSize(lines) ==
    LET upTo[n \in 0 .. Len(lines)] == IF n = 0 THEN 0 ELSE upTo[n - 1] + LineSize(lines[n])
    IN  upTo[Len(lines)]

StartOf(s)    == IF s <= 0 THEN 1 ELSE s
EndOf(e, all) == IF e <= 0 \/ e > all THEN all ELSE e

Page(all, s, e, shown, truncated) ==
    [total |-> all, start |-> s, end |-> e, lines |-> shown, truncated |-> truncated]

\* Mutant of ViewFile: a truncated page counts the line that did not fit.
ViewFileOneTooFar(t, first, last, maxBytes) ==
    LET lines == ScanLines(t)
        all   == Len(lines)
        s     == StartOf(first)
        e     == EndOf(last, all)
        fits  == {n \in s .. e : PageSize(SubSeq(lines, s, n)) <= maxBytes}
        end   == Max({s - 1} \cup fits)
    IN  IF all = 0 THEN Page(0, 1, 0, <<>>, FALSE)
        ELSE IF s > all THEN Refused
        ELSE Page(all, s, Min({end + 1, e}), SubSeq(lines, s, end), end < e)

\* Lines of the range as long as their sum stays within maxBytes.
ViewFile(t, first, last, maxBytes) ==
    LET lines == ScanLines(t)
        all   == Len(lines)
        s     == StartOf(first)
        e     == EndOf(last, all)
        fits  == {n \in s .. e : PageSize(SubSeq(lines, s, n)) <= maxBytes}
        end   == Max({s - 1} \cup fits)
    IN  IF all = 0 THEN Page(0, 1, 0, <<>>, FALSE)
        ELSE IF s > all THEN Refused
        ELSE Page(all, s, Min({end, e}), SubSeq(lines, s, end), end < e)

-----------------------------------------------------------------------------
(* remote_replace_file_content *)

\* Not found, or found more than once and allowMultiple not set, is an error.
Edit(t, old, new, multiple) ==
    LET at == Places(t, old)
    IN  IF at = <<>> \/ (Len(at) > 1 /\ ~ multiple) THEN Refused
        ELSE Replace(t, at, old, new)

\* Mutant of Before: the line feed is left out.
BeforeUnterminated(lines, s) == Join(SubSeq(lines, 1, s - 1))

\* The text before line s.  A text that consists of one empty line is taken
\* for no text, and its line feed is lost.
Before(lines, s) ==
    LET text == Join(SubSeq(lines, 1, s - 1))
    IN  IF text = <<>> THEN <<>> ELSE text \o <<NL>>

\* Mutant of Chunk: the line numbers count from 0.
ChunkFromZero(lines, s, e) == Join(SubSeq(lines, s + 1, e))

Chunk(lines, s, e) == Join(SubSeq(lines, s, e))

After(lines, e) ==
    IF e < Len(lines) THEN <<NL>> \o Join(SubSeq(lines, e + 1, Len(lines))) ELSE <<>>

\* The whole text, or the lines of a range when either end of it is given.
ReplaceContent(t, old, new, first, last, multiple) ==
    LET lines == Split(t)
        s     == StartOf(first)
        e     == EndOf(last, Len(lines))
        chunk == Edit(Chunk(lines, s, e), old, new, multiple)
    IN  IF first <= 0 /\ last <= 0 THEN Edit(t, old, new, multiple)
        ELSE IF s > Len(lines) THEN Refused
        ELSE IF s > e + 1 THEN Panic
        ELSE IF chunk = Refused THEN Refused
        ELSE Before(lines, s) \o chunk \o After(lines, e)

-----------------------------------------------------------------------------
(* The tail of a task's output *)

\* Mutant of TailLines: the final line feed counts as a line.
TailLinesUntrimmed(t, n) ==
    LET parts == Split(t)
    IN  IF t = <<>> \/ Len(parts) <= n THEN t
        ELSE Join(SubSeq(parts, Len(parts) - n + 1, Len(parts))) \o <<NL>>

TailLines(t, n) ==
    LET parts == Split(TrimRight(t, NL))
    IN  IF t = <<>> \/ Len(parts) <= n THEN t
        ELSE Join(SubSeq(parts, Len(parts) - n + 1, Len(parts))) \o <<NL>>

\* Without a positive number of lines, fifty.
Tail50(t, n) == TailLines(t, IF n <= 0 THEN 50 ELSE n)

-----------------------------------------------------------------------------
(* The output of a wrapped command *)

Exit == "__MCP_EXIT__:"
Cwd  == ":__MCP_CWD__:"

Digits == {"0", "1", "2"}

\* What WrapCommand's script leaves in stdout: the command's own output, its
\* status and the working directory.
Wrapped(out, code, dir) == out \o <<Exit, code, Cwd>> \o dir \o <<NL>>

Positions(t, c) == {i \in DOMAIN t : t[i] = c}

TrimSpace(t) ==
    LET ink == {i \in DOMAIN t : t[i] \notin {SP, NL}}
    IN  IF ink = {} THEN <<>> ELSE SubSeq(t, Min(ink), Max(ink))

\* Mutant of MarkerAt: strings.Index instead of LastIndex.
MarkerAtFirst(t) == Min(Positions(t, Exit))

MarkerAt(t) == Max(Positions(t, Exit))

\* Output, directory, status; "0" where Sscanf finds no number.
ParseCommandMarkers(t) ==
    IF Positions(t, Exit) = {} THEN <<t, <<>>, "0">>
    ELSE LET meta == SubSeq(t, MarkerAt(t) + 1, Len(t))
             sep  == Positions(meta, Cwd)
             code == IF meta # <<>> /\ meta[1] \in Digits THEN meta[1] ELSE "0"
         IN  <<SubSeq(t, 1, MarkerAt(t) - 1),
               IF sep = {} THEN <<>> ELSE TrimSpace(SubSeq(meta, Min(sep) + 1, Len(meta))),
               code>>
=============================================================================
