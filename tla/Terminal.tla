------------------------------ MODULE Terminal ------------------------------
(***************************************************************************)
(* What a player sees on the line of the cursor (telnet/lineedit.go,        *)
(* server.go, session.go, pager.go).  The client does not draw: the server  *)
(* echoes every key with the bytes that change the row, and it writes what  *)
(* others say above the row and repaints prompt and line.  Three goroutines *)
(* write: the one that reads keys, the one that handles lines, and those of *)
(* the other players and pulses.  Each write is one critical section.       *)
(*                                                                         *)
(* The terminal is the one a client is: it prints a glyph at its column,   *)
(* moves left on a backspace, and blanks what is left of a wide glyph that  *)
(* is half overwritten.  Rows do not wrap, and glyphs without a width of    *)
(* their own are left out.  What is on a row that no longer shows prompt    *)
(* and line is not followed until it is painted again.                     *)
(***************************************************************************)
EXTENDS Integers, FiniteSets, Sequences

CONSTANTS
    Narrow, Wide,   \* glyphs of one and of two columns
    Completions,    \* what a Tab may complete to
    Remembered,     \* what the ring of earlier lines may return
    InboxCap,       \* lines that wait for the handler (16)
    MaxLine,        \* bound: glyphs in the line
    MaxPages        \* bound: pages of a paged text after the first

Space == " "
Half == "half"
BS == "backspace"
Prompts == {"game", "more"}

ASSUME TerminalAssumption ==
    /\ Narrow \cap Wide = {} /\ Space \notin Wide
    /\ {Half, BS} \cap (Narrow \cup Wide \cup Prompts) = {}
    /\ Prompts \cap (Narrow \cup Wide) = {}
    /\ {InboxCap, MaxLine, MaxPages} \subseteq Nat \ {0}
    /\ \A glyphs \in Remembered : glyphs \in Seq(Narrow \cup Wide) /\ Len(glyphs) <= MaxLine
    /\ \A glyphs \in Completions : glyphs \in Seq(Narrow \cup Wide)

\* A player types no asterisk: a line of them, the cursor moved back into it,
\* would be taken for the mask of a password asked for afterwards.
NoAsterisk == "*" \notin Narrow \cup Wide

VARIABLES
    line, column,  \* Input.Buf, Input.Cursor
    masked,        \* InPasswordMode
    row,           \* the row on the screen: [at, cells], or Garbled
    mode, pages,   \* the top of the mode stack; pages left to show
    cached,        \* lastPrompt, or "none"
    waiting,       \* lines that wait
    handler,       \* "idle", "running", "paging", "handled", or the prompt it is to write
    reader         \* [does, prompt]: "ready", or what it does that takes a second step

terminalVars == <<line, column, masked, row, mode, pages, cached, waiting, handler, reader>>

(***************************************************************************)
(* The terminal                                                            *)
(***************************************************************************)
Times(n, x) == [i \in 1 .. n |-> x]

Columns == 2 * MaxLine + 1
Garbled == [at |-> -1]
Blank == [at |-> 0, cells |-> Times(Columns, Space)]

Cells(g) == IF g \in Wide THEN <<g, Half>> ELSE <<g>>
Width(glyphs) == Len(glyphs) + Cardinality({i \in DOMAIN glyphs : glyphs[i] \in Wide})

Upto(cells, n) ==
    IF n > 0 /\ cells[n] \in Wide THEN SubSeq(cells, 1, n - 1) \o <<Space>> ELSE SubSeq(cells, 1, n)
FromCell(cells, n) ==
    IF n <= Columns /\ cells[n] = Half THEN <<Space>> \o SubSeq(cells, n + 1, Columns)
    ELSE SubSeq(cells, n, Columns)

Put(r, g) ==
    LET n == r.at + Len(Cells(g))
    IN  [at |-> n, cells |-> Upto(r.cells, r.at) \o Cells(g) \o FromCell(r.cells, n + 1)]
ToLeft(r) == IF r.at > 0 THEN [r EXCEPT !.at = @ - 1] ELSE r

Feed(r, out) ==
    LET fed[i \in 0 .. Len(out)] ==
          IF i = 0 THEN r
          ELSE IF out[i] = BS THEN ToLeft(fed[i - 1]) ELSE Put(fed[i - 1], out[i])
    IN  fed[Len(out)]

PromptCells(p) == IF p = "none" THEN << >> ELSE <<p>>

\* The row with a prompt and a line, the cursor after the first n glyphs.
Laid(glyphs) ==
    LET laid[i \in 0 .. Len(glyphs)] == IF i = 0 THEN << >> ELSE laid[i - 1] \o Cells(glyphs[i])
    IN  laid[Len(glyphs)]

Screen(p, glyphs, n) ==
    LET cells == PromptCells(p) \o Laid(glyphs)
    IN  [at |-> Len(PromptCells(p)) + Width(SubSeq(glyphs, 1, n)),
         cells |-> cells \o Times(Columns - Len(cells), Space)]

Shown == IF masked THEN Times(Len(line), "*") ELSE line
InStep == row = Screen(cached, Shown, column)

TerminalInit ==
    /\ line = << >> /\ column = 0 /\ masked = FALSE /\ row = Screen("game", << >>, 0)
    /\ mode = "game" /\ pages = 0 /\ cached = "game" /\ waiting = 0 /\ handler = "idle"
    /\ reader = [does |-> "ready", prompt |-> "none"]

(***************************************************************************)
(* Keys                                                                    *)
(***************************************************************************)
Before == SubSeq(line, 1, column)
After == SubSeq(line, column + 1, Len(line))

Reads(does, p) == reader' = [does |-> does, prompt |-> p]

\* An arrow or Tab has found no password prompt, and there is one now.
OverMask == masked /\ reader.does \in {"history", "complete"}

\* EditAndWrite: the line changes and its echo is written under one lock.  An
\* echo over a mask leaves a row that shows neither line nor mask.
EditAndWrite(does, glyphs, at, echo) ==
    /\ reader.does = does /\ Reads("ready", "none")
    /\ line' = glyphs /\ column' = at
    /\ row' = IF InStep /\ ~OverMask THEN Feed(row, echo) ELSE Garbled
    /\ UNCHANGED <<masked, mode, pages, cached, waiting, handler>>

Insert(g) ==
    /\ ~masked /\ Len(line) < MaxLine
    /\ EditAndWrite("ready", Before \o <<g>> \o After, column + 1,
                    <<g>> \o After \o Times(Width(After), BS))

\* Mutant: every glyph is taken for one column wide.
ErasedNarrow(from, to) ==
    LET w == to - from
        rest == SubSeq(line, to + 1, Len(line))
    IN  Times(column - from, BS) \o rest \o Times(w, Space) \o Times(Width(rest) + w, BS)

\* The echo of the removal of what is between two places of the line, one of
\* which the cursor is at: back to the first, the rest again, blanks over what
\* has become free, and back.
Erased(from, to) ==
    LET w == Width(SubSeq(line, from + 1, to))
        rest == SubSeq(line, to + 1, Len(line))
    IN  Times(Width(SubSeq(line, from + 1, column)), BS) \o rest \o Times(w, Space)
        \o Times(Width(rest) + w, BS)

Erase(from, to) ==
    /\ ~masked /\ from < to
    /\ EditAndWrite("ready", SubSeq(line, 1, from) \o SubSeq(line, to + 1, Len(line)), from,
                    Erased(from, to))

Backspace == column > 0 /\ Erase(column - 1, column)
Delete == column < Len(line) /\ Erase(column, column + 1)
KillToStart == Erase(0, column)
KillToEnd == Erase(column, Len(line))

\* The place after the last space among the first n glyphs, or the start.
LastSpace(n) ==
    LET spaces == {i \in 1 .. n : line[i] = Space}
    IN  IF spaces = {} THEN 0 ELSE CHOOSE i \in spaces : \A j \in spaces : j <= i

\* Spaces before the cursor, then the word before them.
WordStart ==
    LET nonSpace == {i \in 1 .. column : line[i] # Space}
    IN  IF nonSpace = {} THEN 0
        ELSE LastSpace(CHOOSE i \in nonSpace : \A j \in nonSpace : j <= i)
KillPrevWord == Erase(WordStart, column)

Move(to, echo) == ~masked /\ to # column /\ EditAndWrite("ready", line, to, echo)
MoveLeft == column > 0 /\ Move(column - 1, Times(Width(<<line[column]>>), BS))
MoveRight == column < Len(line) /\ Move(column + 1, <<line[column + 1]>>)
MoveHome == Move(0, Times(Width(Before), BS))
MoveEnd == Move(Len(line), After)

\* Up, Down and Tab ask whether there is a password prompt, and Tab for a mode
\* that completes and the end of the line, before the lock is taken.
LookUp(does) ==
    /\ reader.does = "ready" /\ Reads(does, "none") /\ ~masked
    /\ does = "complete" => mode = "game" /\ column = Len(line)
    /\ UNCHANGED <<line, column, masked, row, mode, pages, cached, waiting, handler>>

\* The ring or the mode has nothing: a bell.
NothingFound ==
    /\ reader.does \in {"history", "complete"} /\ Reads("ready", "none")
    /\ UNCHANGED <<line, column, masked, row, mode, pages, cached, waiting, handler>>

\* The line is replaced by another of the ring, or by the one left for it.
HistoryStep(glyphs) ==
    EditAndWrite("history", glyphs, Len(glyphs),
          Times(Width(Before), BS) \o Times(Width(line), Space) \o Times(Width(line), BS) \o glyphs)

\* The word before the cursor, which nobody else has moved from the end of the
\* line, is completed.
ExtendBuffer(glyphs) ==
    LET from == LastSpace(Len(line))
        partial == SubSeq(line, from + 1, Len(line))
        erase == [i \in 1 .. 3 * Width(partial) |-> IF i % 3 = 2 THEN Space ELSE BS]
    IN  /\ column = Len(line)
        /\ Len(partial) < Len(glyphs) /\ partial = SubSeq(glyphs, 1, Len(partial))
        /\ from + Len(glyphs) <= MaxLine
        /\ EditAndWrite("complete", SubSeq(line, 1, from) \o glyphs, from + Len(glyphs),
                        erase \o glyphs)

\* While a password is asked for there is only the end of the line.
TypeMasked(g) ==
    /\ masked /\ Len(line) < MaxLine
    /\ EditAndWrite("ready", Append(line, g), Len(line) + 1, <<"*">>)
BackspaceMasked ==
    /\ masked /\ line # << >>
    /\ EditAndWrite("ready", SubSeq(line, 1, Len(line) - 1), Len(line) - 1, <<BS, Space, BS>>)

Key ==
    \/ \E g \in Narrow \cup Wide : Insert(g) \/ TypeMasked(g)
    \/ Backspace \/ Delete \/ KillToStart \/ KillToEnd \/ KillPrevWord \/ BackspaceMasked
    \/ MoveLeft \/ MoveRight \/ MoveHome \/ MoveEnd
    \/ LookUp("history") \/ LookUp("complete") \/ NothingFound
    \/ \E glyphs \in Remembered : HistoryStep(glyphs)
    \/ \E glyphs \in Completions : ExtendBuffer(glyphs)

(***************************************************************************)
(* Enter and Tab                                                           *)
(***************************************************************************)
PromptOf == IF mode = "pager" THEN "more" ELSE "game"

Enter ==
    /\ reader.does = "ready" /\ line # << >> /\ Reads("crlf", "none")
    /\ line' = << >> /\ column' = 0
    /\ UNCHANGED <<masked, row, mode, pages, cached, waiting, handler>>

\* The end of line, which the flood gate may drop; with the queue full the
\* session is closed.
LineBreak ==
    /\ reader.does = "crlf" /\ row' \in {Blank, row}
    /\ IF waiting < InboxCap THEN waiting' = waiting + 1 /\ Reads("ready", "none")
       ELSE UNCHANGED waiting /\ Reads("closed", "none")
    /\ UNCHANGED <<line, column, masked, mode, pages, cached, handler>>

\* Enter on an empty line, and Tab with several completions, paint the prompt
\* of the mode there is, which is asked for before the lock is taken.
AskPrompt(does) ==
    /\ reader.does = "ready" /\ Reads(does, PromptOf)
    /\ IF does = "enter" THEN line = << >> ELSE ~masked /\ mode = "game" /\ column = Len(line)
    /\ UNCHANGED <<line, column, masked, row, mode, pages, cached, waiting, handler>>

Paint ==
    /\ reader.does \in {"enter", "list"} /\ Reads("ready", "none")
    /\ cached' = reader.prompt /\ row' = Screen(cached', line, Len(line))
    /\ UNCHANGED <<line, column, masked, mode, pages, waiting, handler>>

(***************************************************************************)
(* The handler of lines                                                    *)
(***************************************************************************)
TakeLine ==
    /\ handler = "idle" /\ waiting > 0 /\ waiting' = waiting - 1
    /\ handler' = IF mode = "pager" THEN "paging" ELSE "running"
    /\ UNCHANGED <<line, column, masked, row, mode, pages, cached, reader>>

\* What a verb writes ends with an end of line.
Output ==
    /\ handler = "running" /\ row # Blank /\ row' = Blank
    /\ UNCHANGED <<line, column, masked, mode, pages, cached, waiting, handler, reader>>

SetPasswordMode ==
    /\ handler = "running" /\ masked' = ~masked
    /\ UNCHANGED <<line, column, row, mode, pages, cached, waiting, handler, reader>>

\* WritePaged: what does not fit is left to a pager, which writes a page.
PushPager ==
    /\ handler = "running" /\ mode = "game" /\ mode' = "pager" /\ pages' \in 1 .. MaxPages
    /\ cached' = "none" /\ row' = Blank
    /\ UNCHANGED <<line, column, masked, waiting, handler, reader>>

\* A line to the pager: the next page, or the end of it.
WriteNextPage ==
    /\ handler = "paging" /\ handler' = "handled" /\ pages' = pages - 1 /\ row' = Blank
    /\ IF pages = 1 THEN mode' = "game" /\ cached' = "none" ELSE UNCHANGED <<mode, cached>>
    /\ UNCHANGED <<line, column, masked, waiting, reader>>
QuitPager ==
    /\ handler = "paging" /\ handler' = "handled" /\ mode' = "game" /\ pages' = 0 /\ cached' = "none"
    /\ UNCHANGED <<line, column, masked, row, waiting, reader>>

\* The prompt of the mode there is after the line, asked for, then written.
Finish ==
    /\ handler \in {"running", "handled"} /\ handler' = PromptOf
    /\ UNCHANGED <<line, column, masked, row, mode, pages, cached, waiting, reader>>
WritePrompt ==
    /\ handler \in Prompts /\ handler' = "idle" /\ cached' = handler
    /\ row' = IF row = Blank THEN Screen(handler, << >>, 0) ELSE Garbled
    /\ UNCHANGED <<line, column, masked, mode, pages, waiting, reader>>

(***************************************************************************)
(* Others                                                                  *)
(***************************************************************************)
\* The row is erased, the text written, the row painted again.
WriteAsync ==
    /\ row' = Screen(cached, Shown, Len(line))
    /\ UNCHANGED <<line, column, masked, mode, pages, cached, waiting, handler, reader>>

TerminalNext ==
    \/ Key \/ Enter \/ LineBreak \/ Paint \/ \E does \in {"enter", "list"} : AskPrompt(does)
    \/ TakeLine \/ Output \/ SetPasswordMode \/ PushPager \/ WriteNextPage \/ QuitPager
    \/ Finish \/ WritePrompt \/ WriteAsync
TerminalSpec == TerminalInit /\ [][TerminalNext]_terminalVars

(***************************************************************************)
(* Property                                                                *)
(***************************************************************************)

\* While the row shows prompt and line with the cursor where the next key
\* takes effect, no key, and no message that finds the cursor at the end of
\* the line, breaks that, whatever the other goroutines have done before:
\* glyphs of two columns, words, the ring and completion included.  The one
\* exception: a step of the ring or a completion is echoed in plain where a
\* password prompt has come between its check and its edit (server.go).
RowFollowsLine ==
    [][InStep /\ (Key \/ (WriteAsync /\ column = Len(line))) => InStep' \/ OverMask]_terminalVars
=============================================================================
