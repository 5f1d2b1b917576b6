------------------------------- MODULE RdLine ------------------------------
(***************************************************************************)
(* The line editor of the shell (rdline.c) with the terminal it draws on,  *)
(* its history, and the splitting of a line into arguments (ngshell.c).    *)
(* One step is one key, or one line handed to the shell.                   *)
(*                                                                         *)
(* The terminal is external: cells and a cursor.  It writes a character at *)
(* the cursor, moves the cursor, and clears from the cursor to the end;    *)
(* what the editor sends for a key is a sequence of these.                 *)
(***************************************************************************)
EXTENDS Integers, SequencesExt, FiniteSetsExt

CONSTANTS Letters,    \* printable characters besides Blank
          Blank, NUL,
          BufSize,    \* buf_size
          MaxLines    \* lines entered: one less than the arena has entries,
                      \* as history_insert never looks at history_size

ASSUME RdAssumption ==
    /\ Blank \notin Letters /\ NUL \notin Letters \cup {Blank}
    /\ {BufSize, MaxLines} \subseteq Nat \ {0}

VARIABLES buf, pos, len,   \* the edit context; buf as a function from 0
          arena,           \* the history arena: entries from 0, zero at first
          hlen, curr,      \* history.len and history.curr
          screen, cursor,  \* the terminal
          given            \* rdline_read has returned: the shell has the line

rdvars == <<buf, pos, len, arena, hlen, curr, screen, cursor, given>>

Printable == Letters \cup {Blank}
Cleared == [i \in 0..(BufSize - 1) |-> NUL]

\* rdline_init, and rdline_read up to its first key.
RdInit ==
    /\ buf = Cleared /\ pos = 0 /\ len = 0
    /\ arena = [i \in 0..MaxLines |-> [pos |-> 0, len |-> 0, text |-> Cleared]]
    /\ hlen = 0 /\ curr = 0
    /\ screen = <<>> /\ cursor = 0
    /\ given = FALSE

-----------------------------------------------------------------------------
(* The terminal. *)

Term == [cells |-> screen, at |-> cursor]
Cell(x, c) == [cells |-> IF x.at < Len(x.cells)
                         THEN [x.cells EXCEPT ![x.at + 1] = c]
                         ELSE Append(x.cells, c),
               at |-> x.at + 1]
Put(x, s) == FoldLeft(Cell, x, s)
CursorLeft(x, n)  == [x EXCEPT !.at = Max({@ - Max({n, 0}), 0})]
CursorRight(x, n) == [x EXCEPT !.at = @ + Max({n, 0})]
ClearLine(x) == [x EXCEPT !.cells = SubSeq(@, 1, x.at)]
Draws(x) == screen' = x.cells /\ cursor' = x.at

-----------------------------------------------------------------------------
(* The buffer. *)

\* The C string at i.
Strlen(b, i) == Min({j \in i..BufSize : j = BufSize \/ b[j] = NUL}) - i
Str(b, i) == [j \in 1..Strlen(b, i) |-> b[i + j - 1]]

insert_char(c) ==
    [i \in DOMAIN buf |-> CASE i = pos -> c
                            [] i \in (pos + 1)..(len + 1) -> buf[i - 1]
                            [] OTHER -> buf[i]]

\* The characters behind p move down, the terminator with them.
remove_char(p) ==
    [i \in DOMAIN buf |-> CASE i \in p..(len - 1) -> buf[i + 1]
                            [] i = len -> NUL
                            [] OTHER -> buf[i]]

\* The text from p, with the cursor back at p.
print_line(x, b, p) == CursorLeft(Put(x, Str(b, p)), Strlen(b, p))

\* Mutant: the cursor stays at the end of the line.
redraw_line_AtEnd(x, b, l, p) ==
    Put(ClearLine(x), [j \in 1..l |-> b[j - 1]])

redraw_line(x, b, l, p) ==
    CursorLeft(Put(ClearLine(x), [j \in 1..l |-> b[j - 1]]), l - p)

\* ncpy: up to the terminator, at most BufSize - 1 characters.
ncpy(dst, src) ==
    LET n == Min({Strlen(src, 0), BufSize - 1}) IN
    [i \in DOMAIN dst |-> CASE i < n -> src[i] [] i = n -> NUL [] OTHER -> dst[i]]

-----------------------------------------------------------------------------
(* Keys. *)

Editing == ~given
KeepsHistory == UNCHANGED <<arena, hlen, curr, given>>

Key(c) ==
    /\ Editing
    /\ IF len < BufSize - 1
       THEN /\ buf' = insert_char(c)
            /\ Draws(CursorRight(print_line(Term, insert_char(c), pos), 1))
            /\ pos' = pos + 1 /\ len' = len + 1
       ELSE UNCHANGED <<buf, pos, len, screen, cursor>>
    /\ KeepsHistory

rdline_backspace ==
    /\ Editing /\ pos > 0
    /\ buf' = remove_char(pos - 1)
    /\ Draws(print_line(ClearLine(CursorLeft(Term, 1)), buf', pos - 1))
    /\ pos' = pos - 1 /\ len' = len - 1
    /\ KeepsHistory

KeyDel ==
    /\ Editing /\ pos < len
    /\ buf' = remove_char(pos)
    /\ Draws(print_line(ClearLine(Term), buf', pos))
    /\ len' = len - 1 /\ UNCHANGED pos
    /\ KeepsHistory

\* Arrows, HOME and END: to a place in the line.
KeyMove ==
    /\ Editing
    /\ \/ pos < len /\ pos' = pos + 1 /\ Draws(CursorRight(Term, 1))
       \/ pos > 0 /\ pos' = pos - 1 /\ Draws(CursorLeft(Term, 1))
       \/ pos' = 0 /\ Draws(CursorLeft(Term, pos))
       \/ pos' = len /\ Draws(CursorRight(Term, len - pos))
    /\ UNCHANGED <<buf, len>> /\ KeepsHistory

\* history_get, on a line drawn from its start.
history_get(n) ==
    /\ curr' = n
    /\ buf' = ncpy(buf, arena[n].text)
    /\ pos' = arena[n].pos /\ len' = arena[n].len
    /\ Draws(redraw_line(CursorLeft(Term, pos), buf', len', pos'))

KeyUp ==
    /\ Editing /\ curr > 0
    /\ history_get(curr - 1)
    /\ UNCHANGED <<arena, hlen, given>>

\* The entry after the last one was never written, and is empty.
KeyDown ==
    /\ Editing
    /\ \/ curr < hlen /\ history_get(curr + 1)
       \/ /\ curr = hlen
          /\ buf' = Cleared /\ pos' = 0 /\ len' = 0 /\ UNCHANGED curr
          /\ Draws(redraw_line(CursorLeft(Term, pos), Cleared, 0, 0))
    /\ UNCHANGED <<arena, hlen, given>>

\* The entry history_insert writes: there is no test of the size of the arena.
history_place == hlen

\* ENTER: the line goes into the history and to the shell, on a new line of
\* the terminal.
KeyEnter ==
    /\ Editing /\ (hlen < MaxLines \/ len = 0)
    /\ IF len > 0
       THEN /\ arena' = [arena EXCEPT ![history_place] =
                  [pos |-> pos, len |-> len, text |-> ncpy(@.text, buf)]]
            /\ hlen' = hlen + 1
       ELSE UNCHANGED <<arena, hlen>>
    /\ given' = TRUE
    /\ screen' = <<>> /\ cursor' = 0
    /\ UNCHANGED <<buf, pos, len, curr>>

\* The input ends (the port is reset): what was typed goes to the shell as it
\* is.  The terminal that opens the port again is blank.
KeyEof ==
    /\ Editing
    /\ given' = TRUE
    /\ screen' = <<>> /\ cursor' = 0
    /\ UNCHANGED <<buf, pos, len, arena, hlen, curr>>

-----------------------------------------------------------------------------
(* The shell. *)

\* skipblanks and skiptoken: the first place from i that is none of the set.
Skip(b, i, set) == Min({j \in i..BufSize : j = BufSize \/ b[j] \notin set})

TokenEnd(b, i) == Skip(b, i, Letters)

\* The arguments as strings, and nothing behind the terminator.
ngshell_parse(b) ==
    LET ends(i) == i = BufSize \/ b[i] = NUL
        args[i \in 0..BufSize] ==
            LET token == Skip(b, i, {Blank})
                end   == TokenEnd(b, token)
            IN  IF ends(token) THEN <<>>
                ELSE <<[j \in 1..(end - token) |-> b[token + j - 1]]>>
                     \o args[IF ends(end) THEN end ELSE end + 1]
    IN  args[0]

\* ngshell_entry: the line has been parsed and run, rdline_read starts again.
ngshell_entry ==
    /\ given
    /\ given' = FALSE
    /\ buf' = Cleared /\ pos' = 0 /\ len' = 0 /\ curr' = hlen
    /\ UNCHANGED <<arena, hlen, screen, cursor>>

RdNext ==
    \/ \E c \in Printable : Key(c)
    \/ rdline_backspace \/ KeyDel \/ KeyMove
    \/ KeyUp \/ KeyDown \/ KeyEnter \/ KeyEof
    \/ ngshell_entry

-----------------------------------------------------------------------------
(* Properties. *)

RdTypeOK ==
    /\ buf \in [0..(BufSize - 1) -> Printable \cup {NUL}]
    /\ len \in 0..(BufSize - 1) /\ pos \in 0..len
    /\ hlen \in 0..MaxLines /\ curr \in 0..hlen
    /\ given \in BOOLEAN

\* What is on the screen is the line: after every key the terminal shows the
\* buffer and the cursor is where the next character goes, although the editor
\* only sends differences and never looks at the screen.
ScreenShowsLine ==
    Editing => /\ screen = [j \in 1..len |-> buf[j - 1]]
               /\ cursor = pos

\* The buffer is a string of exactly len characters, which history_insert and
\* the shell rely on when they read up to the terminator.
StringIsLine == Strlen(buf, 0) = len

\* A recalled line can be edited like a typed one: the entries of the history
\* are strings of their own length with the cursor inside, and the one KeyDown
\* reads past the last is empty, whatever was recalled and entered before.
HistoryWhole ==
    \A i \in 0..hlen : /\ Strlen(arena[i].text, 0) = arena[i].len
                       /\ arena[i].pos <= arena[i].len
                       /\ arena[i].len > 0 <=> i < hlen

\* The words of a line: maximal runs of letters, in order.
Words(b) ==
    LET n == Strlen(b, 0)
        starts == {i \in 0..(n - 1) : b[i] # Blank /\ (i = 0 \/ b[i - 1] = Blank)}
        word(i) == [j \in 1..(Skip(b, i, Letters) - i) |-> b[i + j - 1]]
    IN  [k \in 1..Cardinality(starts) |->
            word(CHOOSE i \in starts :
                    Cardinality({x \in starts : x < i}) = k - 1)]

\* The arguments the shell runs are the words of the line, no more.
ArgumentsAreWords ==
    given => ngshell_parse(buf) = Words(buf)

\* There is one line: on the screen, in the buffer, in the history when it has
\* been entered, and before the shell.
LineOK ==
    /\ RdTypeOK /\ ScreenShowsLine /\ StringIsLine
    /\ HistoryWhole /\ ArgumentsAreWords
=============================================================================
