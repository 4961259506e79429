------------------------------- MODULE Shell -------------------------------
(***************************************************************************)
(* The keyboard path into the Infernal Shell: process_keyboard_input      *)
(* (src/x86_64/kernel/interrupts.c) turns a scancode into a character and *)
(* hands it to process_shell_input (src/x86_64/shell/infernal_shell.c),   *)
(* which edits the line buffer, completes, and on Enter records the line  *)
(* in the history and runs it through execute_command.                    *)
(*                                                                         *)
(* Characters are their ASCII codes and strings are sequences of codes,   *)
(* so the range test of process_shell_input and the string helpers of     *)
(* src/x86_64/kernel/memory.c (strlen, strcmp, strncmp, strcat) work on   *)
(* the same values as in C.  command_buffer is kept as the whole array    *)
(* (indices 0..BUF-1), NUL bytes included, since strcat and the Enter     *)
(* handler read it as a C string.  The commands themselves only print;    *)
(* what execute_command does is observed as out: the builtin it ran (0    *)
(* for "Unknown incantation") and argc.  Drawing is left out.             *)
(*                                                                         *)
(* lines is a history variable: every non-empty line entered, in order.   *)
(***************************************************************************)
EXTENDS Integers, Sequences, FiniteSets

CONSTANTS
    BUF,           \* sizeof(command_buffer) (256, scaled)
    MAX_HISTORY,   \* MAX_HISTORY (16, scaled)
    Builtins,      \* names of builtin_commands[], in table order
    Scancodes,     \* scancodes the keyboard delivers
    MaxLines       \* bound on non-empty lines entered

NUL == 0
BS == 8
TAB == 9
LF == 10
CR == 13
SPACE == 32
DEL == 127

\* argc < 15 in execute_command's tokenizing loop.
MAX_ARGS == 15

\* strtok's delimiter string " \t".
Delims == {SPACE, TAB}

ASSUME \A i \in 1..Len(Builtins) : 0 < Len(Builtins[i]) /\ Len(Builtins[i]) < BUF

\* scancode_to_ascii[] of process_keyboard_input, entry sc at index sc+1.
ScancodeToAscii ==
    <<0, 0, 49, 50, 51, 52, 53, 54, 55, 56, 57, 48, 45, 61, 8,
      9, 113, 119, 101, 114, 116, 121, 117, 105, 111, 112, 91, 93, 10,
      0, 97, 115, 100, 102, 103, 104, 106, 107, 108, 59, 39, 96,
      0, 92, 122, 120, 99, 118, 98, 110, 109, 44, 46, 47, 0,
      42, 0, 32>>

\* A press (bit 7 clear) inside the table gives its entry; anything else 0.
Ascii(sc) ==
    IF sc < 128 /\ sc < Len(ScancodeToAscii) THEN ScancodeToAscii[sc + 1] ELSE NUL

\* memset(command_buffer, 0, sizeof(command_buffer)).
Zeros == [i \in 0..(BUF - 1) |-> NUL]

\* Byte i of a string literal: its characters, then the terminating NUL.
CharAt(s, i) == IF i < Len(s) THEN s[i + 1] ELSE NUL

\* strlen over the buffer: the index of the first NUL.
Strlen(b) ==
    LET Z == {i \in DOMAIN b : b[i] = NUL}
    IN CHOOSE i \in Z : \A j \in Z : i <= j

\* The C string stored in the buffer.
CString(b) == [i \in 1..Strlen(b) |-> b[i - 1]]

RECURSIVE StrcmpFrom(_, _, _)
StrcmpFrom(a, s, i) ==
    IF CharAt(a, i) # NUL /\ CharAt(s, i) # NUL /\ CharAt(a, i) = CharAt(s, i)
    THEN StrcmpFrom(a, s, i + 1)
    ELSE CharAt(a, i) - CharAt(s, i)

\* strcmp of two strings.
Strcmp(a, s) == StrcmpFrom(a, s, 0)

RECURSIVE StrncmpFrom(_, _, _, _)
StrncmpFrom(b, s, n, i) ==
    IF i >= n THEN 0
    ELSE IF b[i] # CharAt(s, i) \/ b[i] = NUL THEN b[i] - CharAt(s, i)
    ELSE StrncmpFrom(b, s, n, i + 1)

\* strncmp of the buffer against a string, n bytes at most.
Strncmp(b, s, n) == StrncmpFrom(b, s, n, 0)

\* strcat of a string onto the buffer: its bytes and a NUL at strlen(b).
Strcat(b, s) ==
    LET d == Strlen(b)
    IN [i \in DOMAIN b |-> IF i < d \/ i > d + Len(s) THEN b[i]
                           ELSE CharAt(s, i - d)]

(***************************************************************************)
(* strtok over the copy of the line, with its static pointer last as an   *)
(* index into s (Len(s)+1 is the terminating NUL).                        *)
(***************************************************************************)
\* A scan that starts the token where last already is.
SkipNone(s, i) == i

\* Skip leading delimiters.
RECURSIVE SkipDelims(_, _)
SkipDelims(s, i) ==
    IF i <= Len(s) /\ s[i] \in Delims THEN SkipDelims(s, i + 1) ELSE i

\* Find the next delimiter (or the NUL).
RECURSIVE ScanToken(_, _)
ScanToken(s, i) ==
    IF i <= Len(s) /\ s[i] \notin Delims THEN ScanToken(s, i + 1) ELSE i

NoToken == <<-1>>

\* One strtok call: <<token or NoToken, new last>>; the delimiter ending a
\* token is overwritten with NUL and last moves past it.
Strtok(s, last) ==
    LET st == SkipDelims(s, last)
        en == ScanToken(s, st)
    IN IF st > Len(s) THEN <<NoToken, st>>
       ELSE <<SubSeq(s, st, en - 1), IF en <= Len(s) THEN en + 1 ELSE en>>

\* execute_command's loop: tokens while strtok returns one and argc < 15.
RECURSIVE Tokenize(_, _, _)
Tokenize(s, last, args) ==
    LET r == Strtok(s, last)
    IN IF r[1] = NoToken \/ Len(args) >= MAX_ARGS THEN args
       ELSE Tokenize(s, r[2], Append(args, r[1]))

\* The first builtin whose name strcmp finds equal, 0 when none is.
Dispatch(word) ==
    LET M == {i \in 1..Len(Builtins) : Strcmp(word, Builtins[i]) = 0}
    IN IF M = {} THEN 0 ELSE CHOOSE i \in M : \A j \in M : i <= j

NoCommand == [cmd |-> -1, argc |-> 0]

\* execute_command: what it runs (argc 0 returns before dispatching).
ExecuteCommand(line) ==
    LET args == Tokenize(line, 1, <<>>)
    IN IF args = <<>> THEN NoCommand
       ELSE [cmd |-> Dispatch(args[1]), argc |-> Len(args)]

(***************************************************************************)
(* add_to_history: append while there is room, else shift every entry    *)
(* down one and store the line last; history_pos follows history_count.   *)
(***************************************************************************)
HistoryShiftShort(st, line) ==
    IF st.hcount < MAX_HISTORY
    THEN [st EXCEPT !.hist[st.hcount] = line, !.hcount = @ + 1,
                    !.hpos = st.hcount + 1]
    ELSE [st EXCEPT !.hist = [i \in 0..(MAX_HISTORY - 1) |->
                                IF i < MAX_HISTORY - 2 THEN st.hist[i + 1]
                                ELSE IF i = MAX_HISTORY - 1 THEN line
                                ELSE st.hist[i]],
                    !.hpos = st.hcount]

AddToHistory(st, line) ==
    IF st.hcount < MAX_HISTORY
    THEN [st EXCEPT !.hist[st.hcount] = line, !.hcount = @ + 1,
                    !.hpos = st.hcount + 1]
    ELSE [st EXCEPT !.hist = [i \in 0..(MAX_HISTORY - 1) |->
                                IF i < MAX_HISTORY - 1 THEN st.hist[i + 1]
                                ELSE line],
                    !.hpos = st.hcount]

VARIABLES sh, out, lines

vars == <<sh, out, lines>>

\* The shell's statics before init_infernal_shell: zero.
ShellBoot ==
    [init |-> FALSE, buf |-> Zeros, pos |-> 0,
     hist |-> [i \in 0..(MAX_HISTORY - 1) |-> <<>>], hcount |-> 0, hpos |-> 0]

Init ==
    /\ sh = ShellBoot
    /\ out = NoCommand
    /\ lines = <<>>

\* init_infernal_shell (via start_shell_process from kernel_main): state set,
\* buffer and history cleared.
ShellInit ==
    /\ ~sh.init
    /\ sh' = [ShellBoot EXCEPT !.init = TRUE]
    /\ UNCHANGED <<out, lines>>

\* A release, a scancode past the table, a key with no character, or any
\* key before the shell is initialized: nothing changes.
KeyIgnored(sc) ==
    /\ Ascii(sc) = NUL \/ ~sh.init
    /\ UNCHANGED vars

\* '\n' or '\r': terminate, record and run a non-empty line, then reset.
Enter(c) ==
    LET line == CString([sh.buf EXCEPT ![sh.pos] = NUL])
        st   == IF sh.pos > 0 THEN AddToHistory(sh, line) ELSE sh
    IN /\ c \in {LF, CR}
       /\ sh.pos > 0 => Len(lines) < MaxLines
       /\ sh' = [st EXCEPT !.buf = Zeros, !.pos = 0]
       /\ out' = IF sh.pos > 0 THEN ExecuteCommand(line) ELSE out
       /\ lines' = IF sh.pos > 0 THEN Append(lines, line) ELSE lines

\* A backspace that only moves command_pos back.
BackspaceNoNul(st) == [st EXCEPT !.pos = @ - 1]

\* '\b' or DEL: drop the last character.
Backspace(st) == [st EXCEPT !.pos = @ - 1, !.buf[st.pos - 1] = NUL]

Erase(c) ==
    /\ c \in {BS, DEL}
    /\ sh' = IF sh.pos > 0 THEN Backspace(sh) ELSE sh
    /\ UNCHANGED <<out, lines>>

\* attempt_tab_completion: the first builtin the typed prefix matches is
\* completed by strcat of its remaining characters.
TabComplete(st) ==
    LET M == {i \in 1..Len(Builtins) : Strncmp(st.buf, Builtins[i], st.pos) = 0}
        i == CHOOSE k \in M : \A j \in M : k <= j
        b == Strcat(st.buf, SubSeq(Builtins[i], st.pos + 1, Len(Builtins[i])))
    IN IF M = {} THEN st ELSE [st EXCEPT !.buf = b, !.pos = Strlen(b)]

Tab(c) ==
    /\ c = TAB
    /\ sh' = TabComplete(sh)
    /\ UNCHANGED <<out, lines>>

\* The default case's test: room left and a printable character.
AcceptsCharNoBound(pos, c) == c >= 32 /\ c <= 126

AcceptsChar(pos, c) == pos < BUF - 1 /\ c >= 32 /\ c <= 126

Char(c) ==
    /\ c \notin {LF, CR, BS, DEL, TAB}
    /\ sh' = IF AcceptsChar(sh.pos, c)
             THEN [sh EXCEPT !.buf[sh.pos] = c, !.pos = @ + 1]
             ELSE sh
    /\ UNCHANGED <<out, lines>>

\* keyboard_interrupt_handler -> process_keyboard_input -> process_shell_input.
KeyPress(sc) ==
    LET c == Ascii(sc)
    IN /\ c # NUL
       /\ sh.init
       /\ \/ Enter(c)
          \/ Erase(c)
          \/ Tab(c)
          \/ Char(c)

Next ==
    \/ ShellInit
    \/ \E sc \in Scancodes : KeyIgnored(sc)
    \/ \E sc \in Scancodes : KeyPress(sc)

Spec == Init /\ [][Next]_vars

-----------------------------------------------------------------------------
TypeOK ==
    /\ sh.init \in BOOLEAN
    /\ sh.buf \in [0..(BUF - 1) -> 0..126]
    /\ sh.pos \in 0..(BUF - 1)
    /\ sh.hcount \in 0..MAX_HISTORY
    /\ sh.hpos \in 0..MAX_HISTORY
    /\ \A i \in 0..(MAX_HISTORY - 1) : Len(sh.hist[i]) < BUF

(***************************************************************************)
(* command_buffer holds, as a C string, exactly the command_pos characters *)
(* typed, and every byte after them is NUL: Enter terminates the line at   *)
(* command_pos and tab completion strcat's at strlen, so the two must      *)
(* agree after any mix of typing, backspace and completion.               *)
(***************************************************************************)
BufferTerminatedAtPos ==
    sh.init => \A i \in 0..(BUF - 1) : (sh.buf[i] = NUL) <=> (i >= sh.pos)

(***************************************************************************)
(* add_to_history keeps the newest lines: command_history[0..count-1] are *)
(* the last history_count non-empty lines entered, oldest first, and the  *)
(* count is the number entered up to MAX_HISTORY, however many times the  *)
(* full history has been shifted.                                         *)
(***************************************************************************)
HistoryKeepsNewest ==
    LET n == Len(lines)
        k == IF n < MAX_HISTORY THEN n ELSE MAX_HISTORY
    IN /\ sh.hcount = k
       /\ \A i \in 0..(k - 1) : sh.hist[i] = lines[n - k + i + 1]

\* The words of a line: maximal runs of characters that are not " " or "\t".
WordStarts(s) ==
    {i \in 1..Len(s) : s[i] \notin Delims /\ (i = 1 \/ s[i - 1] \in Delims)}

WordEnd(s, i) ==
    CHOOSE j \in i..Len(s) : \A k \in i..j : s[k] \notin Delims
                            /\ (j = Len(s) \/ s[j + 1] \in Delims)

FirstWord(s) ==
    LET i == CHOOSE i \in WordStarts(s) : \A j \in WordStarts(s) : i <= j
    IN SubSeq(s, i, WordEnd(s, i))

(***************************************************************************)
(* execute_command runs the builtin named by the first word of the line   *)
(* entered last (0 when no name matches) with argc the number of words    *)
(* (at most 15), and runs nothing for a line of blanks: strtok with its   *)
(* static pointer, the argc < 15 loop and the strcmp scan of the table    *)
(* together split the line as words are defined.                          *)
(***************************************************************************)
DispatchesFirstWord ==
    lines # <<>> =>
      LET s == lines[Len(lines)]
          n == Cardinality(WordStarts(s))
      IN out = IF n = 0 THEN NoCommand
               ELSE [cmd |-> LET M == {i \in 1..Len(Builtins) : Builtins[i] = FirstWord(s)}
                             IN IF M = {} THEN 0 ELSE CHOOSE i \in M : TRUE,
                     argc |-> IF n < MAX_ARGS THEN n ELSE MAX_ARGS]

=============================================================================
