------------------------------ MODULE DebugLog ------------------------------
(***************************************************************************)
(* The log buffer and counters of src/x86_64/kernel/debug.c.              *)
(*                                                                         *)
(* dbg holds g_debug_state: initialized, the filter part of config        *)
(* (min_level and the set of enabled subsystems), the buffer (entries,    *)
(* head, tail, count, dropped_count) and the warning, error and panic     *)
(* counters; halted is set once debug_panic has stopped the CPU.  A log   *)
(* entry keeps its level, its subsystem and its message: the text         *)
(* debug_vsprintf made of the caller's format and arguments, as ASCII     *)
(* codes.  dbg also holds the three output flags of config that change  *)
(* what is written to memory (the memory bit of output_mask,             *)
(* timestamp_enabled, subsystem_names_enabled), the tick_counter of      *)
(* debug_get_timestamp, g_debug_memory_buffer and g_debug_memory_offset,  *)
(* the VGA bit of output_mask and the VGA console of debug_output_vga:    *)
(* the characters of the text buffer at 0xB8000 and the vga_row and      *)
(* vga_col statics.  The entry's timestamp value, colours (the attribute *)
(* byte of a VGA cell) and the serial output (port I/O) are left out.    *)
(*                                                                         *)
(* hist, memLog and panics are history variables, not program state: the *)
(* calls (level, subsystem, format, arguments) that passed the filter     *)
(* since the buffer was last reset, the formatted messages handed to      *)
(* debug_output_memory and to debug_output_vga, and the number of         *)
(* debug_panic calls.                                                     *)
(***************************************************************************)
EXTENDS Integers, Sequences, SequencesExt

CONSTANTS
    MAX_ENTRIES,   \* buffer.max_entries (1024 in debug_early_init, scaled)
    Levels,        \* levels callers log at (debug_level_t values)
    Subsystems,    \* subsystems callers log from (debug_subsystem_t values)
    Configs,       \* <<min_level, enabled subsystems, memory output,
                   \*   timestamps, subsystem names, VGA output>>
                   \*   debug_configure gets
    MaxLogs,       \* bound on messages accepted per buffer reset
    Calls,         \* <<format, arguments>> pairs debug_log is called with
    MEM_SIZE,      \* DEBUG_MEMORY_BUFFER_SIZE (64 KB, scaled)
    VGA_TEXT_WIDTH,  \* characters per line (80, scaled)
    VGA_TEXT_HEIGHT  \* lines on screen (25, scaled)

ASSUME VGA_TEXT_HEIGHT >= 2 /\ VGA_TEXT_WIDTH >= 1

INFO == 2
WARN == 3
ERROR == 4
FATAL == 5
BOOT == 0
KERNEL == 1
AllSubsystems == 0..9

None == <<>>

(***************************************************************************)
(* The number conversions of debug_vsprintf, on ASCII codes: digits are   *)
(* produced least significant first into temp[] and then copied in       *)
(* reverse.  value % 10 and value /= 10 are C's truncating operators on   *)
(* non-negative values, as are value & 0xF and value >>= 4 on unsigned    *)
(* ones.  Values are bounded by what TLC's integers hold.                 *)
(***************************************************************************)
HexChar(d) == IF d < 10 THEN 48 + d ELSE 55 + d   \* "0123456789ABCDEF"

\* temp[]: the digits of n in base b, least significant first.
RECURSIVE RevDigits(_, _)
RevDigits(n, b) ==
    IF n > 0 THEN <<HexChar(n % b)>> \o RevDigits(n \div b, b) ELSE <<>>

\* The copy loop, taking temp[] in the order it was filled.
CopyForward(t) == t

\* The copy loop: temp[temp_pos-1] down to temp[0].
CopyReversed(t) == [i \in 1..Len(t) |-> t[Len(t) - i + 1]]

\* debug_int_to_string: "0", or an optional '-' and the digits of -value.
IntToString(v) ==
    IF v = 0 THEN <<48>>
    ELSE (IF v < 0 THEN <<45>> ELSE <<>>)
         \o CopyReversed(RevDigits(IF v < 0 THEN -v ELSE v, 10))

\* debug_hex_to_string: "0x", then "0" or the hex digits of value.
HexToString(v) ==
    <<48, 120>> \o (IF v = 0 THEN <<48>> ELSE CopyReversed(RevDigits(v, 16)))

VARIABLES dbg, halted, hist, memLog, vgaLog, panics

vars == <<dbg, halted, hist, memLog, vgaLog, panics>>

Rows == 0..(VGA_TEXT_HEIGHT - 1)
Cols == 0..(VGA_TEXT_WIDTH - 1)

\* What the boot loader left in the text buffer.  debug_output_vga never
\* reads a character, it only moves rows when it scrolls, so one value
\* no message contains (strings end at NUL) stands for all of it.
LOADER == 0

\* g_debug_state, tick_counter and the memory buffer are static storage:
\* all zero.
DebugBoot ==
    [init |-> FALSE, minLevel |-> 0, enabled |-> {},
     toMemory |-> FALSE, timestamps |-> FALSE, names |-> FALSE, toVga |-> FALSE,
     vga |-> [screen |-> [r \in Rows |-> [c \in Cols |-> LOADER]], row |-> 0, col |-> 0],
     entries |-> [i \in 0..(MAX_ENTRIES - 1) |-> None],
     head |-> 0, tail |-> 0, count |-> 0, dropped |-> 0,
     warnings |-> 0, errors |-> 0, panicCount |-> 0,
     tick |-> 0, mem |-> [i \in 0..(MEM_SIZE - 1) |-> 0], memOff |-> 0]

Init ==
    /\ dbg = DebugBoot
    /\ halted = FALSE
    /\ hist = <<>>
    /\ memLog = <<>>
    /\ vgaLog = <<>>
    /\ panics = 0

(***************************************************************************)
(* debug_vsprintf: the format is copied, and "%" followed by a character  *)
(* is a conversion taking the next argument (%d, %x, %s, %c) or none (%%  *)
(* and unknown ones, which print that character).  A '%' at the very end *)
(* is copied as it is.  A %s argument is a string; no NULL is passed.     *)
(***************************************************************************)
RECURSIVE VsprintfFrom(_, _, _, _)
VsprintfFrom(f, i, args, k) ==
    IF i > Len(f) THEN <<>>
    ELSE IF f[i] = 37 /\ i < Len(f)
    THEN LET c == f[i + 1] IN
         CASE c = 100 -> IntToString(args[k]) \o VsprintfFrom(f, i + 2, args, k + 1)
           [] c = 120 -> HexToString(args[k]) \o VsprintfFrom(f, i + 2, args, k + 1)
           [] c = 115 -> args[k] \o VsprintfFrom(f, i + 2, args, k + 1)
           [] c = 99  -> <<args[k]>> \o VsprintfFrom(f, i + 2, args, k + 1)
           [] OTHER   -> <<c>> \o VsprintfFrom(f, i + 2, args, k)
    ELSE <<f[i]>> \o VsprintfFrom(f, i + 1, args, k)

Vsprintf(call) == VsprintfFrom(call[1], 1, call[2], 1)

\* The fixed messages of the debug module itself (no conversions), and
\* debug_panic's "PANIC: %s" of its message.
Plain == <<<<109>>, <<>>>>
PanicCall == <<<<80, 37, 115>>, <<<<109>>>>>>

\* g_level_names and g_subsystem_names; any other value is "UNKNOWN".
LevelNames == <<<<84, 82, 65, 67, 69>>, <<68, 69, 66, 85, 71>>, <<73, 78, 70, 79>>,
                <<87, 65, 82, 78>>, <<69, 82, 82, 79, 82>>, <<70, 65, 84, 65, 76>>>>
SubsystemNames ==
    <<<<66, 79, 79, 84>>, <<75, 69, 82, 78, 69, 76>>, <<77, 69, 77, 79, 82, 89>>,
      <<73, 78, 84, 69, 82, 82, 85, 80, 84, 83>>, <<80, 82, 79, 67, 69, 83, 83>>,
      <<71, 82, 65, 80, 72, 73, 67, 83>>, <<65, 85, 68, 73, 79>>,
      <<78, 69, 84, 87, 79, 82, 75>>, <<83, 72, 69, 76, 76>>,
      <<68, 82, 73, 86, 69, 82, 83>>>>
UNKNOWN == <<85, 78, 75, 78, 79, 87, 78>>

NameOf(names, v) == IF v < Len(names) THEN names[v + 1] ELSE UNKNOWN

\* "[" t "] "
Bracketed(t) == <<91>> \o t \o <<93, 32>>

(***************************************************************************)
(* debug_format_message: "[tick] " when timestamps are on (the tick is    *)
(* the next debug_get_timestamp value), "[LEVEL] ", "[SUBSYSTEM] " when   *)
(* subsystem names are on, the message and a newline.                     *)
(***************************************************************************)
FormatMessage(d, level, sub, text) ==
    (IF d.timestamps THEN Bracketed(IntToString(d.tick)) ELSE <<>>)
    \o Bracketed(NameOf(LevelNames, level))
    \o (IF d.names THEN Bracketed(NameOf(SubsystemNames, sub)) ELSE <<>>)
    \o text \o <<10>>

\* A test that lets the terminating NUL land one past the buffer.
FitsWithoutNul(off, len) == off + len <= MEM_SIZE

\* debug_output_memory's bound: the text and its NUL fit.
Fits(off, len) == off + len < MEM_SIZE

(***************************************************************************)
(* debug_output_memory: a text that fits is copied with debug_strcpy at   *)
(* the offset, NUL included, and the offset advances by its length; one   *)
(* that does not fit is skipped.                                          *)
(***************************************************************************)
\* debug_strcpy(&m[off], t): the characters of t, then a NUL.  A byte it
\* would write past the buffer is not modelled (it is lost).
StrcpyAt(m, off, t) ==
    [i \in DOMAIN m |-> IF off <= i /\ i < off + Len(t) THEN t[i - off + 1]
                       ELSE IF i = off + Len(t) THEN 0 ELSE m[i]]

OutputMemory(d, t) ==
    IF Fits(d.memOff, Len(t))
    THEN [d EXCEPT !.mem = StrcpyAt(@, d.memOff, t), !.memOff = @ + Len(t)]
    ELSE d

(***************************************************************************)
(* debug_output_vga, one character at a time: a newline moves to column  *)
(* 0 of the next row, and past the last row scrolls (every row takes the *)
(* one below, the last row is cleared to blanks) and stays on the last   *)
(* row; any other character is written at the cursor while the column is *)
(* inside the line, and dropped beyond it.                                *)
(***************************************************************************)
\* A scroll that leaves the last row as it was.
ScrollNoClear(s) == [r \in Rows |-> IF r < VGA_TEXT_HEIGHT - 1 THEN s[r + 1] ELSE s[r]]

Scroll(s) ==
    [r \in Rows |-> IF r < VGA_TEXT_HEIGHT - 1 THEN s[r + 1] ELSE [c \in Cols |-> 32]]

VgaPut(v, ch) ==
    IF ch = 10
    THEN IF v.row + 1 >= VGA_TEXT_HEIGHT
         THEN [v EXCEPT !.screen = Scroll(@), !.row = VGA_TEXT_HEIGHT - 1, !.col = 0]
         ELSE [v EXCEPT !.row = @ + 1, !.col = 0]
    ELSE IF v.col < VGA_TEXT_WIDTH
         THEN [v EXCEPT !.screen[v.row][v.col] = ch, !.col = @ + 1]
         ELSE v

\* The loop over the message, while (message[i]).
RECURSIVE OutputVgaFrom(_, _, _)
OutputVgaFrom(v, t, i) ==
    IF i > Len(t) THEN v ELSE OutputVgaFrom(VgaPut(v, t[i]), t, i + 1)

OutputVga(v, t) == OutputVgaFrom(v, t, 1)

\* The filter of debug_log and debug_log_raw.
Passes(d, level, sub) == d.init /\ level >= d.minLevel /\ sub \in d.enabled

\* A store whose tail index does not wrap.
StoreNoWrap(d, level, sub, text) ==
    IF d.count < MAX_ENTRIES
    THEN [d EXCEPT !.entries[d.tail] = <<level, sub, text>>, !.tail = @ + 1,
                   !.count = @ + 1, !.tick = @ + 1]
    ELSE [d EXCEPT !.dropped = @ + 1]

\* A store with an off-by-one capacity test.
StoreOverfull(d, level, sub, text) ==
    IF d.count <= MAX_ENTRIES
    THEN [d EXCEPT !.entries[d.tail % MAX_ENTRIES] = <<level, sub, text>>,
                   !.tail = (@ + 1) % MAX_ENTRIES, !.count = @ + 1,
                   !.tick = @ + 1]
    ELSE [d EXCEPT !.dropped = @ + 1]

(***************************************************************************)
(* debug_log_raw after its filter: count warnings, errors and fatals,     *)
(* then, while count < max_entries, stamp the entry at tail with the     *)
(* next debug_get_timestamp value and copy the message into it, else drop.*)
(* Nothing ever advances head, so a full buffer stays full.               *)
(***************************************************************************)
StoreEntry(d, level, sub, text) ==
    LET d1 == [d EXCEPT !.warnings = IF level = WARN THEN @ + 1 ELSE @,
                        !.errors = IF level = ERROR THEN @ + 1 ELSE @,
                        !.panicCount = IF level = FATAL THEN @ + 1 ELSE @]
    IN IF d1.count < MAX_ENTRIES
       THEN [d1 EXCEPT !.entries[d1.tail] = <<level, sub, text>>,
                       !.tail = (@ + 1) % MAX_ENTRIES,
                       !.count = @ + 1, !.tick = @ + 1]
       ELSE [d1 EXCEPT !.dropped = @ + 1]

\* debug_log_raw after its filter: store the entry, format the message
\* (which reads the clock again when timestamps are on), and hand it to
\* the VGA output, then the memory output, each when it is enabled.
LogRaw(d, level, sub, text) ==
    LET d1  == StoreEntry(d, level, sub, text)
        d2  == IF d1.timestamps THEN [d1 EXCEPT !.tick = @ + 1] ELSE d1
        msg == FormatMessage(d1, level, sub, text)
        d3  == IF d2.toVga THEN [d2 EXCEPT !.vga = OutputVga(@, msg)] ELSE d2
    IN IF d3.toMemory THEN OutputMemory(d3, msg) ELSE d3

\* debug_log: the filter, then debug_vlog formats and calls debug_log_raw.
Log(d, level, sub, call) ==
    IF Passes(d, level, sub) THEN LogRaw(d, level, sub, Vsprintf(call)) ELSE d

LogHist(d, h, level, sub, call) ==
    IF Passes(d, level, sub) THEN Append(h, <<level, sub, call>>) ELSE h

\* The formatted message debug_log_raw hands to its outputs.
Formatted(d, level, sub, call) ==
    FormatMessage(StoreEntry(d, level, sub, Vsprintf(call)), level, sub, Vsprintf(call))

\* The messages handed to debug_output_memory and to debug_output_vga.
MemHist(d, m, level, sub, call) ==
    IF Passes(d, level, sub) /\ d.toMemory THEN Append(m, Formatted(d, level, sub, call)) ELSE m

VgaHist(d, m, level, sub, call) ==
    IF Passes(d, level, sub) /\ d.toVga THEN Append(m, Formatted(d, level, sub, call)) ELSE m

(***************************************************************************)
(* debug_early_init: default filter (INFO and above, every subsystem),    *)
(* output to VGA and serial only, timestamps and subsystem names on,      *)
(* an empty buffer (the entries array itself is not cleared), counters    *)
(* zero, initialized set, and then its own DEBUG_BOOT INFO message.       *)
(***************************************************************************)
EarlyInitState(d) ==
    [d EXCEPT !.minLevel = INFO, !.enabled = AllSubsystems,
              !.toMemory = FALSE, !.toVga = TRUE, !.timestamps = TRUE, !.names = TRUE,
              !.head = 0, !.tail = 0, !.count = 0, !.dropped = 0,
              !.init = TRUE, !.panicCount = 0, !.errors = 0, !.warnings = 0]

\* kernel_main calls it first, once.
DebugEarlyInit ==
    /\ ~dbg.init
    /\ dbg' = Log(EarlyInitState(dbg), INFO, BOOT, Plain)
    /\ hist' = <<<<INFO, BOOT, Plain>>>>
    /\ memLog' = MemHist(EarlyInitState(dbg), memLog, INFO, BOOT, Plain)
    /\ vgaLog' = VgaHist(EarlyInitState(dbg), vgaLog, INFO, BOOT, Plain)
    /\ UNCHANGED <<halted, panics>>

\* debug_init: early init if not yet done, then a DEBUG_KERNEL INFO line.
DebugInit ==
    LET d == IF dbg.init THEN dbg ELSE Log(EarlyInitState(dbg), INFO, BOOT, Plain)
        h == IF dbg.init THEN hist ELSE <<<<INFO, BOOT, Plain>>>>
        m == IF dbg.init THEN memLog
             ELSE MemHist(EarlyInitState(dbg), memLog, INFO, BOOT, Plain)
        v == IF dbg.init THEN vgaLog
             ELSE VgaHist(EarlyInitState(dbg), vgaLog, INFO, BOOT, Plain)
    IN /\ ~halted
       /\ Len(hist) < MaxLogs
       /\ dbg' = Log(d, INFO, KERNEL, Plain)
       /\ hist' = LogHist(d, h, INFO, KERNEL, Plain)
       /\ memLog' = MemHist(d, m, INFO, KERNEL, Plain)
       /\ vgaLog' = VgaHist(d, v, INFO, KERNEL, Plain)
       /\ UNCHANGED <<halted, panics>>

\* debug_configure: the whole config is replaced, then it logs.
DebugConfigure(c) ==
    LET d == [dbg EXCEPT !.minLevel = c[1], !.enabled = c[2], !.toMemory = c[3],
                         !.timestamps = c[4], !.names = c[5], !.toVga = c[6]]
    IN /\ ~halted
       /\ Len(hist) < MaxLogs
       /\ dbg' = Log(d, INFO, KERNEL, Plain)
       /\ hist' = LogHist(d, hist, INFO, KERNEL, Plain)
       /\ memLog' = MemHist(d, memLog, INFO, KERNEL, Plain)
       /\ vgaLog' = VgaHist(d, vgaLog, INFO, KERNEL, Plain)
       /\ UNCHANGED <<halted, panics>>

DebugLogCall(level, sub, call) ==
    /\ ~halted
    /\ Len(hist) < MaxLogs
    /\ dbg' = Log(dbg, level, sub, call)
    /\ hist' = LogHist(dbg, hist, level, sub, call)
    /\ memLog' = MemHist(dbg, memLog, level, sub, call)
    /\ vgaLog' = VgaHist(dbg, vgaLog, level, sub, call)
    /\ UNCHANGED <<halted, panics>>

\* debug_panic: count the panic, log it as FATAL from KERNEL, halt.
DebugPanic ==
    LET d == [dbg EXCEPT !.panicCount = @ + 1]
    IN /\ ~halted
       /\ dbg' = Log(d, FATAL, KERNEL, PanicCall)
       /\ hist' = LogHist(d, hist, FATAL, KERNEL, PanicCall)
       /\ memLog' = MemHist(d, memLog, FATAL, KERNEL, PanicCall)
       /\ vgaLog' = VgaHist(d, vgaLog, FATAL, KERNEL, PanicCall)
       /\ halted' = TRUE
       /\ panics' = panics + 1

\* debug_assert: a failed condition panics; a holding one does nothing.
DebugAssert(cond) ==
    /\ ~halted
    /\ ~cond
    /\ DebugPanic

Next ==
    \/ DebugEarlyInit
    \/ DebugInit
    \/ \E c \in Configs : DebugConfigure(c)
    \/ \E l \in Levels, s \in Subsystems, m \in Calls : DebugLogCall(l, s, m)
    \/ DebugPanic
    \/ DebugAssert(FALSE)

Spec == Init /\ [][Next]_vars

-----------------------------------------------------------------------------
Entry == (Levels \cup {INFO, FATAL}) \X AllSubsystems \X Seq(0..127)

TypeOK ==
    /\ dbg.entries \in [0..(MAX_ENTRIES - 1) -> Entry \cup {None}]
    /\ dbg.head \in 0..(MAX_ENTRIES - 1)
    /\ dbg.tail \in 0..(MAX_ENTRIES - 1)
    /\ dbg.count \in 0..MAX_ENTRIES
    /\ dbg.dropped \in Nat
    /\ halted \in BOOLEAN
    /\ dbg.mem \in [0..(MEM_SIZE - 1) -> 0..127]
    /\ dbg.memOff \in 0..(MEM_SIZE - 1)
    /\ dbg.vga \in [screen : [Rows -> [Cols -> 0..127]], row : Rows, col : 0..VGA_TEXT_WIDTH]

\* The stored entry of a call: its level, subsystem and formatted text.
Stored(i) == dbg.entries[(dbg.head + i) % MAX_ENTRIES]

(***************************************************************************)
(* The buffer read from head holds exactly the oldest messages that       *)
(* passed the filter since debug_early_init, in the order they were       *)
(* logged, and every later one is counted in dropped_count: a full        *)
(* buffer keeps its oldest entries and discards new ones.                 *)
(***************************************************************************)
BufferKeepsOldest ==
    dbg.init =>
      /\ dbg.count + dbg.dropped = Len(hist)
      /\ \A i \in 0..(dbg.count - 1) :
            LET h == hist[i + 1]
            IN Stored(i) = <<h[1], h[2], Vsprintf(h[3])>>

\* What a digit character stands for, and the value of a string of digits
\* in base b read most significant first (-1 once it passes 2^31 - 1).
DigitValue(c) == IF c <= 57 THEN c - 48 ELSE c - 55

RECURSIVE ReadNumeral(_, _, _, _)
ReadNumeral(d, b, i, acc) ==
    IF i > Len(d) THEN acc
    ELSE IF acc > (2147483647 - DigitValue(d[i])) \div b THEN -1
    ELSE ReadNumeral(d, b, i + 1, acc * b + DigitValue(d[i]))

\* d is the shortest numeral in base b for n: digits only, no leading zero.
IsNumeral(d, n, b) ==
    /\ d # <<>>
    /\ \A i \in 1..Len(d) : d[i] \in (48..57 \cup 65..70) /\ DigitValue(d[i]) < b
    /\ d[1] = 48 => Len(d) = 1
    /\ ReadNumeral(d, b, 1, 0) = n

\* t is what a conversion c of argument a should print.
Renders(t, c, a) ==
    CASE c = 100 -> IF a < 0 THEN t # <<>> /\ t[1] = 45 /\ IsNumeral(Tail(t), -a, 10)
                    ELSE IsNumeral(t, a, 10)
      [] c = 120 -> Len(t) > 2 /\ SubSeq(t, 1, 2) = <<48, 120>>
                    /\ IsNumeral(SubSeq(t, 3, Len(t)), a, 16)
      [] c = 115 -> t = a

(***************************************************************************)
(* Every stored message says what its caller asked for: a format without *)
(* '%' is stored as it is, and one ending in a single conversion is its   *)
(* prefix followed by the argument printed in decimal with '-' exactly    *)
(* for a negative value (%d), as "0x" and upper-case hex digits (%x), or  *)
(* as the string (%s).  The digit loops of debug_int_to_string and        *)
(* debug_hex_to_string emit digits backwards and rely on the reversing    *)
(* copy and the zero case to get this right.                              *)
(***************************************************************************)
MessagesRenderCalls ==
    dbg.init =>
      \A i \in 0..(dbg.count - 1) :
        LET f == hist[i + 1][3][1]
            a == hist[i + 1][3][2]
            t == Stored(i)[3]
            n == Len(f)
        IN IF \A j \in 1..n : f[j] # 37 THEN t = f
           ELSE /\ Len(t) >= n - 2
                /\ SubSeq(t, 1, n - 2) = SubSeq(f, 1, n - 2)
                /\ Renders(SubSeq(t, n - 1, Len(t)), f[n], a[1])

\* The messages a buffer of MEM_SIZE bytes should hold, in order: each one
\* whole, if it fits together with the terminating NUL, or not at all.
RECURSIVE Kept(_, _)
Kept(acc, s) ==
    IF s = <<>> THEN acc
    ELSE Kept(IF Len(acc) + Len(Head(s)) + 1 <= MEM_SIZE THEN acc \o Head(s) ELSE acc,
              Tail(s))

\* g_debug_memory_buffer read as a C string from its start.
MemText ==
    LET Z == {i \in DOMAIN dbg.mem : dbg.mem[i] = 0}
        n == CHOOSE i \in Z : \A j \in Z : i <= j
    IN IF Z = {} THEN [i \in 1..MEM_SIZE |-> dbg.mem[i - 1]]
       ELSE [i \in 1..n |-> dbg.mem[i - 1]]

(***************************************************************************)
(* The memory log is one NUL-terminated string that ends at              *)
(* g_debug_memory_offset and is the concatenation of the messages         *)
(* debug_output_memory received since boot, each kept whole when it and   *)
(* its NUL fit and skipped otherwise (a later, shorter one may still fit).*)
(* The offset arithmetic and the bound of debug_output_memory, and        *)
(* debug_strcpy's terminator, must agree for this to hold.                *)
(***************************************************************************)
MemoryLogKeepsWholeMessages ==
    /\ dbg.memOff < MEM_SIZE
    /\ MemText = Kept(<<>>, memLog)
    /\ Len(MemText) = dbg.memOff

(***************************************************************************)
(* The VGA console shows the latest lines of the debug output: of the     *)
(* text handed to debug_output_vga since boot, split at its newlines, the *)
(* last VGA_TEXT_HEIGHT lines fill the screen from the top, each cut at   *)
(* VGA_TEXT_WIDTH characters; behind a line's end a row shows blanks if   *)
(* a scroll cleared it, the loader's text if not.  The cursor is at the  *)
(* end of the last line.  The scroll's row copy and clear, and the resets *)
(* of vga_col and vga_row in debug_output_vga, must agree for this.      *)
(***************************************************************************)
VgaShowsLatestLines ==
    LET T   == FlattenSeq(vgaLog)
        NL  == SelectSeq([i \in 1..Len(T) |-> i], LAMBDA i : T[i] = 10)
        n   == Len(NL)
        B   == <<0>> \o NL \o <<Len(T) + 1>>
        top == IF n >= VGA_TEXT_HEIGHT THEN n - VGA_TEXT_HEIGHT + 1 ELSE 0
        Line == [k \in top..n |-> SubSeq(T, B[k + 1] + 1, B[k + 2] - 1)]
        Cell(r, c) ==
            LET k == top + r
            IN IF k > n THEN LOADER
               ELSE IF c < Len(Line[k]) THEN Line[k][c + 1]
               ELSE IF k < VGA_TEXT_HEIGHT THEN LOADER
               ELSE 32
    IN /\ dbg.vga.screen = [r \in Rows |-> [c \in Cols |-> Cell(r, c)]]
       /\ dbg.vga.row = n - top
       /\ dbg.vga.col = IF Len(Line[n]) < VGA_TEXT_WIDTH THEN Len(Line[n]) ELSE VGA_TEXT_WIDTH

=============================================================================
