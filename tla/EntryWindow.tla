---------------------------- MODULE EntryWindow -----------------------------
(***************************************************************************)
(* The time window before the boot decision in which a HELLO frame opens   *)
(* an update session and a line of text opens the read-only diagnostic     *)
(* console.  Every byte goes to both the frame parser and the line buffer  *)
(* until one of them has what it waits for.                                *)
(***************************************************************************)
EXTENDS FrameParser

CONSTANTS
  Newline, Erase, Text,  \* the bytes a line editor tells apart; the rest are control bytes
  Space,
  HELLO,                 \* the command byte of the initial frame
  Words,                 \* the commands that leave the console: boot, reboot, recovery
  MAX_LINE_LENGTH,
  ENTRY_IDLE_POLLS,
  MaxTyped               \* bound on the history below

ASSUME EntryAssumption ==
  /\ Newline \subseteq Byte /\ Erase \subseteq Byte /\ Text \subseteq Byte
  /\ Newline \cap Erase = {} /\ Newline \cap Text = {} /\ Erase \cap Text = {}
  /\ Space \in Text /\ HELLO \in Byte
  /\ DOMAIN Words = {"BOOT", "RESET", "RECOVERY"}
  /\ \A w \in DOMAIN Words : Words[w] \in Seq(Text \ {Space}) /\ Words[w] # <<>>
  /\ MAX_LINE_LENGTH \in Nat \ {0} /\ ENTRY_IDLE_POLLS \in Nat \ {0}
  /\ MaxTyped \in Nat /\ MaxTyped > MAX_LINE_LENGTH

VARIABLES
  mode,          \* where update_mode_poll_and_process_mode is, or what it returned
  entry_parser,
  idle_polls, entry_byte_count,
  line,          \* text_line in the window, console.line afterwards
  line_overflow,
  typed          \* history: the line as an editor without a limit would show it

entry_vars == <<mode, entry_parser, idle_polls, entry_byte_count, line, line_overflow, typed>>

ENTRY_MAX_BYTES == 2 * MAX_FRAME_SIZE

EntryTypeOK ==
  /\ mode \in {"WINDOW", "CONSOLE", "HELLO"} \cup DOMAIN Words
  /\ entry_parser.state \in ParserStates
  /\ idle_polls \in 0..(ENTRY_IDLE_POLLS - 1)
  /\ entry_byte_count \in 0..(ENTRY_MAX_BYTES - 1)
  /\ line \in Seq(Text) /\ Len(line) <= MAX_LINE_LENGTH
  /\ line_overflow \in BOOLEAN
  /\ typed \in Seq(Text) /\ Len(typed) <= MaxTyped

EntryInit ==
  /\ mode = "WINDOW"
  /\ entry_parser = parser_init
  /\ idle_polls = 0 /\ entry_byte_count = 0
  /\ line = <<>> /\ line_overflow = FALSE /\ typed = <<>>

-----------------------------------------------------------------------------
(* One line of text.                                                       *)

erased(s) == IF s = <<>> THEN <<>> ELSE SubSeq(s, 1, Len(s) - 1)

accept_text(byte) ==
  /\ IF Len(line) >= MAX_LINE_LENGTH
       THEN line_overflow' = TRUE /\ UNCHANGED line
       ELSE line' = Append(line, byte) /\ UNCHANGED line_overflow
  /\ Len(typed) < MaxTyped
  /\ typed' = Append(typed, byte)

\* Room in the buffer is taken to mean that the line fits again.
accept_erase_clears_overflow ==
  line' = erased(line) /\ typed' = erased(typed) /\ line_overflow' = FALSE

\* An overflow is not undone: what did not fit is not remembered.
accept_erase ==
  line' = erased(line) /\ typed' = erased(typed) /\ UNCHANGED line_overflow

reset_text_line == line' = <<>> /\ typed' = <<>> /\ line_overflow' = FALSE

\* The only word of a line; a line with none or with more is no command.
sole_word(s) ==
  LET ink == {i \in 1..Len(s) : s[i] # Space} IN
  IF ink # {} /\ \A i \in Min(ink)..Max(ink) : i \in ink
    THEN SubSeq(s, Min(ink), Max(ink)) ELSE <<>>

\* help, version, info, slots, metadata, flashinfo, resetcause, performance and
\* status print, change nothing and stay in the console, as an error does.
read_only_command == "CONSOLE"

\* Where a command leads.
effect(s) ==
  IF \E w \in DOMAIN Words : Words[w] = sole_word(s)
    THEN CHOOSE w \in DOMAIN Words : Words[w] = sole_word(s)
    ELSE read_only_command

execute_line(s) == mode' = effect(s) /\ reset_text_line

-----------------------------------------------------------------------------
(* wait_for_update_or_console_entry.                                       *)

frame_is_initial_hello(p) ==
  p.header = Magic \o <<HELLO, 0, 0>>

\* Only idle polls end the window.
window_next_unbounded == mode' = mode /\ UNCHANGED entry_byte_count

\* The loop's condition on the number of bytes.
window_next ==
  IF entry_byte_count + 1 >= ENTRY_MAX_BYTES
    THEN mode' = "BOOT" /\ UNCHANGED entry_byte_count
    ELSE entry_byte_count' = entry_byte_count + 1 /\ UNCHANGED mode

initial_line == IF line_overflow THEN <<>> ELSE line

WindowHello(byte) ==
  /\ mode = "WINDOW"
  /\ parser_push(entry_parser, byte).status = "FRAME_READY"
  /\ frame_is_initial_hello(entry_parser)
  /\ mode' = "HELLO"
  /\ UNCHANGED <<entry_parser, idle_polls, entry_byte_count, line, line_overflow, typed>>

WindowByte(byte) ==
  LET r == parser_push(entry_parser, byte) IN
  /\ mode = "WINDOW"
  /\ ~(r.status = "FRAME_READY" /\ frame_is_initial_hello(entry_parser))
  /\ entry_parser' = IF r.status = "NEED_MORE" THEN r.parser ELSE parser_init
  /\ idle_polls' = 0
  /\ \/ /\ byte \in Newline
        /\ execute_line(initial_line)
        /\ UNCHANGED entry_byte_count
     \/ byte \in Erase /\ accept_erase /\ window_next
     \/ byte \in Text /\ accept_text(byte) /\ window_next
     \/ byte \notin Newline \cup Erase \cup Text /\ reset_text_line /\ window_next

WindowIdle ==
  /\ mode = "WINDOW"
  /\ IF idle_polls + 1 >= ENTRY_IDLE_POLLS
       THEN mode' = "BOOT" /\ UNCHANGED idle_polls
       ELSE idle_polls' = idle_polls + 1 /\ UNCHANGED mode
  /\ UNCHANGED <<entry_parser, entry_byte_count, line, line_overflow, typed>>

-----------------------------------------------------------------------------
(* diagnostic_console_run after the first line.                            *)

ConsoleByte(byte) ==
  /\ mode = "CONSOLE"
  /\ \/ byte \in Newline /\ execute_line(IF line_overflow THEN <<>> ELSE line)
     \/ byte \in Erase /\ accept_erase /\ UNCHANGED mode
     \/ byte \in Text /\ accept_text(byte) /\ UNCHANGED mode
     \/ byte \notin Newline \cup Erase \cup Text /\ execute_line(<<>>)
  /\ UNCHANGED <<entry_parser, idle_polls, entry_byte_count>>

ConsoleTimeout ==
  /\ mode = "CONSOLE"
  /\ mode' = "BOOT"
  /\ UNCHANGED <<entry_parser, idle_polls, entry_byte_count, line, line_overflow, typed>>

\* A receive error of the UART ends both.
ReaderError ==
  /\ mode \in {"WINDOW", "CONSOLE"}
  /\ mode' = "BOOT"
  /\ UNCHANGED <<entry_parser, idle_polls, entry_byte_count, line, line_overflow, typed>>

\* update_mode_run_recovery, or the next boot, opens the window again.
Reopen ==
  /\ mode \notin {"WINDOW", "CONSOLE"}
  /\ mode' = "WINDOW"
  /\ entry_parser' = parser_init
  /\ idle_polls' = 0 /\ entry_byte_count' = 0
  /\ reset_text_line

WindowStep == WindowIdle \/ \E byte \in Byte : WindowHello(byte) \/ WindowByte(byte)

EntryNext ==
  \/ WindowStep
  \/ \E byte \in Byte : ConsoleByte(byte)
  \/ ConsoleTimeout
  \/ ReaderError
  \/ Reopen

\* The window polls without blocking.
EntrySpec == EntryInit /\ [][EntryNext]_entry_vars /\ WF_entry_vars(WindowStep)

-----------------------------------------------------------------------------
(* Properties.                                                             *)

\* The buffer holds the line as it was typed unless it is marked as too long:
\* no order of typing past the end and erasing makes a line that was cut pass
\* for a whole one.
LineIsWhatWasTyped == ~line_overflow => line = typed

\* Whatever arrives, the window closes: by HELLO, by a line, by its idle polls
\* or by its byte budget.
WindowEnds == (mode = "WINDOW") ~> (mode # "WINDOW")
=============================================================================
