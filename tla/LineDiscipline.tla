--------------------------- MODULE LineDiscipline ---------------------------
(***************************************************************************)
(* The keyboard line editor and terminal_read of student-distrib:          *)
(*   keyboard.c  handle_keyboard_input and its helpers: keyboard_insert,   *)
(*               keyboard_backspace, the arrows, up/down_history,          *)
(*               copy_to_history, ENTER, clear_keyboard_buffer,            *)
(*               keyboard_read                                             *)
(*   terminal.c  terminal_read, terminal_return (the return_switch         *)
(*               handshake between them)                                   *)
(* Keys go to the displayed terminal (current_terminal); a read belongs to *)
(* the terminal whose process the timer last scheduled (current_process).  *)
(* Both change under Kernel's actions; here they change freely: Display    *)
(* is an Alt+Fn switch between running terminals, Schedule a timer tick.   *)
(* The history of displayed_pid, the top process of the displayed          *)
(* terminal, is kept per terminal: the processes on the terminals do not   *)
(* change in this module.  Character buffers keep their C layout (index    *)
(* 0 .. MAX_BUFFER_SIZE-1); a history entry is the string before its NUL.  *)
(***************************************************************************)
EXTENDS Integers, Sequences, FiniteSets, FiniteSetsExt, SequencesExt

CONSTANTS
  NumTerminals,     \* NUM_TERMINALS
  MaxBufferSize,    \* MAX_BUFFER_SIZE; MAX_CHARACTERS is one less
  NumHistory,       \* NUM_HISTORY_BUFFERS
  MaxEnters,        \* bound on the ENTER presses explored
  Chars,            \* printable characters typed
  WindowIrqs,       \* the interrupts that may arrive in terminal_write's
                    \* window: a subset of {"key", "tick"}
  MaxNest,          \* bound on keyboard handlers nested on one stack
  NUL, NL, None     \* model values: '\0', '\n', no result

ASSUME /\ NumTerminals \in 1 .. 3
       /\ MaxBufferSize >= 2
       /\ NumHistory >= 2
       /\ WindowIrqs \subseteq {"key", "tick"}
       /\ MaxNest \in Nat \ {0}
       /\ NUL \notin Chars /\ NL \notin Chars /\ NUL # NL

Terminals == 0 .. NumTerminals - 1
MAX_CHARACTERS == MaxBufferSize - 1
Idx == 0 .. MaxBufferSize - 1
Byte == Chars \cup {NUL, NL}
Lines == UNION {[1 .. n -> Chars] : n \in 0 .. MAX_CHARACTERS}
SWITCH_OFF == 0
SWITCH_ON == 1

VARIABLES
  buffer, bufferIDX, bufferSIZE,            \* keyboard.c, per terminal
  history, historyIDX, historyBASE, historySIZE,
  read_buffer, return_switch,               \* terminal.c, per terminal
  current_terminal, current_process,
  reading,      \* nbytes of the terminal_read its process waits in, or 0
  released,     \* ghost: the line whose ENTER released that read
  enters,       \* ghost: ENTER presses so far, at most MaxEnters
  pending       \* pending[p]: the keyboard_insert/keyboard_backspace calls
                \* on p's kernel stack that are inside terminal_write,
                \* innermost last

kbd == <<buffer, bufferIDX, bufferSIZE>>
hist == <<history, historyIDX, historyBASE, historySIZE>>
rest == <<read_buffer, return_switch, current_terminal, current_process,
          reading, released, enters, pending>>
vars == <<buffer, bufferIDX, bufferSIZE, history, historyIDX, historyBASE,
          historySIZE, read_buffer, return_switch, current_terminal,
          current_process, reading, released, enters, pending>>

TypeOK ==
  /\ buffer \in [Terminals -> [Idx -> Byte]]
  /\ bufferIDX \in [Terminals -> 0 .. MAX_CHARACTERS]
  /\ bufferSIZE \in [Terminals -> 0 .. MAX_CHARACTERS]
  /\ history \in [Terminals -> [0 .. NumHistory - 1 -> Lines]]
  /\ historyIDX \in [Terminals -> 0 .. NumHistory - 1]
  /\ historyBASE \in [Terminals -> 0 .. NumHistory - 1]
  /\ historySIZE \in [Terminals -> 0 .. NumHistory]
  /\ read_buffer \in [Terminals -> [Idx -> Byte]]
  /\ return_switch \in [Terminals -> {SWITCH_OFF, SWITCH_ON}]
  /\ current_terminal \in Terminals /\ current_process \in Terminals
  /\ reading \in [Terminals -> 0 .. MaxBufferSize]
  /\ released \in [Terminals -> Lines]
  /\ enters \in 0 .. MaxEnters
  /\ pending \in [Terminals -> Seq({"insert", "backspace"})]
  /\ \A p \in Terminals : Len(pending[p]) <= MaxNest

EmptyBuffer == [i \in Idx |-> NUL]

(* keyboard_open's clear_all_keyboard_buffers and the zeroed read buffers *)
(* and switches of boot; every terminal runs a shell, none is reading.    *)
Init ==
  /\ buffer = [t \in Terminals |-> EmptyBuffer]
  /\ bufferIDX = [t \in Terminals |-> 0]
  /\ bufferSIZE = [t \in Terminals |-> 0]
  /\ history = [t \in Terminals |-> [k \in 0 .. NumHistory - 1 |-> <<>>]]
  /\ historyIDX = [t \in Terminals |-> 0]
  /\ historyBASE = [t \in Terminals |-> 0]
  /\ historySIZE = [t \in Terminals |-> 0]
  /\ read_buffer = [t \in Terminals |-> EmptyBuffer]
  /\ return_switch = [t \in Terminals |-> SWITCH_OFF]
  /\ current_terminal = 0
  /\ current_process = 0
  /\ reading = [t \in Terminals |-> 0]
  /\ released = [t \in Terminals |-> <<>>]
  /\ enters = 0
  /\ pending = [t \in Terminals |-> <<>>]

(* The string in a character array: the bytes before the first NUL or NL. *)
CString(buf) ==
  LET stops == {i \in Idx : buf[i] \in {NUL, NL}}
      n == IF stops = {} THEN MaxBufferSize ELSE Min(stops)
  IN  [k \in 1 .. n |-> buf[k - 1]]

(* clear_keyboard_buffer, then the copy loop of up/down_history. *)
LoadLine(line) == [i \in Idx |-> IF i < Len(line) THEN line[i + 1] ELSE NUL]

(* keyboard_insert up to terminal_write: shift buffer[IDX .. SIZE] right *)
(* by one and store c.  Bytes shifted past the array are not kept.        *)
KeyboardInsert(t, c) ==
  LET b == buffer[t]  idx == bufferIDX[t]  size == bufferSIZE[t]
  IN  [buffer EXCEPT ![t] =
         [i \in Idx |-> CASE i = idx                  -> c
                          [] idx < i /\ i <= size + 1 -> b[i - 1]
                          [] OTHER                    -> b[i]]]

(* keyboard_backspace up to terminal_write: shift buffer[IDX .. SIZE]     *)
(* left over IDX-1 and NUL buffer[SIZE].                                  *)
KeyboardBackspace(t) ==
  LET b == buffer[t]  idx == bufferIDX[t]  size == bufferSIZE[t]
  IN  [buffer EXCEPT ![t] =
         [i \in Idx |-> CASE idx - 1 <= i /\ i < size -> b[i + 1]
                          [] i = size                 -> NUL
                          [] OTHER                    -> b[i]]]

(* What keyboard_insert and keyboard_backspace do to bufferIDX and        *)
(* bufferSIZE of current_terminal once terminal_write has returned.       *)
Step(op) == IF op = "insert" THEN 1 ELSE -1

KeyboardRightArrowPastEnd(t) == bufferIDX[t] < MAX_CHARACTERS

(* keyboard_right_arrow's early return at the end of the line. *)
KeyboardRightArrow(t) == bufferIDX[t] # bufferSIZE[t]

(* keyboard_read(fd, dst, MAX_BUFFER_SIZE): copies src up to and          *)
(* including its first NL or NUL.                                         *)
KeyboardRead(src, dst) ==
  LET stop == Min({i \in Idx : src[i] \in {NUL, NL}})
  IN  [i \in Idx |-> IF i <= stop THEN src[i] ELSE dst[i]]

NextHistoryNoWrap(k) == k + 1

(* increment_history_indices' and down_history's (k + 1) % NUM_HISTORY_BUFFERS. *)
NextHistory(k) == (k + 1) % NumHistory

(* up_history's i - 1, wrapped to NUM_HISTORY_BUFFERS - 1 below 0. *)
PrevHistory(k) == IF k - 1 < 0 THEN NumHistory - 1 ELSE k - 1

UpAllowedPastOldest(t) == PrevHistory(historyIDX[t]) # historyBASE[t]

(* up_history's two early returns: nothing older was entered yet, or the *)
(* next older entry is the base again.                                   *)
UpAllowed(t) ==
  /\ ~(historySIZE[t] < NumHistory /\ historyIDX[t] = 0)
  /\ PrevHistory(historyIDX[t]) # historyBASE[t]

ReturnTargetScheduled == current_process

(* terminal_return acts on return_switch[current_terminal]. *)
ReturnTarget == current_terminal

-----------------------------------------------------------------------------
(* handle_keyboard_input, one action per kind of key; every key acts on  *)
(* the displayed terminal ct.  Modifier keys and invalid codes change no *)
(* modelled state; Alt+Fn is Display.                                     *)

(* IRQ1 reaches handle_keyboard_input when the running process is not    *)
(* inside a keyboard handler, or when keys may arrive in its window.      *)
KeyAllowed ==
  pending[current_process] = <<>> \/ "key" \in WindowIrqs

(* A printable key: the shift and store, then terminal_write, whose        *)
(* send_eoi(IRQ1); sti() opens the window before bufferIDX++ and         *)
(* bufferSIZE++.                                                          *)
Insert(c) ==
  LET ct == current_terminal  cp == current_process
  IN  /\ KeyAllowed
      /\ bufferSIZE[ct] # MAX_CHARACTERS
      /\ Len(pending[cp]) < MaxNest
      /\ buffer' = KeyboardInsert(ct, c)
      /\ pending' = [pending EXCEPT ![cp] = Append(@, "insert")]
      /\ UNCHANGED <<bufferIDX, bufferSIZE, hist, read_buffer, return_switch,
                     current_terminal, current_process, reading, released,
                     enters>>

Backspace ==
  LET ct == current_terminal  cp == current_process
  IN  /\ KeyAllowed
      /\ bufferIDX[ct] # 0
      /\ Len(pending[cp]) < MaxNest
      /\ buffer' = KeyboardBackspace(ct)
      /\ pending' = [pending EXCEPT ![cp] = Append(@, "backspace")]
      /\ UNCHANGED <<bufferIDX, bufferSIZE, hist, read_buffer, return_switch,
                     current_terminal, current_process, reading, released,
                     enters>>

(* The innermost keyboard handler on the running process's stack returns *)
(* from terminal_write and moves bufferIDX and bufferSIZE of the          *)
(* terminal displayed now.                                                *)
WriteReturn ==
  LET cp == current_process  ct == current_terminal
      d  == Step(Last(pending[cp]))
  IN  /\ pending[cp] # <<>>
      /\ bufferIDX' = [bufferIDX EXCEPT ![ct] = @ + d]
      /\ bufferSIZE' = [bufferSIZE EXCEPT ![ct] = @ + d]
      /\ pending' = [pending EXCEPT ![cp] = Front(@)]
      /\ UNCHANGED <<buffer, hist, read_buffer, return_switch, current_terminal,
                     current_process, reading, released, enters>>

LeftArrow ==
  LET ct == current_terminal
  IN  /\ KeyAllowed
      /\ bufferIDX[ct] # 0
      /\ bufferIDX' = [bufferIDX EXCEPT ![ct] = @ - 1]
      /\ UNCHANGED <<buffer, bufferSIZE, hist, rest>>

RightArrow ==
  LET ct == current_terminal
  IN  /\ KeyAllowed
      /\ KeyboardRightArrow(ct)
      /\ bufferIDX' = [bufferIDX EXCEPT ![ct] = @ + 1]
      /\ UNCHANGED <<buffer, bufferSIZE, hist, rest>>

(* Ctrl+L: clear_keyboard_buffer and terminal_clear. *)
CtrlL ==
  LET ct == current_terminal
  IN  /\ KeyAllowed
      /\ buffer' = [buffer EXCEPT ![ct] = EmptyBuffer]
      /\ bufferIDX' = [bufferIDX EXCEPT ![ct] = 0]
      /\ bufferSIZE' = [bufferSIZE EXCEPT ![ct] = 0]
      /\ UNCHANGED <<hist, rest>>

(* up_history: at the base, copy_to_history saves the line being edited; *)
(* then the next older entry replaces the keyboard buffer.               *)
UpHistory ==
  LET ct == current_terminal
      k  == PrevHistory(historyIDX[ct])
      h  == IF historyIDX[ct] = historyBASE[ct]
            THEN [history[ct] EXCEPT ![historyBASE[ct]] = CString(buffer[ct])]
            ELSE history[ct]
  IN  /\ KeyAllowed
      /\ UpAllowed(ct)
      /\ history' = [history EXCEPT ![ct] = h]
      /\ historyIDX' = [historyIDX EXCEPT ![ct] = k]
      /\ buffer' = [buffer EXCEPT ![ct] = LoadLine(h[k])]
      /\ bufferIDX' = [bufferIDX EXCEPT ![ct] = Len(h[k])]
      /\ bufferSIZE' = [bufferSIZE EXCEPT ![ct] = Len(h[k])]
      /\ UNCHANGED <<historyBASE, historySIZE, rest>>

(* down_history: back towards the base, whose entry is the saved line. *)
DownHistory ==
  LET ct == current_terminal
      k  == NextHistory(historyIDX[ct])
  IN  /\ KeyAllowed
      /\ ~(historySIZE[ct] < NumHistory /\ historyIDX[ct] = historyBASE[ct])
      /\ historyIDX[ct] # historyBASE[ct]
      /\ historyIDX' = [historyIDX EXCEPT ![ct] = k]
      /\ buffer' = [buffer EXCEPT ![ct] = LoadLine(history[ct][k])]
      /\ bufferIDX' = [bufferIDX EXCEPT ![ct] = Len(history[ct][k])]
      /\ bufferSIZE' = [bufferSIZE EXCEPT ![ct] = Len(history[ct][k])]
      /\ UNCHANGED <<history, historyBASE, historySIZE, rest>>

(* ENTER: a non-empty line goes to history (copy_to_history,             *)
(* increment_history_indices); NL is stored at buffer[SIZE];              *)
(* terminal_return hands the line to a waiting terminal_read through      *)
(* keyboard_read and clears the switch; clear_keyboard_buffer.            *)
Enter ==
  LET ct   == current_terminal
      rt   == ReturnTarget
      rec  == buffer[ct][0] # NUL
      base == historyBASE[ct]
      nb   == [buffer[ct] EXCEPT ![bufferSIZE[ct]] = NL]
  IN  /\ KeyAllowed
      /\ enters < MaxEnters
      /\ enters' = enters + 1
      /\ history' = IF rec THEN [history EXCEPT ![ct][base] = CString(buffer[ct])]
                    ELSE history
      /\ historyBASE' = IF rec THEN [historyBASE EXCEPT ![ct] = NextHistory(base)]
                        ELSE historyBASE
      /\ historyIDX' = IF rec THEN [historyIDX EXCEPT ![ct] = NextHistory(base)]
                       ELSE historyIDX
      /\ historySIZE' = IF rec /\ historySIZE[ct] < NumHistory
                        THEN [historySIZE EXCEPT ![ct] = @ + 1] ELSE historySIZE
      /\ IF return_switch[rt] = SWITCH_ON
         THEN /\ read_buffer' = [read_buffer EXCEPT ![rt] = KeyboardRead(nb, @)]
              /\ return_switch' = [return_switch EXCEPT ![rt] = SWITCH_OFF]
         ELSE UNCHANGED <<read_buffer, return_switch>>
      /\ released' = IF return_switch[ct] = SWITCH_ON
                     THEN [released EXCEPT ![ct] = CString(nb)] ELSE released
      /\ buffer' = [buffer EXCEPT ![ct] = EmptyBuffer]
      /\ bufferIDX' = [bufferIDX EXCEPT ![ct] = 0]
      /\ bufferSIZE' = [bufferSIZE EXCEPT ![ct] = 0]
      /\ UNCHANGED <<current_terminal, current_process, reading, pending>>

(* Alt+Fn to another running terminal (terminal_switch, see Kernel).     *)
(* handle_keyboard_input tests for a full line before it decodes Alt+Fn, *)
(* so a full line keeps the display where it is.                          *)
Display(t) ==
  /\ KeyAllowed
  /\ bufferSIZE[current_terminal] # MAX_CHARACTERS
  /\ t # current_terminal
  /\ current_terminal' = t
  /\ UNCHANGED <<kbd, hist, read_buffer, return_switch, current_process,
                 reading, released, enters, pending>>

(* A timer tick that schedules terminal t's process (timer_handler). *)
Schedule(t) ==
  /\ pending[current_process] = <<>> \/ "tick" \in WindowIrqs
  /\ t # current_process
  /\ current_process' = t
  /\ UNCHANGED <<kbd, hist, read_buffer, return_switch, current_terminal,
                 reading, released, enters, pending>>

(* terminal_read(fd, buf, nbytes) by the scheduled process, up to its     *)
(* wait: return_switch[current_process] := SWITCH_ON.                     *)
ReadStart(n) ==
  LET cip == current_process
  IN  /\ pending[cip] = <<>>
      /\ reading[cip] = 0
      /\ return_switch' = [return_switch EXCEPT ![cip] = SWITCH_ON]
      /\ reading' = [reading EXCEPT ![cip] = n]
      /\ UNCHANGED <<kbd, hist, read_buffer, current_terminal, current_process,
                     released, enters, pending>>

(* terminal_read after its wait: read_buffer[cip][nbytes-1] := NUL, then *)
(* the scan for the first NL (past the row when there is none: None).     *)
ReadBuf(cip) == [read_buffer[cip] EXCEPT ![reading[cip] - 1] = NUL]

ReadCount(rb) ==
  LET nls == {i \in Idx : rb[i] = NL}
  IN  IF nls = {} THEN None ELSE Min(nls) + 1

(* strncpy(buf, rb, nbytes): the bytes up to the first NUL, then NULs. *)
ReadData(rb, n) ==
  LET nul == Min({i \in Idx : rb[i] = NUL})
  IN  [k \in 1 .. n |-> IF k - 1 < nul THEN rb[k - 1] ELSE NUL]

(* The rest of terminal_read once its process runs and sees SWITCH_OFF:   *)
(* terminate, scan, copy and return i + 1 (ReadCount).  The ghost line is *)
(* consumed with it.                                                      *)
ReadReturn ==
  LET cip == current_process
  IN  /\ pending[cip] = <<>>
      /\ reading[cip] > 0
      /\ return_switch[cip] = SWITCH_OFF
      /\ read_buffer' = [read_buffer EXCEPT ![cip] = ReadBuf(cip)]
      /\ reading' = [reading EXCEPT ![cip] = 0]
      /\ released' = [released EXCEPT ![cip] = <<>>]
      /\ UNCHANGED <<kbd, hist, return_switch, current_terminal, current_process,
                     enters, pending>>

Next ==
  \/ \E c \in Chars : Insert(c)
  \/ Backspace \/ LeftArrow \/ RightArrow \/ CtrlL
  \/ UpHistory \/ DownHistory \/ Enter
  \/ \E t \in Terminals : Display(t) \/ Schedule(t)
  \/ \E n \in 1 .. MaxBufferSize : ReadStart(n)
  \/ ReadReturn
  \/ WriteReturn

Spec == Init /\ [][Next]_vars

-----------------------------------------------------------------------------
(* Properties *)

(* Whenever no keyboard handler is inside terminal_write, the line editor *)
(* keeps buffer[t] a string of bufferSIZE characters, at most             *)
(* MAX_CHARACTERS, followed by NULs, with the cursor bufferIDX inside it,  *)
(* through every mix of inserts, deletions, cursor moves, history recalls *)
(* and ENTER: keyboard_insert and keyboard_backspace finish their shift   *)
(* and their index update on the same line.                               *)
LineWellFormed ==
  (\A p \in Terminals : pending[p] = <<>>) =>
    \A t \in Terminals :
      /\ 0 <= bufferIDX[t] /\ bufferIDX[t] <= bufferSIZE[t]
      /\ bufferSIZE[t] <= MAX_CHARACTERS
      /\ \A i \in Idx : IF i < bufferSIZE[t] THEN buffer[t][i] \in Chars
                                              ELSE buffer[t][i] = NUL

(* Browsing history never lands on an entry no ENTER wrote: every slot    *)
(* up/down_history can reach other than the base holds an entered line.  *)
HistoryBrowsesEntries ==
  \A t \in Terminals :
    historyIDX[t] # historyBASE[t] => history[t][historyIDX[t]] # <<>>

(* A terminal_read whose count fits its buffer returns, up to that      *)
(* count, the line whose ENTER on its own terminal released it, ending in *)
(* NL: terminal_return must fill the buffer of the reader it wakes.       *)
ReadDeliversOwnLine ==
  [][ReadReturn =>
       LET cip == current_process
           rb  == ReadBuf(cip)
           n   == reading[cip]
       IN  ReadCount(rb) # None /\ ReadCount(rb) < n =>
             SubSeq(ReadData(rb, n), 1, ReadCount(rb)) = released[cip] \o <<NL>>]_vars
=============================================================================
