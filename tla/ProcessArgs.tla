---------------------------- MODULE ProcessArgs ----------------------------
(***************************************************************************)
(* The per-process argument buffer of student-distrib:                     *)
(*   process_control.c  create_new_pcb (calls clear_args), clear_args      *)
(*   syscalls.c         execute (copies the command tail), getargs, halt   *)
(* control_blocks[p].args is a sequence of ArgsBufferSize characters; NUL  *)
(* ends the C string.  A command is a program name of ProgLen characters,  *)
(* then, when there are arguments, one space and the tail; the characters  *)
(* are the model values of Chars.  Opening and loading the program is      *)
(* FdTable's and Kernel's concern: an execute here is one that loads.      *)
(* Ghost state: pending[p] says p was given a tail by the execute that     *)
(* created it and has not yet read it with getargs.                        *)
(***************************************************************************)
EXTENDS Integers, Sequences, FiniteSets, FiniteSetsExt, SequencesExt

CONSTANTS
  MaxProcesses,     \* MAX_PROCESSES; control blocks 0 .. MaxProcesses
  ArgsBufferSize,   \* ARGS_BUFFER_SIZE
  ExecBufferSize,   \* EXEC_BUFFER_SIZE
  ProgLen,          \* length of the program names executed
  Chars,            \* the characters of command tails (not NUL, not space)
  MaxNbytes,        \* largest nbytes passed to getargs
  NUL               \* model value

(* As in the code (125-character tails at most, a 1024-byte buffer), every *)
(* tail execute accepts fits in the buffer with room for a NUL.            *)
ASSUME /\ MaxProcesses \in 1 .. 6
       /\ ProgLen >= 1
       /\ ExecBufferSize - ProgLen - 2 < ArgsBufferSize
       /\ MaxNbytes \in Nat
       /\ NUL \notin Chars

SENTINEL_PROCESS == 0
Pids == 0 .. MaxProcesses
Buffer == [1 .. ArgsBufferSize -> Chars \cup {NUL}]
(* Tails a user may type: up to one character longer than the buffer. *)
Tails == UNION {[1 .. n -> Chars] : n \in 0 .. ArgsBufferSize}

VARIABLES
  args,                  \* control_blocks[p].args
  pid,                   \* control_blocks[p].pid (p, or -1 when free)
  parent,                \* control_blocks[p].parent
  current_pid,
  num_active_processes,
  pending                \* ghost, see above

vars == <<args, pid, parent, current_pid, num_active_processes,
          pending>>

TypeOK ==
  /\ args \in [Pids -> Buffer]
  /\ pid \in [Pids -> {-1} \cup Pids]
  /\ parent \in [Pids -> Pids]
  /\ current_pid \in Pids
  /\ num_active_processes \in 0 .. MaxProcesses
  /\ pending \in [Pids -> BOOLEAN]

(* process_control_block_init zeroes every buffer; the boot shell (pid 1) *)
(* was executed without arguments.                                        *)
Init ==
  /\ args = [p \in Pids |-> [i \in 1 .. ArgsBufferSize |-> NUL]]
  /\ pid = [p \in Pids |-> IF p = 1 THEN 1 ELSE -1]
  /\ parent = [p \in Pids |-> 0]
  /\ current_pid = 1
  /\ num_active_processes = 1
  /\ pending = [p \in Pids |-> FALSE]

(* strlen: the index of the first NUL; the buffer length if there is none *)
(* (the C call would then run past the buffer).                           *)
StrLen(buf) ==
  IF \E i \in DOMAIN buf : buf[i] = NUL
  THEN Min({i \in DOMAIN buf : buf[i] = NUL}) - 1
  ELSE Len(buf)

ClearArgsFromTwo(buf) ==
  [i \in DOMAIN buf |-> IF 2 <= i /\ i <= StrLen(buf) THEN NUL ELSE buf[i]]

(* clear_args: writes NUL up to the first NUL already there. *)
ClearArgs(buf) ==
  [i \in DOMAIN buf |-> IF i <= StrLen(buf) THEN NUL ELSE buf[i]]

(* strncpy(args, tail, strlen(tail)): copies the characters, no NUL. *)
CopyTail(buf, tail) ==
  [i \in DOMAIN buf |-> IF i <= Len(tail) THEN tail[i] ELSE buf[i]]

CommandLen(tail) == ProgLen + (IF tail = <<>> THEN 0 ELSE 1 + Len(tail))

CommandFitsUnchecked(tail) == TRUE

(* execute's strlen(command) >= EXEC_BUFFER_SIZE refusal. *)
CommandFits(tail) == CommandLen(tail) < ExecBufferSize

(* create_new_pcb: the first free pid from 1, or FAILURE (-1). *)
NewPid == IF \E p \in 1 .. MaxProcesses : pid[p] = -1
          THEN Min({p \in 1 .. MaxProcesses : pid[p] = -1}) ELSE -1

ExecuteAllowedOffByOne(n) == n <= MaxProcesses

(* execute's num_active_processes >= MAX_PROCESSES refusal. *)
ExecuteAllowed(n) == n < MaxProcesses

(* execute(command) by process cp: the length and process-count checks,   *)
(* create_new_pcb(cp), whose clear_args runs while current_pid is still   *)
(* cp, then the child's arguments: clear_args with none, else strncpy.    *)
Launch(cp, tail) ==
  LET new == NewPid
  IN  /\ ExecuteAllowed(num_active_processes)
      /\ CommandFits(tail)
      /\ args' = [args EXCEPT
                    ![cp]  = ClearArgs(@),
                    ![new] = IF tail = <<>> THEN ClearArgs(@) ELSE CopyTail(@, tail)]
      /\ pid' = [pid EXCEPT ![new] = new]
      /\ parent' = [parent EXCEPT ![new] = cp]
      /\ num_active_processes' = num_active_processes + 1
      /\ current_pid' = new
      /\ pending' = [pending EXCEPT ![new] = tail # <<>>]

Execute(tail) == current_pid # SENTINEL_PROCESS /\ Launch(current_pid, tail)

(* The HALTED path: the sentinel executes "shell" with no arguments. *)
Relaunch == current_pid = SENTINEL_PROCESS /\ Launch(SENTINEL_PROCESS, <<>>)

(* halt: destroy_pcb and back to the parent; the buffer is left as it is. *)
Halt ==
  /\ current_pid # SENTINEL_PROCESS
  /\ pid' = [pid EXCEPT ![current_pid] = -1]
  /\ num_active_processes' = num_active_processes - 1
  /\ current_pid' = parent[current_pid]
  /\ UNCHANGED <<args, parent, pending>>

(* getargs(buf, nbytes) when it succeeds: nbytes > 0 and                  *)
(* 0 < strlen(args) <= nbytes; strlen(args) characters and a NUL are      *)
(* written to buf (the NUL at buf[nbytes] when strlen(args) = nbytes)     *)
(* and clear_args runs.  Its failures change nothing.                     *)
GetArgs(nbytes) ==
  LET buf  == args[current_pid]
      size == StrLen(buf)
  IN  /\ current_pid # SENTINEL_PROCESS
      /\ nbytes > 0
      /\ size <= nbytes /\ size > 0
      /\ args' = [args EXCEPT ![current_pid] = ClearArgs(@)]
      /\ pending' = [pending EXCEPT ![current_pid] = FALSE]
      /\ UNCHANGED <<pid, parent, current_pid, num_active_processes>>

Next ==
  \/ \E t \in Tails : Execute(t)
  \/ Relaunch
  \/ Halt
  \/ \E n \in 0 .. MaxNbytes : GetArgs(n)

Spec == Init /\ [][Next]_vars

-----------------------------------------------------------------------------
(* Properties *)

(* Every buffer holds a NUL, so getargs's strlen stops inside it: the     *)
(* tails execute accepts are shorter than the buffer, and strncpy, which  *)
(* writes no NUL, only ever overwrites a prefix.                          *)
ArgsTerminated ==
  \A p \in Pids : \E i \in 1 .. ArgsBufferSize : args[p][i] = NUL

(* Arguments are consumed once: a live process that has read its          *)
(* arguments, or was given none, finds an empty buffer, so getargs fails. *)
ArgsConsumedOnce ==
  \A p \in Pids : pid[p] = p /\ ~pending[p] => StrLen(args[p]) = 0
=============================================================================
