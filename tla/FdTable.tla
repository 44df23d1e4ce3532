------------------------------ MODULE FdTable ------------------------------
(***************************************************************************)
(* File descriptor tables of student-distrib: the fd_table of every        *)
(* control block, the open/close/read system calls that dispatch through  *)
(* its file_operations_pointer to file_*, directory_* and rtc_*, and the   *)
(* table work execute and halt do (execute opens, reads and closes the     *)
(* program in the caller's table; create_new_pcb resets slots 2..; halt's  *)
(* pcb_close is a stub).                                                   *)
(*                                                                         *)
(* One terminal's process chain is enough here: every call touches only    *)
(* control_blocks[current_pid] and runs with interrupts off (each handler  *)
(* starts with cli), so the scheduler cannot interleave inside it.         *)
(* A slot is its operations table and flags; inode and file_position are   *)
(* data and left out, except that directory_read counts flags down.        *)
(* owned is ghost state: owned[p][i] holds when slot i of pcb p was       *)
(* filled by the process that now has pid p, not by an earlier one.        *)
(***************************************************************************)
EXTENDS Integers, FiniteSets, FiniteSetsExt

CONSTANTS
  MaxProcesses,   \* MAX_PROCESSES; control blocks 0 .. MaxProcesses
  FdtSize,        \* FDT_SIZE
  DirEntries      \* casted_block->num_dir_entries

ASSUME /\ MaxProcesses \in 1 .. 6
       /\ FdtSize \in 3 .. 8
       /\ DirEntries \in 1 .. 63

SENTINEL_PROCESS == 0
Pids == 0 .. MaxProcesses
Fds == 0 .. FdtSize - 1
Ops == {"stdin", "stdout", "file", "dir", "rtc", "NULL"}
Slot == [ops : Ops, flags : -1 .. DirEntries]
(* What read_dentry_by_name finds under a name: its file_type, or nothing. *)
Kinds == {"file", "dir", "rtc", "missing"}

VARIABLES
  fd_table,              \* control_blocks[p].fd_table
  pid,                   \* control_blocks[p].pid (p, or -1 when free)
  parent,                \* control_blocks[p].parent
  current_pid,
  num_active_processes,
  owned                  \* ghost, see above

vars == <<fd_table, pid, parent, current_pid, num_active_processes, owned>>

FreeSlot == [ops |-> "NULL", flags |-> -1]
StdinSlot == [ops |-> "stdin", flags |-> 1]
StdoutSlot == [ops |-> "stdout", flags |-> 1]
LivePids == {p \in 1 .. MaxProcesses : pid[p] = p}

TypeOK ==
  /\ fd_table \in [Pids -> [Fds -> Slot]]
  /\ pid \in [Pids -> {-1} \cup Pids]
  /\ parent \in [Pids -> Pids]
  /\ current_pid \in Pids
  /\ num_active_processes \in 0 .. MaxProcesses
  /\ owned \in [Pids -> [Fds -> BOOLEAN]]

(* process_control_block_init, then the boot execute("shell") from the    *)
(* sentinel: its open/close of "shell" in table 0 leaves that unchanged.  *)
Init ==
  /\ fd_table = [p \in Pids |-> [i \in Fds |->
                   CASE i = 0 -> StdinSlot [] i = 1 -> StdoutSlot
                     [] OTHER -> FreeSlot]]
  /\ pid = [p \in Pids |-> IF p = 1 THEN 1 ELSE -1]
  /\ parent = [p \in Pids |-> 0]
  /\ current_pid = 1
  /\ num_active_processes = 1
  /\ owned = [p \in Pids |-> [i \in Fds |-> FALSE]]

(* The slot search of file_open and rtc_open: open starts at 0 and the    *)
(* i == FDT_SIZE test inside the loop can never hold, so a full table     *)
(* yields 0.                                                              *)
FreeSlots(tab) == {i \in 2 .. FdtSize - 1 : tab[i].flags = -1}
SearchFromZero(tab) == IF FreeSlots(tab) = {} THEN 0 ELSE Min(FreeSlots(tab))

(* directory_open's search: the i == FDT_SIZE - 1 test fails a full table. *)
SearchChecked(tab) == IF FreeSlots(tab) = {} THEN -1 ELSE Min(FreeSlots(tab))

RtcOpen(tab) == \E i \in 2 .. FdtSize - 1 :
                  tab[i].flags # -1 /\ tab[i].ops = "rtc"

(* The slot open(name) fills in table tab, or -1: the switch over the     *)
(* dentry's type into file_open, directory_open or rtc_open.              *)
OpenedFd(kind, tab) ==
  CASE kind = "missing" -> -1
    [] kind = "file"    -> SearchFromZero(tab)
    [] kind = "dir"     -> SearchChecked(tab)
    [] kind = "rtc"     -> IF RtcOpen(tab) THEN -1 ELSE SearchFromZero(tab)

NewBlock(kind) ==
  CASE kind = "file" -> [ops |-> "file", flags |-> 1]
    [] kind = "dir"  -> [ops |-> "dir", flags |-> DirEntries]
    [] kind = "rtc"  -> [ops |-> "rtc", flags |-> 1]

(* The table after open(name) of a name of this kind. *)
AfterOpen(kind, tab) ==
  LET fd == OpenedFd(kind, tab)
  IN  IF fd = -1 THEN tab ELSE [tab EXCEPT ![fd] = NewBlock(kind)]

(* close(fd) and the close it dispatches to: file_close and               *)
(* directory_close refuse a free slot, rtc_close one whose flags are 0.   *)
CloseRefused(fd, tab) ==
  \/ fd < 2 \/ fd >= FdtSize
  \/ tab[fd].ops = "NULL"
  \/ tab[fd].ops \in {"file", "dir"} /\ tab[fd].flags = -1
  \/ tab[fd].ops = "rtc" /\ tab[fd].flags = 0

AfterClose(fd, tab) ==
  IF CloseRefused(fd, tab) THEN tab ELSE [tab EXCEPT ![fd] = FreeSlot]

(* directory_read on an exhausted directory (flags 0) reads nothing; past *)
(* the end it would count flags below 0.                                  *)
AfterReadPastEnd(fd, tab) ==
  IF fd \in Fds /\ tab[fd].ops = "dir"
  THEN [tab EXCEPT ![fd].flags = @ - 1] ELSE tab

(* read(fd): range, flags and NULL checks, then the dispatched read.  Only *)
(* directory_read changes the table: it counts flags down to 0.           *)
AfterRead(fd, tab) ==
  IF fd \in Fds /\ tab[fd].ops = "dir" /\ tab[fd].flags > 0
  THEN [tab EXCEPT ![fd].flags = @ - 1] ELSE tab

(* The caller's table after execute's open(cmd), read(fd) and close(fd). *)
ProgramTableNoClose(kind, tab) == AfterRead(OpenedFd(kind, tab), AfterOpen(kind, tab))

ProgramTable(kind, tab) ==
  LET fd == OpenedFd(kind, tab)
  IN  AfterClose(fd, AfterRead(fd, AfterOpen(kind, tab)))

(* create_new_pcb: the first free pid from 1, or FAILURE (-1). *)
NewPid == IF \E p \in 1 .. MaxProcesses : pid[p] = -1
          THEN Min({p \in 1 .. MaxProcesses : pid[p] = -1}) ELSE -1

ResetTableFromThree(tab) == [i \in Fds |-> IF i >= 3 THEN FreeSlot ELSE tab[i]]

(* create_new_pcb resets slots 2 .. FDT_SIZE-1 and leaves 0 and 1 alone. *)
ResetTable(tab) == [i \in Fds |-> IF i >= 2 THEN FreeSlot ELSE tab[i]]

ExecuteAllowedOffByOne(n) == n <= MaxProcesses

(* execute's num_active_processes >= MAX_PROCESSES refusal. *)
ExecuteAllowed(n) == n < MaxProcesses

(* execute(cmd) run by process cp (the sentinel when relaunching a shell): *)
(* the program is opened, read and closed in cp's table; if the open       *)
(* failed execute returns -1, if the magic is wrong it returns FAILURE,    *)
(* else create_new_pcb(cp) and cp's child runs.  Only a regular file can   *)
(* carry the ELF magic; ok says whether this one does.                     *)
Launch(cp, kind, ok) ==
  LET fd  == OpenedFd(kind, fd_table[cp])
      tab == ProgramTable(kind, fd_table[cp])
      new == NewPid
  IN  /\ ExecuteAllowed(num_active_processes)
      /\ fd # -1
      /\ IF ok /\ kind = "file"
         THEN /\ fd_table' = [fd_table EXCEPT ![cp] = tab,
                                               ![new] = ResetTable(@)]
              /\ pid' = [pid EXCEPT ![new] = new]
              /\ parent' = [parent EXCEPT ![new] = cp]
              /\ num_active_processes' = num_active_processes + 1
              /\ current_pid' = new
              /\ owned' = [owned EXCEPT ![cp][fd] = TRUE,
                                        ![new] = [i \in Fds |-> FALSE]]
         ELSE /\ fd_table' = [fd_table EXCEPT ![cp] = tab]
              /\ owned' = [owned EXCEPT ![cp][fd] = TRUE]
              /\ UNCHANGED <<pid, parent, num_active_processes, current_pid>>

Execute(kind, ok) == current_pid # SENTINEL_PROCESS /\ Launch(current_pid, kind, ok)

(* The HALTED path of execute: with the sentinel current again it calls  *)
(* execute("shell").                                                      *)
Relaunch == current_pid = SENTINEL_PROCESS /\ Launch(SENTINEL_PROCESS, "file", TRUE)

(* halt: destroy_pcb, back to the parent; pcb_close(2..) is a stub, so    *)
(* the table is left as it is.                                            *)
Halt ==
  /\ current_pid # SENTINEL_PROCESS
  /\ pid' = [pid EXCEPT ![current_pid] = -1]
  /\ num_active_processes' = num_active_processes - 1
  /\ current_pid' = parent[current_pid]
  /\ UNCHANGED <<fd_table, parent, owned>>

Open(kind) ==
  LET fd == OpenedFd(kind, fd_table[current_pid])
  IN  /\ current_pid # SENTINEL_PROCESS
      /\ fd # -1
      /\ fd_table' = [fd_table EXCEPT ![current_pid] = AfterOpen(kind, @)]
      /\ owned' = [owned EXCEPT ![current_pid][fd] = TRUE]
      /\ UNCHANGED <<pid, parent, current_pid, num_active_processes>>

Close(fd) ==
  /\ current_pid # SENTINEL_PROCESS
  /\ fd_table' = [fd_table EXCEPT ![current_pid] = AfterClose(fd, @)]
  /\ UNCHANGED <<pid, parent, current_pid, num_active_processes, owned>>

Read(fd) ==
  /\ current_pid # SENTINEL_PROCESS
  /\ fd_table' = [fd_table EXCEPT ![current_pid] = AfterRead(fd, @)]
  /\ UNCHANGED <<pid, parent, current_pid, num_active_processes, owned>>

(* fd arguments range over the table and one past it. *)
Next ==
  \/ \E k \in Kinds, ok \in BOOLEAN : Execute(k, ok)
  \/ Relaunch
  \/ Halt
  \/ \E k \in Kinds : Open(k)
  \/ \E fd \in 0 .. FdtSize : Close(fd)
  \/ \E fd \in 0 .. FdtSize : Read(fd)

Spec == Init /\ [][Next]_vars

-----------------------------------------------------------------------------
(* Properties *)

(* No process finds in slots 2.. a descriptor it did not open: halt      *)
(* leaves its files open (pcb_close is a stub) and only create_new_pcb's  *)
(* reset stops the next process with that pid from inheriting them.       *)
NoInheritedDescriptor ==
  \A p \in LivePids, i \in 2 .. FdtSize - 1 :
    fd_table[p][i].ops # "NULL" => owned[p][i]

(* A slot is free (flags -1, what the open searches look for) exactly     *)
(* when it has no operations table (what close and read look for): the    *)
(* flags field doubles as directory_read's countdown, which must never    *)
(* make a directory look free.                                            *)
FreeIffNull ==
  \A p \in Pids, i \in Fds :
    fd_table[p][i].flags = -1 <=> fd_table[p][i].ops = "NULL"

(* execute's open/read/close of the program leaves the caller's own      *)
(* descriptors 2.. as they were.                                          *)
ExecuteKeepsCallerFds ==
  [][\A k \in Kinds, ok \in BOOLEAN :
       Execute(k, ok) => \A i \in 2 .. FdtSize - 1 :
                           fd_table'[current_pid][i] = fd_table[current_pid][i]]_vars

(* Every control block keeps stdin at fd 0 and stdout at fd 1, as         *)
(* process_control_block_init set them: close refuses fds 0 and 1 and      *)
(* create_new_pcb never resets them.                                       *)
StdStreamsIntact ==
  \A p \in Pids : fd_table[p][0] = StdinSlot /\ fd_table[p][1] = StdoutSlot
=============================================================================
