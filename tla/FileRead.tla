------------------------------ MODULE FileRead ------------------------------
(***************************************************************************)
(* Reading a regular file in student-distrib: a program that has opened a  *)
(* file calls read(fd, buf, n) until it returns 0, as cat does.  read      *)
(* dispatches to file_read, which calls read_data with the descriptor's    *)
(* file_position as the offset:                                            *)
(*   syscalls.c           read (the checks pass for an open file)          *)
(*   filesystem_driver.c  file_open, file_read, read_data                  *)
(* The file is one inode of FileLen bytes in data blocks of BlockSize      *)
(* bytes (FILE_SIZE, 4096 in the code).  Byte k of the file is the number  *)
(* k, and the inode lists its blocks in reverse order, so a byte taken     *)
(* from the wrong place or the wrong block is told apart.                  *)
(***************************************************************************)
EXTENDS Integers, Sequences

CONSTANTS
  FileLen,     \* node_list[inode].B_length
  BlockSize,   \* FILE_SIZE
  Lengths,     \* the nbytes the program passes to read
  Junk         \* model value: a byte that belongs to no file

ASSUME /\ FileLen \in Nat
       /\ BlockSize \in Nat \ {0}
       /\ Lengths \subseteq Nat \ {0}

NumBlocks == (FileLen + BlockSize - 1) \div BlockSize

(* node_list[inode].data_blocks: the data block holding the file's block *)
(* b; entries past the file name block 0.                                 *)
DataBlocks(b) == IF b < NumBlocks THEN NumBlocks - 1 - b ELSE 0

(* data_list[d][j]: the byte at offset j of data block d. *)
DataAt(d, j) ==
  IF \E k \in 0 .. FileLen - 1 : DataBlocks(k \div BlockSize) = d /\ k % BlockSize = j
  THEN CHOOSE k \in 0 .. FileLen - 1 : DataBlocks(k \div BlockSize) = d /\ k % BlockSize = j
  ELSE Junk

(* The file's bytes in order. *)
FileContent == [k \in 1 .. FileLen |-> k - 1]

VARIABLES
  file_position,   \* control_blocks[current_pid].fd_table[fd].file_position
  got,             \* the bytes the program has received: buf[0 .. ret-1]
  done             \* the last read returned 0

vars == <<file_position, got, done>>

TypeOK ==
  /\ file_position \in Nat
  /\ got \in Seq(0 .. FileLen - 1 \cup {Junk})
  /\ done \in BOOLEAN

(* file_open: a fresh descriptor has file_position 0. *)
Init ==
  /\ file_position = 0
  /\ got = <<>>
  /\ done = FALSE

(***************************************************************************)
(* read_data's copy loop, from byte i of this call at offset j of data     *)
(* block d (the loop-th block of the file), with pos the file_position it *)
(* started at.  In order: length reached returns i; i == num copies one   *)
(* more byte and returns i; pos + i >= num returns 0 with the bytes       *)
(* copied and file_position unchanged; else copy and move on, to the next *)
(* data block when j reaches a multiple of FILE_SIZE.  The result is the  *)
(* return value, the new file_position and the buffer.                     *)
(***************************************************************************)
RECURSIVE CopyLoop(_, _, _, _, _, _, _)
CopyLoop(pos, length, i, j, loop, d, buf) ==
  CASE length = i        -> [ret |-> i, pos |-> pos + i, buf |-> buf]
    [] i = FileLen       -> [ret |-> i, pos |-> pos + i, buf |-> Append(buf, DataAt(d, j))]
    [] pos + i >= FileLen -> [ret |-> 0, pos |-> pos, buf |-> buf]
    [] OTHER ->
         LET next == Append(buf, DataAt(d, j)) IN
         IF (j + 1) % BlockSize = 0
         THEN CopyLoop(pos, length, i + 1, 0, loop + 1, DataBlocks(loop + 1), next)
         ELSE CopyLoop(pos, length, i + 1, j + 1, loop, d, next)

(* read_data(fd, file_position, buf, length): an empty file or a          *)
(* position past the end returns 0, else the copy loop from the block of *)
(* offset / FILE_SIZE at offset % FILE_SIZE.                               *)
ReadData(pos, length) ==
  CASE FileLen = 0     -> [ret |-> 0, pos |-> pos, buf |-> <<>>]
    [] pos > FileLen   -> [ret |-> 0, pos |-> pos, buf |-> <<>>]
    [] OTHER -> CopyLoop(pos, length, 0, pos % BlockSize, pos \div BlockSize,
                         DataBlocks(pos \div BlockSize), <<>>)

(* read(fd, buf, n) -> file_read: the program keeps what the call says it *)
(* read and stops at a return of 0.                                       *)
Read(n) ==
  /\ ~done
  /\ LET r == ReadData(file_position, n) IN
     /\ file_position' = r.pos
     /\ got' = got \o SubSeq(r.buf, 1, r.ret)
     /\ done' = (r.ret = 0)

Next == \E n \in Lengths : Read(n)

Spec == Init /\ [][Next]_vars

-----------------------------------------------------------------------------
(* Properties *)

(* A program that reads a file until read returns 0 has received the     *)
(* whole file, in order: read's header says it returns the number of      *)
(* bytes read, so 0 means nothing is left.  Reads in pieces smaller than  *)
(* the file are where file_read's position bookkeeping matters.           *)
ReadsWholeFile == done => got = FileContent
=============================================================================
