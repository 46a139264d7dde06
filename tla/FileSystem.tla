-------------------------------- MODULE FileSystem --------------------------------
(***************************************************************************)
(* The read-only file system (file_system.c), and the two ways from the    *)
(* shell into it: execute, which splits the command and looks the program  *)
(* up, and getargs (syscall.c).  An image is a sequence of blocks: one of  *)
(* directory entries, one per inode, and the data.                         *)
(***************************************************************************)
EXTENDS Strings

CONSTANTS MAX_FILENAME, TOTAL_NUM_DIR, DATA_BLOCK_SIZE

ASSUME FileAssumption == /\ MAX_FILENAME \in Nat \ {0} /\ TOTAL_NUM_DIR \in Nat \ {0}
                         /\ DATA_BLOCK_SIZE \in Nat \ {0}

Space  == 32
Failed == -1

Boot(image)     == image[1]                  \* [inode_size, dir_entries]
Inode(image, i) == image[2 + i]              \* [file_length, num_of_blocks]

\* Where file_system_init finds the data: after as many inodes as there are.
DataBlock(image, k) == image[2 + Boot(image).inode_size + k]

-----------------------------------------------------------------------------
\* A name in an entry ends with the entry's 32 bytes at the latest; dentry_name
\* is a copy with an end.
dentry_name(image, i) ==
    [j \in 0 .. MAX_FILENAME |->
        IF j < MAX_FILENAME THEN Boot(image).dir_entries[i].file_name[j] ELSE Nul]

Matches(image, fname, i) ==
    /\ strlen(dentry_name(image, i), 0) = strlen(fname, 0)
    /\ strncmp(dentry_name(image, i), fname, MAX_FILENAME) = 0

\* The first entry of that name, among all 63, in use or not.
read_dentry_by_name(image, fname) ==
    LET found == {i \in 0 .. TOTAL_NUM_DIR - 1 : Matches(image, fname, i)}
    IN IF strlen(fname, 0) > MAX_FILENAME \/ found = {} THEN Failed
       ELSE Boot(image).dir_entries[Min(found)].inode_idx

read_dentry_by_index(image, index) ==
    IF index < TOTAL_NUM_DIR THEN Boot(image).dir_entries[index]
    ELSE [file_name |-> <<>>, inode_idx |-> Failed]

\* dir_read: all bytes of the name, and no more, without an end.
dir_read(image, position) ==
    IF read_dentry_by_index(image, position).inode_idx = Failed THEN Failed
    ELSE [j \in 1 .. strlen(dentry_name(image, position), 0) |->
             dentry_name(image, position)[j - 1]]

-----------------------------------------------------------------------------
\* A wrong version: one byte past the end.
EndLate(node, offset, length, bytes_incr) ==
    offset + bytes_incr > node.file_length \/ bytes_incr = length

\* The loop of read_data: byte j of the block numbered idx_val of the file is next,
\* bytes_incr are in buf.
EndTest(node, offset, length, bytes_incr) ==
    offset + bytes_incr = node.file_length \/ bytes_incr = length

\* One turn: to the next block, out of the loop, or a byte.
Reading(image, node, offset, length, p) ==
    IF p.j = DATA_BLOCK_SIZE THEN [p EXCEPT !.idx_val = @ + 1, !.j = 0]
    ELSE IF EndTest(node, offset, length, Len(p.buf)) THEN p
    ELSE [p EXCEPT !.j = @ + 1,
                   !.buf = Append(@, DataBlock(image, node.num_of_blocks[p.idx_val])[p.j])]

\* No more than two turns a byte.
read_data(image, inode, offset, length) ==
    LET node == Inode(image, inode)
        turn[k \in 0 .. 2 * node.file_length] ==
            IF k = 0 THEN [idx_val |-> offset \div DATA_BLOCK_SIZE, j |-> offset % DATA_BLOCK_SIZE,
                           buf |-> <<>>]
            ELSE Reading(image, node, offset, length, turn[k - 1])
    IN IF inode >= Boot(image).inode_size THEN Failed
       ELSE IF offset >= node.file_length THEN <<>>
       ELSE turn[2 * node.file_length].buf

\* file_read after file_read, nbytes at a time, up to the one that reads nothing:
\* all that a program gets.
FileRead(image, inode, nbytes, p) ==
    LET bytes_read == read_data(image, inode, p.position, nbytes)
    IN [position |-> p.position + Len(bytes_read), bytes |-> p.bytes \o bytes_read]
ReadAll(image, inode, nbytes) ==
    LET file[k \in 0 .. Inode(image, inode).file_length] ==
            IF k = 0 THEN [position |-> 0, bytes |-> <<>>]
            ELSE FileRead(image, inode, nbytes, file[k - 1])
    IN file[Inode(image, inode).file_length].bytes

-----------------------------------------------------------------------------
\* parse_cmd: up to the first space the command's name, from there on, spaces left
\* out, the arguments; what does not fit is dropped.
\* A wrong version, the spaces before the name left in, and the right one.
NoneSkipped(command) == 0
Skipped(command) == Min({Len(command)} \cup {k \in 0 .. Len(command) - 1 : command[k + 1] # Space})

Placed(p, ch) ==
    IF ch = Space THEN [p EXCEPT !.space_begin = TRUE]
    ELSE IF ~p.space_begin /\ Len(p.command_name) < MAX_FILENAME
    THEN [p EXCEPT !.command_name = Append(@, ch)]
    ELSE IF p.space_begin /\ Len(p.file_name) <= MAX_FILENAME
    THEN [p EXCEPT !.file_name = Append(@, ch)]
    ELSE p

parse_cmd(command) ==
    LET rest == SubSeq(command, Skipped(command) + 1, Len(command))
        split[k \in 0 .. Len(rest)] ==
            IF k = 0 THEN [space_begin |-> FALSE, command_name |-> <<>>, file_name |-> <<>>]
            ELSE Placed(split[k - 1], rest[k])
    IN split[Len(rest)]

\* A sequence in an array of n bytes set to '\0', and `after` behind the array.
Buffer(text, n, after) ==
    [i \in 0 .. n + Len(after) - 1 |-> IF i < Len(text) THEN text[i + 1]
                                       ELSE IF i < n THEN Nul ELSE after[i - n + 1]]

\* The program execute finds.  command_name has no room for an end: a name of 32
\* bytes runs on into the stack above it.
execute(image, command, stack) ==
    read_dentry_by_name(image, Buffer(parse_cmd(command).command_name, MAX_FILENAME, stack))

\* args_name of the new process, and getargs: the argument cut to nbytes.
args_name(command) == Buffer(parse_cmd(command).file_name, MAX_FILENAME + 1, <<>>)

getargs(buf, args, nbytes) ==
    IF args[0] = Nul THEN Failed ELSE strncpy(buf, args, nbytes)
=============================================================================
