--------------------------------- MODULE Programs ---------------------------------
(***************************************************************************)
(* The user programs that read files and directories (cat, ls, grep), on   *)
(* the kernel's read and write: what each prints.  grep reads a file by    *)
(* buffers and has to put together the lines that the buffers divide.      *)
(***************************************************************************)
EXTENDS FileSystem, SequencesExt

CONSTANT BUFSIZE

ASSUME BufferAssumption == BUFSIZE \in Nat \ {0}

Newline == 10
TabChar == 9
Colon   == 58

\* terminal_write: what reaches putc.
Shown(ch) == CASE ch = Nul     -> <<>>
               [] ch = TabChar -> <<Space, Space, Space, Space>>
               [] OTHER        -> <<ch>>
terminal_write(text) == FlattenSeq([i \in 1 .. Len(text) |-> Shown(text[i])])

\* cat copies its buffer to the screen until a read returns 0.
cat(image, inode) == terminal_write(ReadAll(image, inode, BUFSIZE))

\* ls does so with one name after the other, up to the first unused entry.
ls(image) ==
    LET listing[position \in 0 .. TOTAL_NUM_DIR] ==
            IF \/ read_dentry_by_index(image, position).inode_idx = Failed
               \/ dir_read(image, position) = <<>>
            THEN <<>>
            ELSE terminal_write(Append(dir_read(image, position), Newline)) \o listing[position + 1]
    IN listing[0]

-----------------------------------------------------------------------------
(***************************************************************************)
(* grep's do_one_file on g: data[0 .. BUFSIZE], of which `last` bytes are  *)
(* read and not searched, the next read's position, and what is printed.   *)
(***************************************************************************)
Line(data, start, end) == [i \in 1 .. end - start |-> data[start + i - 1]]

\* ece391_strncmp stops at the '\0' that ends the line.
Occurs(data, end, check, s) ==
    check + Len(s) <= end /\ Line(data, check, check + Len(s)) = s

\* A wrong version: a line that fills the buffer waits for its end.
UnfinishedToo(g, cnt, start, end) == g.data[end] # Newline /\ cnt # 0

\* The rest of the buffer is kept for the next read (of a text, in which strcpy
\* finds no other '\0').
Unfinished(g, cnt, start, end) == g.data[end] # Newline /\ cnt # 0 /\ start # 0

Kept(g, start) ==
    [g EXCEPT !.last = @ - start,
              !.data = [i \in 0 .. BUFSIZE |-> IF i < g.last - start THEN g.data[start + i]
                                              ELSE IF i = g.last - start \/ i = g.last THEN Nul
                                              ELSE g.data[i]]]

Searched(g, s, fname, start, end) ==
    [g EXCEPT !.data[end] = Nul,
              !.out = IF \E check \in start .. end - 1 : Occurs(g.data, end, check, s)
                      THEN @ \o fname \o <<Colon>> \o Line(g.data, start, end) \o <<Newline>> ELSE @]

\* The line that begins at start, and whether it was the buffer's last.
SearchLine(p, s, fname, cnt) ==
    LET g     == p.g
        start == p.start
        end   == Min({i \in start .. g.last - 1 : g.data[i] = Newline} \cup {g.last})
        next  == Searched(g, s, fname, start, end)
    IN IF p.done THEN p
       ELSE IF Unfinished(g, cnt, start, end) THEN [p EXCEPT !.g = Kept(g, start), !.done = TRUE]
       ELSE IF end + 1 >= g.last THEN [p EXCEPT !.g = [next EXCEPT !.last = 0], !.done = TRUE]
       ELSE [p EXCEPT !.g = next, !.start = end + 1]

\* Every line has a byte at least.
Searching(g, s, fname, cnt) ==
    LET turn[k \in 0 .. BUFSIZE] == IF k = 0 THEN [g |-> g, start |-> 0, done |-> FALSE]
                                    ELSE SearchLine(turn[k - 1], s, fname, cnt)
    IN turn[BUFSIZE].g

Filled(g, bytes) ==
    [g EXCEPT !.last = @ + Len(bytes), !.position = @ + Len(bytes),
              !.data = [i \in 0 .. BUFSIZE |-> IF i \in g.last .. g.last + Len(bytes) - 1
                                              THEN bytes[i - g.last + 1] ELSE g.data[i]]]

\* A buffer, up to the read that returns 0.
Grepping(image, inode, s, fname, p) ==
    LET bytes == read_data(image, inode, p.g.position, BUFSIZE - p.g.last)
    IN IF p.done THEN p
       ELSE [g |-> Searching(Filled(p.g, bytes), s, fname, Len(bytes)), done |-> bytes = <<>>]

\* `junk` is what lies in data before anything is read; every read but the last
\* reads a byte at least.
do_one_file(image, inode, s, fname, junk) ==
    LET turns == Inode(image, inode).file_length + 1
        turn[k \in 0 .. turns] ==
            IF k = 0 THEN [g |-> [data |-> [i \in 0 .. BUFSIZE |-> junk], last |-> 0,
                                  position |-> 0, out |-> <<>>],
                           done |-> FALSE]
            ELSE Grepping(image, inode, s, fname, turn[k - 1])
    IN terminal_write(turn[turns].g.out)

-----------------------------------------------------------------------------
\* The shell takes the newline from the line it read and runs the rest.
Entered(line) == IF line # <<>> /\ Last(line) = Newline THEN Front(line) ELSE line
shell(image, line, stack) ==
    IF Entered(line) = <<>> THEN Failed ELSE execute(image, Entered(line), stack)
=============================================================================
