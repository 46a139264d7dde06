------------------------------- MODULE MCFunctions -------------------------------
(***************************************************************************)
(* Calls of the routines of Strings, FileSystem, Programs and Paging with  *)
(* all inputs of small sets, compared with what each is for; and the keys  *)
(* of Scancodes, pressed in any order.  A state is a call about to be made. *)
(***************************************************************************)
EXTENDS Programs, Paging, Scancodes

VARIABLE call
vars == <<call, scan>>

Idle == [routine |-> "none"]
Letters == {97, 98}
SeqsUpTo(S, n) == UNION {[1 .. k -> S] : k \in 0 .. n}

-----------------------------------------------------------------------------
(* Memory: twelve bytes, all different, so that every move shows. *)
Memory == [a \in 0 .. 11 |-> a + 1]
BlockCalls == {c \in [routine : {"memcpy", "memmove", "memset"}, d : 0 .. 11, s : 0 .. 11, n : 0 .. 11] :
                   c.d + c.n <= 12 /\ c.s + c.n <= 12 /\ (c.routine = "memset" => c.s = 0)}

Overlap2(c) == c.s < c.d /\ c.d < c.s + c.n

\* memcpy of regions that do not overlap, or that overlap with dest below, memmove
\* of any two, and memset fill exactly the n bytes asked for, whatever the
\* alignment of dest and the size of the rest (lib.c:494-641).
BlocksRight ==
    /\ call.routine = "memcpy" /\ ~Overlap2(call) =>
           memcpy(Memory, call.d, call.s, call.n) = Copied(Memory, call.d, call.s, call.n)
    /\ call.routine = "memmove" =>
           memmove(Memory, call.d, call.s, call.n) = Copied(Memory, call.d, call.s, call.n)
    /\ call.routine = "memset" =>
           memset(Memory, call.d, 511, call.n) =
               [a \in DOMAIN Memory |-> IF a \in call.d .. call.d + call.n - 1 THEN 255 ELSE a + 1]
    /\ call.routine = "memset" /\ call.d + 4 * call.n <= 12 =>
           LET w == 258 IN
           /\ memset_word(Memory, call.d, 255 * 257, call.n) = memset(Memory, call.d, 255, 2 * call.n)
           /\ memset_dword(Memory, call.d, w * 65537, call.n) = memset_word(Memory, call.d, w, 2 * call.n)

-----------------------------------------------------------------------------
(* Numbers of a word, and formats made of up to two items each side. *)
Items == {<<97>>, <<Percent, Percent>>, <<Percent, 97>>, <<Percent, Hash, Conversions.x>>}
         \cup {<<Percent, Conversions[k]>> : k \in DOMAIN Conversions}
Formats == Items \cup {i \o j : i, j \in Items}
Args == [i \in 1 .. 3 |-> [n |-> <<Pow2[WORD_BITS] - 7, 7, 13>>[i], s |-> SubSeq(<<98, 97>>, 1, i - 1)]]

NumberCalls == [routine : {"number"}, v : 0 .. Pow2[WORD_BITS] - 1]
FormatCalls == [routine : {"printf"}, f : Formats, g : Items]

Digit(ch) == IF ch < 58 THEN ch - 48 ELSE ch - 55
Value(text, radix) == LET f[i \in 0 .. Len(text)] ==
                              IF i = 0 THEN 0 ELSE radix * f[i - 1] + Digit(text[i])
                      IN f[Len(text)]
NoLeadingZero(text) == Len(text) > 0 /\ (Digit(text[1]) = 0 => Len(text) = 1)
AsSigned(v) == IF v < Pow2[WORD_BITS - 1] THEN v ELSE v - Pow2[WORD_BITS]

\* Every number prints as itself, in shortest form, or as all its hexadecimal digits
\* with '#', the most negative one too; and a format after another prints as it
\* does alone with the arguments left (lib.c:85-193, 426-475).
PrintsRight ==
    /\ call.routine = "number" =>
           LET v == call.v
               signed == Signed(v)
               decimal == itoa(v, conv_buf, 0, 10)
           IN
           /\ Value(Hex(v), 16) = v /\ NoLeadingZero(Hex(v))
           /\ strcpy(conv_buf, decimal) = decimal
           /\ Value(Unsigned(v), 10) = v /\ NoLeadingZero(Unsigned(v))
           /\ Len(Padded(v)) = HexDigits /\ Value(Padded(v), 16) = v
           /\ IF AsSigned(v) >= 0 THEN signed = Unsigned(v)
              ELSE signed[1] = Minus /\ Tail(signed) = Unsigned(-AsSigned(v))
    /\ call.routine = "printf" =>
           LET first == printf(call.f, Args) IN
           first.arg <= Len(Args) =>
               printf(call.f \o call.g, Args).out =
               first.out \o printf(call.g, SubSeq(Args, first.arg, Len(Args))).out

-----------------------------------------------------------------------------
(* Files: of all sizes up to two blocks and a byte, their blocks in any order and *)
(* with a block of another file among them. *)
Content(size) == [i \in 1 .. size |-> 100 + i]
Orders == {f \in [0 .. 2 -> 0 .. 3] : \A i, j \in 0 .. 2 : f[i] = f[j] => i = j}
BlockOf(order, size, k) ==
    [j \in 0 .. DATA_BLOCK_SIZE - 1 |->
        LET at == {i \in 0 .. 2 : order[i] = k /\ i * DATA_BLOCK_SIZE + j < size}
        IN IF at = {} THEN 7 ELSE Content(size)[Min(at) * DATA_BLOCK_SIZE + j + 1]]
FileImage(order, size) ==
    << [inode_size |-> 2, dir_entries |-> <<>>],
       [file_length |-> 1, num_of_blocks |-> [i \in 0 .. 2 |-> 3]],
       [file_length |-> size, num_of_blocks |-> order] >>
    \o [k \in 1 .. 4 |-> BlockOf(order, size, k - 1)]
FileCalls == [routine : {"read"}, order : Orders, size : 0 .. 2 * DATA_BLOCK_SIZE + 1,
              offset : 0 .. 6, n : 0 .. 6]

\* A read returns the bytes of the file from the offset on, as many as asked for or
\* left, and a program that reads on gets the whole file, however it splits its
\* reads and wherever the blocks lie (file_system.c:142-210, 256-272).
FilesRead == call.routine = "read" =>
    LET image == FileImage(call.order, call.size)
        last  == Min({call.size, call.offset + call.n})
    IN /\ read_data(image, 1, call.offset, call.n) = SubSeq(Content(call.size), call.offset + 1, last)
       /\ call.n > 0 => ReadAll(image, 1, call.n) = Content(call.size)
       /\ read_data(image, 2, call.offset, call.n) = Failed

-----------------------------------------------------------------------------
(* Commands: all of up to six characters, three directories, and what may lie on *)
(* the stack above command_name. *)
Name(text) == [j \in 0 .. MAX_FILENAME - 1 |-> IF j < Len(text) THEN text[j + 1] ELSE Nul]
Filling(names) == [i \in 1 .. TOTAL_NUM_DIR |->
                      LET name == names[1 + ((i - 1) % Len(names))]
                      IN SubSeq(name, 1, Min({Len(name), MAX_FILENAME}))]
Directories == {Filling(names) : names \in { << <<97>>, <<97, 98>>, <<97>> >>,
                    << <<97, 98>>, <<>>, <<98>> >>, << <<98, 97>>, <<97>>, <<97, 97>> >> }}
DirImage(names) ==
    << [inode_size |-> 0,
        dir_entries |-> [i \in 0 .. TOTAL_NUM_DIR - 1 |->
                            [file_name |-> Name(names[i + 1]), inode_idx |-> i]]] >>
CommandCalls == [routine : {"execute"}, names : Directories,
                 command : SeqsUpTo(Letters \cup {Space}, 6), stack : {<<Nul>>, <<97, Nul>>}]

\* The words of a command, each with what ends it.
Starts(c) == {i \in 1 .. Len(c) : c[i] # Space /\ (i = 1 \/ c[i - 1] = Space)}
EndOf(c, i) == Min({j \in i .. Len(c) : c[j] = Space} \cup {Len(c) + 1}) - 1
Words(c) == {SubSeq(c, i, EndOf(c, i)) : i \in Starts(c)}
FirstWord(c) == IF Starts(c) = {} THEN <<>>
                ELSE SubSeq(c, Min(Starts(c)), EndOf(c, Min(Starts(c))))

\* The last entry before the first that is not in use.
LastNamed(names) == Min({i \in 1 .. TOTAL_NUM_DIR : names[i] = <<>>} \cup {TOTAL_NUM_DIR + 1}) - 1

\* The shell never runs a program of another name than the line's first word, as
\* far as a name can be long, and finds the first entry of that name if the name
\* leaves room for its end; a program started with one argument that fits gets
\* that argument from getargs, and one started without gets none; ls prints
\* the names in use, each as it is (syscall.c:47-54, 218-268, 638-652;
\* file_system.c:47-132, 331-365; ece391shell.c:14-27).
CommandsReach == call.routine = "execute" =>
    LET word  == FirstWord(call.command)
        cut   == SubSeq(word, 1, Min({Len(word), MAX_FILENAME}))
        named == {i \in 0 .. TOTAL_NUM_DIR - 1 : call.names[i + 1] = cut}
        runs  == shell(DirImage(call.names), Append(call.command, Newline), call.stack)
        buf   == getargs([i \in 0 .. MAX_FILENAME |-> 1], args_name(call.command), MAX_FILENAME + 1)
        from  == Min({i \in Starts(call.command) : i > Min(Starts(call.command))})
        arg   == SubSeq(call.command, from, EndOf(call.command, from))
    IN /\ runs # Failed => runs \in named
       /\ Len(word) \in 1 .. MAX_FILENAME - 1 /\ named # {} => runs = Min(named)
       /\ \A i \in 0 .. TOTAL_NUM_DIR :
              dir_read(DirImage(call.names), i) = IF i < TOTAL_NUM_DIR THEN call.names[i + 1] ELSE Failed
       /\ ls(DirImage(call.names)) = FlattenSeq([i \in 1 .. LastNamed(call.names) |->
                                                   Append(call.names[i], Newline)])
       /\ Cardinality(Starts(call.command)) <= 1 => buf = Failed
       /\ Cardinality(Starts(call.command)) = 2 =>
              IF Len(arg) <= MAX_FILENAME THEN buf = Buffer(arg, MAX_FILENAME + 1, <<>>)
              ELSE buf[MAX_FILENAME] = arg[MAX_FILENAME + 1]

-----------------------------------------------------------------------------
(* Texts of up to two buffers, with tabs, and what may lie in grep's buffer. *)
ProgramCalls == [routine : {"grep"}, text : SeqsUpTo({97, TabChar, Newline}, 6),
                 s : {<<97>>, <<97, 97>>, <<TabChar, 97>>}, junk : {Nul, 97}]
TextImage(text) ==
    << [inode_size |-> 1, dir_entries |-> <<>>],
       [file_length |-> Len(text), num_of_blocks |-> [i \in 0 .. Len(text) |-> i]] >>
    \o [k \in 1 .. Len(text) + 1 |-> [j \in 0 .. DATA_BLOCK_SIZE - 1 |->
            LET i == (k - 1) * DATA_BLOCK_SIZE + j + 1 IN IF i <= Len(text) THEN text[i] ELSE 97]]

\* The line that begins at i, and whether one does.
LineBegins(text, i) == i = 1 \/ text[i - 1] = Newline
LineAt(text, i) == SubSeq(text, i, Min({j \in i .. Len(text) : text[j] = Newline} \cup {Len(text) + 1}) - 1)
Matched(line, s) == \E k \in 0 .. Len(line) - Len(s) : SubSeq(line, k + 1, k + Len(s)) = s

\* grep prints every line that contains the pattern, whole, once and in order, also
\* where reads of the file divide it, as long as no line is longer than the buffer;
\* cat prints the file; both with tabs as four spaces (ece391grep.c:9-66;
\* ece391cat.c:21-28; terminal.c:128-155).
ProgramsShow == call.routine = "grep" =>
    LET text   == call.text
        starts == {i \in 1 .. Len(text) : LineBegins(text, i)}
        hits   == {i \in starts : Matched(LineAt(text, i), call.s)}
        found  == [i \in 1 .. Len(text) |->
                      IF i \in hits THEN <<102, Colon>> \o LineAt(text, i) \o <<Newline>> ELSE <<>>]
    IN /\ (\A i \in starts : Len(LineAt(text, i)) <= BUFSIZE) =>
              do_one_file(TextImage(text), 0, call.s, <<102>>, call.junk)
              = terminal_write(FlattenSeq(found))
       /\ cat(TextImage(text), 0) = terminal_write(text)

-----------------------------------------------------------------------------
(* Pages: every entry of the directory near those in use, for every process. *)
PageCalls == [routine : {"translate"}, pid : 0 .. 5, index : {0, 1, 2, 31, 32, 33, 34, 1023}]

\* No translation of any of these calls leads a process out of its own memory
\* (paging.c:31-91, 200-204).
UserConfined == call.routine = "translate" => Confined(call.pid, call.index)

-----------------------------------------------------------------------------
Init == call = Idle /\ ScanInit

Call(calls) == call = Idle /\ event = NoEvent /\ held = {} /\ call' \in calls /\ UNCHANGED scan
Return == call # Idle /\ call' = Idle /\ UNCHANGED scan
PressKeys == call = Idle /\ ScanNext /\ UNCHANGED call

Next == \/ Call(BlockCalls) \/ Call(NumberCalls) \/ Call(FormatCalls)
        \/ Call(FileCalls) \/ Call(CommandCalls) \/ Call(ProgramCalls) \/ Call(PageCalls)
        \/ Return \/ PressKeys

Spec == Init /\ [][Next]_vars
=============================================================================
