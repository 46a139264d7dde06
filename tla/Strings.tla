---------------------------------- MODULE Strings ----------------------------------
(***************************************************************************)
(* The memory and string routines and printf of lib.c.  Memory is a        *)
(* function from addresses to bytes and a routine returns what it leaves;  *)
(* what printf prints is a sequence of bytes.  Numbers are WORD_BITS wide: *)
(* 32 in the code, fewer here so that every one is tried.                  *)
(***************************************************************************)
EXTENDS Integers, Sequences, FiniteSetsExt

CONSTANT WORD_BITS

ASSUME WidthAssumption == WORD_BITS \in Nat \ {0} /\ WORD_BITS % 4 = 0

HexDigits == WORD_BITS \div 4        \* 8 in the code
Nul == 0

\* The powers of two up to the first that is no word.
Pow2[i \in 0 .. WORD_BITS] == IF i = 0 THEN 1 ELSE 2 * Pow2[i - 1]

-----------------------------------------------------------------------------
\* A load and a store of n bytes at once; the loop over one byte at a time, up
\* (cld) and down (std); over four.
Copied(m, d, s, n) == [a \in DOMAIN m |-> IF a \in d .. d + n - 1 THEN m[a - d + s] ELSE m[a]]

Up(m, d, s, n) ==
    LET mem[k \in 0 .. n] == IF k = 0 THEN m ELSE Copied(mem[k - 1], d + k - 1, s + k - 1, 1)
    IN mem[n]
Down(m, d, s, n) ==
    LET mem[k \in 0 .. n] == IF k = 0 THEN m ELSE Copied(mem[k - 1], d - k + 1, s - k + 1, 1)
    IN mem[n]
Dwords(m, d, s, n) ==
    LET mem[k \in 0 .. n] == IF k = 0 THEN m ELSE Copied(mem[k - 1], d + 4 * (k - 1), s + 4 * (k - 1), 4)
    IN mem[n]

\* The bytes before dest is aligned.
Unaligned(d, n) == Min({n, (4 - (d % 4)) % 4})

\* A wrong version of memmove: never backwards.
MemmoveUp(m, d, s, n) == Up(m, d, s, n)

memcpy(m, d, s, n) ==
    LET h == Unaligned(d, n)
        w == (n - h) \div 4
        t == h + 4 * w
    IN Up(Dwords(Up(m, d, s, h), d + h, s + h, w), d + t, s + t, n - t)

memmove(m, d, s, n) == IF s >= d THEN Up(m, d, s, n) ELSE Down(m, d + n - 1, s + n - 1, n)

\* n cells of `size` bytes at d, the low byte of c first.
Byte(c, i) == (c \div <<1, 256, 65536, 16777216>>[i + 1]) % 256
Stored(m, d, c, n, size) ==
    [a \in DOMAIN m |-> IF a \in d .. d + n * size - 1 THEN Byte(c, (a - d) % size) ELSE m[a]]

\* The dwords stored are four copies of the byte.
memset(m, d, c, n) ==
    LET b == c % 256
        h == Unaligned(d, n)
        w == (n - h) \div 4
        t == h + 4 * w
    IN Stored(Stored(Stored(m, d, b, h, 1), d + h, b, 4 * w, 1), d + t, b, n - t, 1)
memset_word(m, d, c, n)  == Stored(m, d, c, n, 2)
memset_dword(m, d, c, n) == Stored(m, d, c, n, 4)

-----------------------------------------------------------------------------
\* Strings: a pointer is a buffer b, a function from 0, and an offset into it.
strlen(b, at) == Min({k \in 0 .. Cardinality(DOMAIN b) - 1 - at : b[at + k] = Nul})

\* The first difference within n bytes, or the end of both.
strncmp(b1, b2, n) ==
    LET ends == {i \in 0 .. n - 1 : b1[i] # b2[i] \/ b1[i] = Nul}
    IN IF ends = {} THEN 0 ELSE b1[Min(ends)] - b2[Min(ends)]

strcpy(dest, src) == [i \in DOMAIN dest |-> IF i <= strlen(src, 0) THEN src[i] ELSE dest[i]]

strncpy(dest, src, n) ==
    [i \in DOMAIN dest |-> IF i >= n THEN dest[i]
                           ELSE IF \A j \in 0 .. i : src[j] # Nul THEN src[i] ELSE Nul]

\* beg goes up and end down, as long as beg < end.
Swapped(b, beg, end) == [b EXCEPT ![beg] = b[end], ![end] = b[beg]]
strrev(b, at) ==
    LET n == strlen(b, at)
        str[k \in 0 .. n \div 2] == IF k = 0 THEN b ELSE Swapped(str[k - 1], at + k - 1, at + n - k)
    IN str[n \div 2]

lookup(i) == IF i < 10 THEN 48 + i ELSE 55 + i         \* '0' .. '9', 'A' .. 'Z'

\* The last digit of what is left of v, until nothing is: not more turns than bits.
NextDigit(p, radix) ==
    IF p.value = 0 THEN p
    ELSE [value |-> p.value \div radix, at |-> p.at + 1,
          buf |-> [p.buf EXCEPT ![p.at] = lookup(p.value % radix)]]
Digits(v, b, at, radix) ==
    LET turn[k \in 0 .. WORD_BITS] == IF k = 0 THEN [value |-> v, at |-> at, buf |-> b]
                                      ELSE NextDigit(turn[k - 1], radix)
    IN [turn[WORD_BITS].buf EXCEPT ![turn[WORD_BITS].at] = Nul]

itoa(v, b, at, radix) ==
    IF v = 0 THEN [b EXCEPT ![at] = lookup(0), ![at + 1] = Nul]
    ELSE strrev(Digits(v, b, at, radix), at)

-----------------------------------------------------------------------------
\* printf: its parser is in a conversion or not, and takes one argument after the
\* other; an argument is a number n and the string s it may point to.
Percent == 37
Hash    == 35
Minus   == 45
Conversions == [x |-> 120, u |-> 117, d |-> 100, c |-> 99, s |-> 115]

\* puts.
Text(b, at) == [i \in 1 .. strlen(b, at) |-> b[at + i - 1]]

conv_buf == [i \in 0 .. 2 * WORD_BITS |-> Hash]       \* not initialized

\* The digits go to the middle of the buffer, zeros before them until the middle.
Padded(v) == LET b     == itoa(v, conv_buf, HexDigits, 16)
                 start == strlen(b, HexDigits)
             IN Text([i \in DOMAIN b |-> IF i \in start .. HexDigits - 1 THEN lookup(0) ELSE b[i]],
                     start)

Hex(v)      == Text(itoa(v, conv_buf, 0, 16), 0)
Unsigned(v) == Text(itoa(v, conv_buf, 0, 10), 0)
Signed(v)   == IF v < Pow2[WORD_BITS - 1] THEN Unsigned(v)
               ELSE Text(itoa(Pow2[WORD_BITS] - v, [conv_buf EXCEPT ![0] = Minus], 1, 10), 0)

\* A wrong version: '#' stays in force.
PutKeeping(p, text, used) == [p EXCEPT !.out = @ \o text, !.arg = @ + used, !.conversion = FALSE]

\* What a conversion ends with.
Put(p, text, used) == [p EXCEPT !.out = @ \o text, !.arg = @ + used,
                                !.conversion = FALSE, !.alternate = FALSE]

Parsed(p, ch, args) ==
    IF ~p.conversion
    THEN IF ch = Percent THEN [p EXCEPT !.conversion = TRUE] ELSE Put(p, <<ch>>, 0)
    ELSE CASE ch = Percent       -> Put(p, <<Percent>>, 0)
           [] ch = Hash          -> [p EXCEPT !.alternate = TRUE]
           [] ch = Conversions.x -> Put(p, IF p.alternate THEN Padded(args[p.arg].n)
                                           ELSE Hex(args[p.arg].n), 1)
           [] ch = Conversions.u -> Put(p, Unsigned(args[p.arg].n), 1)
           [] ch = Conversions.d -> Put(p, Signed(args[p.arg].n), 1)
           [] ch = Conversions.c -> Put(p, IF args[p.arg].n = Nul THEN <<>> ELSE <<args[p.arg].n>>, 1)
           [] ch = Conversions.s -> Put(p, args[p.arg].s, 1)
           [] OTHER              -> Put(p, <<>>, 0)

Printing(p, format, args) ==
    LET parser[k \in 0 .. Len(format)] == IF k = 0 THEN p ELSE Parsed(parser[k - 1], format[k], args)
    IN parser[Len(format)]

\* A format that ends inside a conversion makes printf run past its end.
printf(format, args) ==
    Printing([out |-> <<>>, arg |-> 1, conversion |-> FALSE, alternate |-> FALSE], format, args)
=============================================================================
