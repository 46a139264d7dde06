# TLA+ models of the kernel

The program under `src/student-distrib/` is a small x86 kernel: three terminals, each
running a chain of user programs (a base shell, the program it started, the one that
one started, ...), a round-robin scheduler driven by the PIT, a keyboard driver, a
virtualised RTC and a read-only file system. This directory holds TLA+ modules
translated from its source, the TLC runs that check them, and theorems about them that
TLAPS checks.

Line numbers are those of `src/student-distrib/`, and of `src/syscalls/` for files named
`ece391*`. `PROJECT.json` maps every definition to the lines it stands for, and lists the
runs, the hazards and the theorems.

## 1. Inventory

| component | state | operations | correct when | module |
|---|---|---|---|---|
| processes (`syscall.c` execute, halt; `sys_call_handler.S`; `setup_mem`) | `pid[]`, per terminal `curr_pid`, `prev_pid`; per PCB `parent_pid`, `saved_esp/ebp`, `active_flag`; the user page-directory entry; `tss.esp0` | execute, halt | a slot is given to one process at a time; a program runs in its own frame and kernel stack; halt returns to the parent; each terminal's processes form a stack | `Multitasking` |
| scheduler (`pit.c`, `scheduling.c`) | `active_term`, `term_proc[]`, per PCB `schedule_esp/ebp` | pit_handler, context_switch | the loaded context is that of the scheduled terminal; stacks are not shared; everybody runs again | `Multitasking` |
| exceptions, Ctrl-C (`idt.c`, `keyboard.c:163`) | `exception_status` | excpHandler, halt from the keyboard handler | the right process dies, its parent learns how | `Multitasking` |
| display (`paging.c`, `terminal.c` terminal_switch, `lib.c` writes, vidmap) | `page_table`, `page_vm_table`, the TLB, three backup pages, `curr_term` | terminal_switch, putc, putc_keyboard, scroll, vidmap | three independent screens, one of them shown | `Display` |
| console cursor (`lib.c`) | `screen_x`, `screen_y`, `prev_x[]`, the VGA's cursor | putc, putc_keyboard, scroll, clear | cursors stay on the screen; Backspace undoes a character or a line break; the shown cursor is the displayed terminal's | `Console` |
| line editing (`keyboard.c`, terminal_read) | `key_buffer`, `buf_idx`, `num_char`, `enter_flag[]`, `read_flag` | key presses, terminal_read | the reader gets the line as it was edited | `Keyboard` |
| scancodes (`keyboard.c`) | the flags of Shift, Ctrl, Alt, Caps Lock | check_function_key, check_capital | the flags say what is held | `Scancodes` |
| file descriptors (`syscall.c`, drivers in `file_system.c`) | `file_desc_arr` of each PCB, globals `pcb_val_read`, `dentry_temp` | open, close, read, getargs, halt's closing loop | a descriptor stays its process's own; reads of it continue one another | `Descriptors` |
| RTC (`rtc.c`) | `rtc_active[]`, `rtc_count[]`, `rtc_int_flag[]`, `rtc_reset_count` | open, close, read, write, rtc_handler | a read waits for a tick of its own terminal and returns; no counter wraps | `Rtc` |
| PIC, gates, boot order (`i8259.c`, `interrupts_wrapper.S`, `idt.c`, `kernel.c`) | the two chips' requests, lines in service and masks; the interrupt flag; what the devices hold | i8259_init, enable_irq, send_eoi, the entry and exit of every handler, entry | no interrupt is lost or left unacknowledged; handlers do not nest; every device is served | `Interrupts` |
| file system (`file_system.c`) | the image, which never changes | read_dentry_by_name/index, read_data, file_read, dir_read | the bytes returned are the file's, the names the directory's | `FileSystem` |
| command parser, getargs (`syscall.c`) | `args_name` of each PCB | parse_cmd, the lookup in execute, getargs | command and argument are those typed | `FileSystem` |
| page tables (`paging.c`) | `page_directory` and two tables | page_init, setup_mem | a user program reaches its own memory only | `Paging` |
| library routines (`lib.c`) | none | mem*, str*, itoa, puts, printf | each does what its comment says at every boundary | `Strings` |
| user programs (`src/syscalls/`) | their buffers | shell, cat, ls, grep | they show the file, the directory, the lines | `Programs` |
| GDT, LDT, TSS, multiboot (`boot.S`, `x86_desc.*`); `tests.c`; the other user programs; `fish/` | - | - | - | not modelled, see section 12 |

How they interact. The system-call gate leaves interrupts on, so a PIT tick or a key may
land anywhere in execute, halt, read, write, open and close. The PIT handler changes
`active_term`, and most system-call code indexes its data by `active_term` afresh at every
use: this works because the scheduler sets `active_term` back before the interrupted
thread goes on. The keyboard handler works on the displayed terminal (`curr_term`) for
echo and editing, but on the scheduled one for Ctrl-C. `pit_handler` calls execute, the
keyboard and exception handlers call halt, halt calls execute for a base shell.

What is hard: execute and halt write eight tables in an order that matters; a tick
between two of the writes; a Ctrl-C in the middle of an execute; the first three ticks
after boot, each of which starts a shell on the stack of the thread it interrupted;
halt's test for a base shell (`syscall.c:149`), which is right only if slot *t* always
belongs to terminal *t*; a screen switch while a program is scrolling; a key that comes
between the wake-up of a reader and its copy, or in the middle of a putc; an interrupt
line that is raised while its handler runs.

How the modules fit together:

    TerminalStacks  <-- implemented by -- Multitasking        (ProcessStacks, MCMultitasking)
          ^-- extended by -- Descriptors                      (MCDescriptors)
    Screens         <-- implemented by -- Display
    Layout          <-- implemented by -- Console             (MCConsole)
    Scancodes -- events are the actions of --> Keyboard       (MCKeyboard)
    Rtc, Interrupts
    Strings <-- FileSystem <-- Programs;  Paging, Scancodes   (all in MCFunctions)
    <Module>Proofs: the theorems about <Module>;  FunctionProofs: those about Paging and Scancodes

## 2. Multitasking

### State and actions

Thread *t* is terminal *t*'s flow of control, in its user program or in the kernel;
`pc[t]` is where it is, `stack[t]` the 8KB kernel stack that holds its frames,
`caller[t]` who called the execute it is in (a user program, halt, boot or a tick) and
`slot[t]` the local variable the code keeps across steps (`i` and `pcb` in execute,
`curr_pcb` in halt). `cpu` is the thread whose registers are loaded. The other variables
are the kernel's own. `owner` is a history variable used only by properties. A saved
context (`schedule_esp/ebp`, `saved_esp/ebp`) is the thread, or the stack and caller, it
leads to; a physical frame or kernel stack is the number of its slot; the content of a
frame is the slot whose program was loaded into it.

execute and halt are cut into steps, one for each statement or group of statements
that reads or writes something another thread or a handler can see. What is grouped
touches only the thread's own data. The interrupt and exception handlers run with
interrupts off, hence one action each: `TickStart`, `TickStartFails`, `TickSwitch`,
`TickNowhere` (the outcomes of pit_handler), `CtrlC`, `Fault`. Execute called by a
handler ends its atomic part at `sti` (`syscall.c:108`), in `ex_iret`: from there on the
new shell may be interrupted while still on its predecessor's stack.

A user program may call execute (of any program, or of a name that does not exist) or
halt, or fault, at any moment. Where the code goes on with process number -1, which has
no PCB, or returns through a frame that is not there, the model loads no context:
`cpu = None`, and nothing happens any more. That stands for all the outcomes of that
undefined behaviour; a run in which it must not happen checks `ScheduledRuns`.

### Where interrupts may land

`TickPoints` and `KeyPoints` say at which points of a system call a tick or Ctrl-C may
arrive; in user mode both always may. The code excludes no point, and at some of them the
kernel is wrong, as shown below. `SafeTick` and `SafeKey`
(at the head of `Multitasking.tla`) are the points where it is right; each was found by adding points
one at a time. With them the passing runs say: *the kernel is correct as long as no
interrupt lands in the windows left out*. Nothing in the code keeps interrupts out of them, and
not all are short: the second holds the loading of the whole executable. They are, for a tick,

* between the test and the claim of a slot (`syscall.c:70-71`);
* from the new page mapping over the loading of the program to `term_proc` (92-108), where the
  scheduler would come back with the parent's page and stack;
* from the freeing of a slot to the end of halt (155-204), as another terminal may
  take the slot and overwrite the PCB halt still reads;
* while a base shell's slot is free before it is claimed again (150-71);
* at `iret` of a terminal's first shell, on the stack of the thread it interrupted;

and for Ctrl-C: from the claim to the saved return frame (71-104), where halt would return
through a frame of the slot's previous process; from the moment the parent is current to
the return to it (159-204), where the parent is killed as well; and the same `iret`.
`EarlyTyping = FALSE` says that nobody types a command before the three shells are up,
a few 10 ms ticks after boot (`pit.c:60` tests `term_proc[0] == 0`). The proof of type
correctness needs none of these restrictions.

Each point left out is left out for a counterexample. In `MCMultitasking.cfg`,
`TickPoints <- ClaimTick` (a tick also at the claim, `syscall.c:70-71`) makes TLC find
`FreshSlot` violated: two terminals take one slot. (At the safe points nothing runs between
the test and the claim, so that `FreshSlot` says nothing there and no run has it.)
`TickPoints <- LoadTick` (also between
the mapping and the load, 92-108) makes it find `UserContext` violated: the child runs in its
parent's frame, over its parent's program. And with the safe points alone `StatusReported` is
violated: `exception_status` (`idt.c:119`) is cleared only at the end of halt
(`syscall.c:184`), which a base shell's halt never reaches, so that after an exception in a
base shell the next normal exit is reported as 256, where `syscall.c:32-33` promises the
program's own status.

### Properties

* `ScheduledRuns`: the running thread is the scheduled terminal's, so no context was
  lost or loaded for the wrong terminal.
* `UserContext`: when a user program runs, it is its terminal's current process, in its
  own frame holding its own program, and `tss.esp0` names its own stack.
* `StacksPrivate`: the stack of a suspended thread is used by no other.
* `FrameReady`, `ChainIntact`: each child's return frame is that of the call that created
  it, on its parent's stack; parents are alive and in the same terminal; no process has
  two children; none is leaked.
* `BaseShells`: slot *t* is only ever claimed by terminal *t*, which halt relies on.
* `FreesOwn` (action property): a step frees no other terminal's slot.
* `RefinesStacks`: refinement of `TerminalStacks`, in which a terminal is a stack of
  processes, execute pushes a number nobody has and halt pops. The mapping
  (`ProcessStacks`) lists a terminal's processes from its base shell to the end of the chain,
  each behind its parent; `Nestings` are the lists of that kind, of which there is one.
* `RoundRobin`, `CallReturns` (liveness): every terminal is scheduled again and again;
  every execute and halt ends in some user program.

Fairness: strong for `Tick` (the PIT raises IRQ 0 every 10 ms and the PIC holds it while
interrupts are off, so a tick that may be taken again and again is taken), strong for the
kernel steps of each thread (a slice of 10 ms is time for many of them). None for users
and programs.

## 3. Display

`Display` models the three virtual-to-physical mappings of the text pages, the TLB that
lags behind them until `flush_tlb`, the content of the four physical pages, and the four
steps of `terminal_switch` (copy out, remap, flush, copy in). Writes are single bytes:
`Putc` for putc, putc_keyboard, clear_key, color_init; `ScrollByte` for one move of the
scroll loop of an echo; `ScrollRead` and `ScrollWrite` for one of `vertical_scroll`, which keys,
ticks and terminal switches may interrupt in the middle; `VidmapWrite` for user programs.
terminal_switch runs inside the keyboard interrupt with interrupts off, so no write
falls between its steps. Where the byte goes on the page is `Console`; what page_init builds
before all this is `Paging`.

`OnePagePerTerminal`: between switches the vidmap page and the putc page of a terminal are
the same, and no two terminals share one. `ThreeScreens`: refinement of `Screens`, where a
terminal has a screen, a write changes one cell of one screen, a scroll takes bytes up from its own
screen and puts them down on it, and a switch changes only which is shown.

## 4. File descriptors

`Descriptors` models the table of each process (kind of driver, inode, position, flag) and
the calls that use it. It takes processes from `TerminalStacks`, which the kernel
implements (run `chains`): `Execute`, `HaltBase` and `HaltChild` are execute and halt as far
as the tables go, and `Tick` may switch to any terminal. A call is cut where the PIT
could separate two uses of what processes share: `Open` / `OpenCall` (the driver looks
the name up again, into `dentry_temp`), `Read` / `Dispatch` / `FileRead` /
`FileAdvance` and `DirRead` / `DirCopy` (all after the lookup of the process in
`pcb_val_read`). A directory entry and its file are one index; a file's content is its
length in units. What is in an entry whose flag is 0 is not kept, as every use of it
comes after `open` has written it. Writes change no table and are left out; `units` is a history
of what was read through each descriptor.

* `StdOpen`: stdin and stdout are open in every process, whatever closes happen.
* `ReadsContinue`: a descriptor is open only if its process opened it, and its position is
  the number of units read through it since.
* `OthersKeepTheirFiles` (action property): a step changes no other process's table.
  It fails: halt's loop (`syscall.c:169-174`) runs when the parent is already
  current.

`SafeTick` leaves out the ticks inside a read. There the code is wrong: a tick after
`syscall.c:563` lets another terminal's read replace `pcb_val_read`, and one after
`file_system.c:345` lets another's open or directory read replace `dentry_temp`. With
`TickPoints <- Points` TLC finds `ReadsContinue` violated, and `ReadsOwnTable`, which says that
both are the reader's own at each of their uses. Without such ticks `ReadsOwnTable` follows from
the assignments, and no run has it. A tick in open is harmless and is included. The theorems on
types and `StdOpen` hold for every `TickPoints`, those on reads under `SafeTick`.

## 5. RTC

`Rtc` models the per-terminal counters, the flag a read waits for, and `rtc_reset_count`,
which all terminals share. `RtcHandler` may run between any two steps. `RtcOpen`,
`InitCount`, `InitReset` are the three assignments of rtc_open and rtc_init, since the counter
runs from the first on; the third reads it back, so an interrupt between the last two
makes the start value smaller than intended. `Halt` stands for all exits, a Ctrl-C in a
call included. The unsigned counter is a number modulo `WORD`, 2^32 in the code.

* `CountersRun`: a reader's counter is in `1 .. Slowest`: no accepted rate and no
  interrupted or killed open leaves it at 0, from where it would wrap around.
* `ReadWaits`: a read returns only after a tick of its own terminal during the call.
* `ReadReturns` (liveness): a read on a running counter returns, or its program is killed.
  Fairness: weak for the two interrupts, which the hardware raises for ever, and for each
  terminal strong for the exit of the loop, which runs many rounds in a slice. A read while
  `rtc_active` is 0, which a second descriptor's close can bring about, is not covered and
  does not return.

## 6. Keyboard

`Scancodes` models the decoding: Shift, Ctrl, Alt and Caps Lock set flags, every other key is
an event with a character that depends on them. The kinds of events are the actions of
`Keyboard`, which models the fields of a terminal that keyboard_handler and terminal_read
share. The handler runs with interrupts off and is one action per branch: `TypeLetter`,
`TypeTab`, `TypeEnter`, `TypeBackspace`, `TypeCtrlL`, `CtrlC`, `Switch`. They work on
`curr_term`, the read on `active_term`: `ReadStart`, `ReadWake` (the loop of
`terminal.c:96` is left), `ReadCopy` (with interrupts off). A key may come between any two,
of the displayed terminal whether or not that is the one reading. `Tick` changes terminals.

`typed` is the text since the buffer was emptied, edited as the user sees it; `clean` says that
the buffer can be compared with it. It is FALSE after three things the code does to a line
on purpose or by oversight: a line longer than the buffer; text begun between an Enter and the copy
of that line (the copy drops it, and its characters can still be erased); and a Ctrl-L that
drops a line after its Enter and leaves `enter_flag` set, so that the next read returns an
empty buffer.

* `Faithful`: the buffer holds the text as edited, `buf_idx` counts it, and `enter_flag` is set
  just when it has a newline.
* `ReadsTheLine`: what a read copies is the first ended line, cut to `nbytes`, whatever was
  typed after its Enter.
* `ReadReturns` (liveness): a waiting read whose line is ended returns, whichever terminal is
  displayed. Fairness: weak for `Tick`, and for each terminal strong for the two steps of its
  read, since a slice is time for many rounds of the loop.

What the code does wrong with a line longer than the buffer: keys past the end are not stored
but counted in `num_char`, each Backspace steps `buf_idx` back, and so it goes below zero
(`IndexInBuffer`, as an INVARIANT of `MCKeyboard.cfg`, is violated). The next key is then
stored in `num_char` or `buf_idx` themselves, which lie before the buffer (`terminal.h:18-20`);
the model lets `num_char` become its bound then. `MAX_UNDER` stops the index there.
Also: Tab echoes four columns and Backspace erases one (`keyboard.c:186` tests
`keyboard_buffer`, which nothing writes).

`KeysFollowed` (run `functions`): after any sequence of keys pressed, repeated and released,
the flags say what is held and the last character is the one Shift and Caps Lock call for. It
leaves out what the code does not do: with both Shift keys held, releasing one clears the only
flag; z and x do not heed Caps Lock; a Caps Lock held down long enough to repeat toggles.

## 7. Console

`Console` cuts `putc` into its statements (`at[t]` is the next one) and lets keys, ticks and
terminal switches come in between. `update_cursor`, at its end, is five more: it reads the position
into `pos[t]` (`lib.c:403`) and then selects and writes the two registers of the VGA's cursor with
four `outb` (`SelectsLow`, `WritesLow`, `SelectsHigh`, `LastOutb`), where `index` is the register
selected and `crtc` their contents. `putc_keyboard` and `update_cursor_key` run inside the keyboard
interrupt and are part of one action, `Echo`, `CtrlL` or `Switch`. A character is one of four: a
letter, which includes everything printable, a newline, a carriage return and a backspace.
`returning` is a history variable: the terminals in a row break that a carriage return began, which
stores no column in `prev_x`. `overtaken` and `misplaced` are the histories that `CursorShown`
needs: a terminal in `update_cursor` is overtaken when anyone else touches the VGA after its read, or
if it is not the displayed one to begin with (a switch after the test of `lib.c:270`), and the cursor is
misplaced from a write of an overtaken update on.

* `TypeOK`: cursors and `prev_x` stay on the screen (`OnScreen`).
* `CursorShown`: between two characters the VGA's cursor is that of the displayed terminal,
  unless it is misplaced. The code does write stale positions and torn ones: a key, a switch or
  another terminal's update between `lib.c:403` and 407 is overwritten, or leaves the index at the
  other register. The property says that nothing else puts the cursor wrong, and that the next key,
  switch or undisturbed update puts it right.
* `KeepsLayout`: refinement of `Layout`, in which a terminal has a column and the stack of the columns at
  which the lines above ended, as many as the screen shows; a line break pushes, Backspace at
  column 0 pops. The mapping takes a row break as done when only `screen_x = 0` is missing.

At most statements of putc the code does not survive a key echoed on the same terminal: with
`EchoPoints <- Labels` TLC finds `OnScreen` violated (a Backspace between the test for the
last row and the scroll, or between `screen_x++` and the wrap). `SafeEcho` is the rest:
outside putc, and after its last change of `screen_x` and `screen_y`, `update_cursor` included. Ticks
and terminal switches come anywhere.

## 8. Interrupts

`Interrupts` models the two 8259s (requests, lines in service, masks, priorities, the cascade), the
processor's flag, the gates, the order of `entry`, and each handler as far as the hardware sees
it: reading its device, the end of interrupt, the return. A tick that starts a shell or
switches, and Ctrl-C, do not return to the interrupted code: `Leave`. The RTC's line stays up
until register C is read; the keyboard's rises again as long as scancodes wait. `Init` is what a
boot loader may leave: any masks, requests pending, the RTC's flag up.

* `NoneHeldBack`: handlers do not nest, and whenever interrupts are on every interrupt taken
  has been ended on each chip it came through.
* `NoneLost`: a device whose line is up has its request latched or its handler about to
  read it.
* `TicksLast`: the timer's handler, which starts shells, never runs before terminal_init, although
  interrupts are on from `rtc_register` (`rtc.c:197`) and the boot loader may have left the timer
  unmasked and its request pending: ICW1 clears the request, and only pit_init unmasks the line.
* `EveryLineServed` (liveness): the timer for ever, the keyboard while scancodes wait, the RTC,
  which has the lowest priority, for ever once nobody types.

`KeySteps` are the steps of the boot at which a scancode may arrive: in the run all but the
first. With `"i8259_init"` among them `NoneLost` is violated: ICW1 clears the request of a scancode
that waits already, and the keyboard's line does not rise again. keyboard_init enables the
keyboard before terminal_init, so that keys are handled on terminals that are not set up. Shift, Ctrl and
the like, and all releases, only set flags there; a key that prints is echoed at address 0, a page fault,
and is left out (`KeyPress`). Fairness: the periods of the PIT and the RTC
are far longer than a handler, so the interrupted code gets on (strong for `Boot` and
`PitPeriod`) and a line of lower priority gets its turn (strong for each `Deliver`); the
processor runs (weak for `Handler` and `Sti`). None for the user.

## 9. Functions

`Strings`, `FileSystem`, `Programs` and `Paging` are operators, and the run `functions` calls them
with all inputs of small sets; a state is a call about to be made. Each property compares the
routine with what it is for, defined without its algorithm:

* `BlocksRight`: memcpy, memmove, memset and its two wide versions on all positions and sizes in
  twelve bytes: bytes up to alignment, dwords, the rest; overlaps in both directions.
* `PrintsRight`: itoa and printf on every number of a word of `WORD_BITS` bits, in all
  conversions, and on formats of up to three items, each of which must not depend on those
  before it.
* `FilesRead`: read_data on files of up to two and a half blocks, their blocks in any order, every
  offset and length; and a file read to its end in pieces of any size.
* `CommandsReach`: every command line of up to six characters, from the shell through parse_cmd,
  the directory, args_name and getargs.
* `ProgramsShow`: cat, and grep on every text of up to two buffers: each line that contains the
  pattern, once, whole and in order. `TextImage` is a file system with the text as its only file.
* `UserConfined`: what the page tables translate for a user program, and for the kernel.

What they leave out, because the code does it differently: a command name of 32 characters
or more has no terminator and runs on into the stack (so it may not be found); spaces inside
arguments are dropped; a line of spaces finds the first unused directory entry; a format that
ends in `%` makes printf run past its end; a 33-byte argument has no terminator; grep splits a
line longer than its buffer, and takes a line that the end of the first buffer divides for
complete if the uninitialized byte behind the buffer happens to be a newline
(`ece391grep.c:33`): with a newline in `junk`, `ProgramsShow` fails.

Each of these properties is also proved, for the constants of the run and for inputs of any
size (section 11).

## 10. Runs

| run | instance | result |
|---|---|---|
| `chains` | 2 terminals, 4 slots, safe points | the seven safety properties of section 2 and the refinement hold (281 thousand states) |
| `terminals` | 3 terminals, 4 slots, safe points | `ScheduledRuns`, `StacksPrivate` hold with the code's three terminals (3.8 million states) |
| `liveness` | 2 terminals, 3 slots, with fairness | `RoundRobin`, `CallReturns` hold (28 thousand states) |
| `unsafe_points` | 2 terminals, 2 slots, some unsafe points, early typing | reaches every branch of the handlers; types hold. The machine may stop: no deadlock check (15 thousand states) |
| `display` | 3 terminals, 2 cells, 2 values | `OnePagePerTerminal`, `ThreeScreens` hold (52 thousand states) |
| `descriptors` | 3 processes, 2 terminals, 3 descriptors, 3 entries, files of 2 units, no tick in reads | types, `StdOpen`, `ReadsContinue` hold (110 thousand states up to symmetry) |
| `parent_files` | the same | `OthersKeepTheirFiles` violated: a shell opens a file, runs a program, and the program's exit closes it |
| `rtc` | 2 terminals, rates 2 to 8 Hz, 2 descriptors, with fairness | `CountersRun`, `ReadWaits`, `ReadReturns` hold (199 thousand states) |
| `keyboard` | 2 terminals, a buffer of 3, with fairness | `Faithful`, `ReadsTheLine`, `ReadReturns` hold (266 thousand states) |
| `console` | 2 terminals, 2 rows, 2 columns, registers of two values, safe points for keys | types, `CursorShown`, `KeepsLayout` hold (1.2 million states) |
| `interrupts` | 2 scancodes, with fairness | `NoneHeldBack`, `NoneLost`, `TicksLast`, `EveryLineServed` hold (476 states) |
| `functions` | words of 8 bits, names of 2 bytes, blocks of 2, a buffer of 3 | the seven properties of section 9 and `KeysFollowed` hold (334 thousand states) |

Bounds. Two terminals are enough for every interleaving of two system calls; three are
needed for the start-up, where the middle terminal is both started and starting. With 4
slots and 2 terminals a chain has three processes (a parent with a parent) and the table
fills up; with 3 terminals there is one slot they compete for. A screen of `Display` has two
cells so that a scroll moves one onto the other; two values tell whether a byte came from its
own screen. Three
processes in two terminals give a parent, its child and a stranger; with three
descriptors each has one to open beyond stdin and stdout, and it is exhausted at once; the directory
has an entry of each type, so that reads run past its end; a file of two units is read in one
or two parts. The rates 2 to 8 make counters from 1 to 4, the code's 2 to 1024 make 1 to 512;
`WORD` is the least word above the highest rate; two RTC descriptors per terminal
(`MAX_OPEN`) let one be closed while the other is open.

A keyboard buffer of 3 is filled by two characters and a newline, so that it overflows, is
ended when full, and holds a line with text behind it; `MAX_KEYS` is one key more than fits on
one terminal, and 0 on the other, where then only Enter and Ctrl-L are typed, enough to disturb
`read_flag` and `enter_flag`; a read may ask for less than a line or for all. Two rows
and two columns are a first and a last of each, and with registers of two values (`BYTE`) a position
has two different halves, so that a torn one shows; three rows, with the steps of update_cursor, make
too many states, and the theorems hold for every size. Two scancodes let one wait behind
another; everything else in `Interrupts` is finite by itself. Three directory entries allow a
duplicate, an unused entry and one behind it; commands of six characters hold two words that fit
with the spaces around them, and words one and two characters too long; blocks of two bytes and
a buffer of three never divide a file at the same places.

## 11. Proofs

A theorem about a component is in `<Module>Proofs`; `FunctionProofs` is about `Scancodes`,
`Paging`, `Strings`, `FileSystem` and `Programs`. Theorems are for every value of the constants that the `ASSUME`s of the
modules admit. Some have one hypothesis more:

* `SafePoints` (`MultitaskingProofs`): `TickPoints \subseteq SafeTick`, `KeyPoints \subseteq
  SafeKey` and `~EarlyTyping`, the condition of section 2. The runs `chains` and `terminals`
  take the largest sets it admits.
* `SafePoints` (`DescriptorsProofs`): no tick inside a read, as in the run `descriptors`.
* `SafePoints` (`ConsoleProofs`): keys at the points of section 7 only, as in the run `console`.
* `"i8259_init" \notin KeySteps` (`InterruptsProofs!Latched`), as in the run `interrupts`.

The code guarantees none of these conditions; the theorems say what it guarantees as long as they
hold. Where they do not, the properties fail, as sections 2, 4, 7 and 8 say.

### Multitasking

* `Typed`: `TypeOK`, without `SafePoints`. It is inductive because it also says that a thread
  in the kernel has a stack and that only threads that have been started are saved as
  contexts; without the latter `TickSwitch` could load a thread that is `off`. The lemma on the
  search for the first free slot (`FirstFreeIsFree`) uses the well-foundedness of `<`.
* `Scheduled`, `InItsOwnFrame`, `Private`, `FrameSaved`, `ChainsKept`, `BaseShellsStay`: the six
  safety invariants of `chains`, and `Freeing`, the action property `FreesOwn`, under `SafePoints`.

None of the six is inductive; they follow from `IInv`, of which TLC has checked the 281 thousand
states of `chains` and the 3.8 million of `terminals`. It says, terminal by terminal
(`Good`):

* `Thread(t)`: for every program point of execute and halt, which of the terminal's tables are
  already written and which are not yet. `CallThread` is a system call of a user program:
  between the claim of slot *s* and the write of its PCB (`Fill`) `curr_pid` and `parent_pid` say
  nothing, from there to `term_proc` (`Build`) the new process is current but the scheduler
  still knows the parent, and so on. `BaseThread` is the start or restart of a base shell.
* `Chain(t)`: the parent of each child is set up, in the same terminal, and not the
  end of the chain, no two children share one, and each child that is not the end has a child. That
  the last one has none, `q # Tip(t)`, is what halt needs to leave no orphan.
* `Suspended(t)`, of the threads that do not run: they stopped where a tick is safe, their context
  is in the PCB of their terminal's process, and in user mode their kernel stack is the one
  `tss.esp0` will name.

and in addition that the running thread is the scheduled terminal's, `Registers` (the page and
`esp0` in force, which lag behind `curr_pid` in the middle of execute), `BaseSlot` (slot *t* is
terminal *t*'s, and free only while a restart is about to claim it, which nothing may
interrupt), and until all base shells run, `Starting`, which describes the first ticks.

A step writes slots of the running terminal only. The proof of each action therefore has two
parts: `OthersKept`, what the step leaves alone, from which one lemma concludes that every other
terminal stays `Good`; and `Mine`, the running terminal's own part. A tick has no part of the second
kind except the change of which thread runs; Ctrl-C and a fault (`HaltBaseSafe`,
`HaltChildSafe`) are a halt at whatever point `SafeKey` admits. `Freeing` follows step by step.

`StacksRefined` is the refinement `Spec => RefinesStacks`. The abstract stack of a terminal is a list
of its processes in which each follows its parent. Such a list is unique (`OneWay`: two of them
agree at the end, and if they differed somewhere there would be a last place, whose successor has
one parent), so that it is enough to give one after each step: `PushedWay` appends a process
whose parent was the end, `PoppedWay` takes the end off, `SameWay` keeps the list when the tables
change elsewhere. That there is one in every state is `Nested`, proved by the same induction
as the refinement. Each action does one of three things to the running terminal, `Same`, `Grows`
or `Shrinks`, and `Same` to the others; `OneTerminal` turns that into a step of
`TerminalStacks`. A process appears when its PCB is written (`ExPcb`), and disappears when halt
frees its slot (`HaBase`, `HaFree`); Ctrl-C in `ha_parent`, after the slot was
freed, is a stutter, and a base shell that halts under Ctrl-C is popped and pushed in one
step, a stutter too. `FillsOwn`, that a slot being filled in belongs to the thread that fills it,
keeps whether a process is set up a matter of its own terminal.

### The others

* `DisplayProofs!Typed`, `OnePage`, `Refinement`: type correctness, `OnePagePerTerminal`
  and `Spec => ThreeScreens` for any number of terminals, cells and values. The
  inductive invariant (`Invariance`) says for each step of terminal_switch which
  mapping is in the tables, which in the TLB, and that after the copy-out the
  backup page equals the displayed one. A byte that a scroll has taken up needs no invariant but its
  type: the refinement carries it as it is.
* `DescriptorsProofs!Typed`, `StdStaysOpen`: `TypeOK` and `StdOpen` for any number of
  processes, terminals and descriptors and any `TickPoints`. `StdOpen` is not inductive: a
  tick may lead FileAdvance to the table of any process. `InDriver` adds that a driver of
  files or directories only ever works on descriptors from 2 on, and `StdIntact` that
  entries 0 and 1 of all tables, of dead processes too, are the initial ones or were
  never made, which is why the dispatch cannot take them for a file.
* `DescriptorsProofs!Continued`: `ReadsContinue` under `SafePoints`. It is inductive only with what a read knows at each point (`Reading`:
  `pcb_val_read` is the current process, its descriptor is open, and before the copy
  `dentry_temp` is the entry at its position), that no other terminal is inside a read
  (`Parked`), and that no process is in two places (`Apart`), without which another terminal's call
  would move the descriptor. `Isolated` states what is left of `OthersKeepTheirFiles`, which the run
  `parent_files` refutes: the exit of its own child is the only thing other than its own calls that
  changes a process's table. `IInv` was checked on the instance of `descriptors`.
* `RtcProofs!Typed`, `NoWrap`: `TypeOK` and `CountersRun` for any range of rates and any
  word above it. The strengthening `Counting` says that who has a descriptor, or has
  passed `InitCount`, has a counter in range; the lemma `Quotient` bounds the division
  that makes start values. `TickSeen`: `ReadWaits`, which is
  inductive once the variables are typed: the only steps that set the flag of a waiting read also
  set its history.
* `KeyboardProofs!Typed`, `Edits`, `Reads`: `TypeOK`, `Faithful` and `ReadsTheLine` for any
  number of terminals, buffer size, characters and bounds. `Faithful` is not inductive:
  Backspace might take a newline, or a character of a finished line. `InStep` adds that the
  last `num_char` characters of the text are those Backspace may take and none of them is a
  newline, which newline is the first, and that only a newline takes the last cell;
  `Woken`, that a read which has left its loop finds `enter_flag` still set.
* `ConsoleProofs!Typed`, `Shown`, `LinesKept`: `TypeOK` (cursors and `prev_x` on the screen),
  `CursorShown`, and the refinement `KeepsLayout`, for any number of terminals and screen size,
  under `SafePoints`. For `CursorShown` the inductive invariant (`CursorInv`) adds, as `Undisturbed`, what
  an update that is not overtaken can rely on: it is the displayed terminal's, `pos` is still the position,
  `index` names the register it is about to write, and after its second `outb` the low register holds
  the low half of `pos`. `Midway` says what putc has
  tested and not yet used (`down` is above the last row, `uprow` has the column of the row
  above, ...), which is what an echo at another point would undo. The refinement needs nothing
  more: `LineBroken` shows that a row break, with or without a scroll, is a push on
  the remembered columns, and each statement of putc is a push, a pop, or a stutter because the
  mapping has counted it already.
* `InterruptsProofs!Typed`, `Ended`, `SetUpFirst`, `Latched`: `TypeOK`, `NoneHeldBack` and
  `TicksLast` in any case, `NoneLost` if no scancode arrives before the 8259s are set up, for any number
  of waiting scancodes. `NoneHeldBack` says nothing of a processor between cli and sti; `Idle` adds that
  nothing is in service whenever no handler runs. `SetUpFirst` rests on `TimerOff`: until pit_init the
  timer's line is masked or interrupts have never been on. `Latched` needs that before i8259_init
  nothing waits in the keyboard, and before `rtc_periodic` the RTC raises no line.

### Functions

`FunctionProofs` extends `MCFunctions`. For each routine it has a theorem for all arguments, and
another that draws the property of the run `functions` from it:

* `Followed`: `KeysFollowed` for any set of keys, under `ScanSpec`, keys pressed,
  repeated and released in any order. `ShiftFollowed` adds when the one Shift flag is as good as the
  keys: `overlapped` holds from the moment both are down until neither is. `KeysInstance`
  takes it to the run's own `Spec`.
* `Confinement`: `Confined(pid, index)` for every process number and every
  page-directory entry; `PagesConfined` is `UserConfined`.
* `MemcpyCopies`, `MemmoveCopies`, `MemsetFills`, for any memory, addresses and lengths, memcpy
  as long as `dest` does not lie inside the source; `BlocksMoved` is `BlocksRight`.
* `ReadsBytes`: read_data for any image, block size, file, offset and length. `ReadsWholeFile`:
  reading on, by any number of bytes, returns the whole file. `FilesWhole` is `FilesRead`.
* `StrrevReverses`; `NumbersPrint` (the digits say the number and none leads with a
  zero, in both radices), `NegativesPrint` (the least number too), `PaddedPrints` for words of
  any width; `FormatsCompose`: a format prints after another what it prints alone, for
  all formats and arguments, if the first does not end inside a conversion. `FormatsPrint` is
  `PrintsRight`.
* `NamesRead`, `NamesListed` (ls), `NamesFound`, `CommandNamed` (parse_cmd), `ArgumentsPassed`
  (args_name and getargs) and, composed of these, `ProgramsReached`: for any command line,
  directory and stack contents the shell runs the first entry named by the line's first word, and never a
  program of another name. `CommandsServed` is `CommandsReach`.
* `GrepFinds`: for any text, and any buffer that holds its longest line, grep prints
  the lines with the pattern, each once, whole and in order, if what lies in the buffer before the
  first read is not a newline, which section 9 shows to be necessary. `CatCopies`: cat prints the file.
  `TextsShown` is `ProgramsShow`.

The library's induction theorems take an operator as a parameter and cannot be instantiated
here. Each induction is therefore by a set: `Turns` says that a set which contains 0, and with *k*
also *k* + 1 up to *n*, contains all of `0 .. n` (the least number outside of it would have a
predecessor inside). A loop of the code is a function of the number of turns, defined in
the model by recursion. `LoopExists` shows that a function with these equations exists, which
a `CHOOSE` does not promise; `AlikeTurns`, that there is only one, so that a loop is what a closed form
satisfies. After that a loop's proof is an invariant of its turns, as the code's author would
state it. The longest is grep's. Between two reads (`Rested`) the buffer holds the last `last` bytes
read, everything printed so far is `Hits` of the text before them, and that place is
`Searchable`: the beginning of a line (`Fresh`) or the end of one whose newline is still to come
(`Spent`), as happens where a read ends just before a newline: grep has searched that line already
and takes what is left for an empty one. Within a buffer
(`AtLine`) the same holds of `line_start`. `LineTurn` is one line, `GrepDone` the whole file: each
read either brings bytes or the search is over.

Assumptions are the `ASSUME`s of the modules: at least one terminal
(`Display`, `Rtc`, `Keyboard`, `Console`), at least two terminals and no more than slots
(`Multitasking`), at least one descriptor beyond stdin and stdout, a lowest rate above 0, a
word that holds the highest, a buffer and a screen of two by two at least, reads of no more
than the buffer, and the types of the parameters. The types of `Display`, `Rtc`, `Keyboard`
and `Interrupts` are proved and no run checks them again.

Model-checked only: the liveness properties `RoundRobin`, `CallReturns`, both `ReadReturns` and
`EveryLineServed`, which rest on fairness and `ENABLED`. Every safety property of a passing run
has a theorem.

## 12. Not modelled, and what is left

Not modelled: the GDT, LDT and TSS, the multiboot checks and the programming of the PIT and
RTC chips are straight-line writes of constants; `disable_irq` is called by nobody; the
write functions of files and directories only return -1; `tests.c` tests the kernel from within;
of the user programs those that show something of the kernel are in `Programs`, the others are
demonstrations and tests, and in the kernel's models a user program may do anything. Of those that
are modelled, ls's branches and messages for failures, the shell's "exit" and grep's loop over the
directory are left out, and of memmove the processor's direction flag (`std`, `cld`);
`fish/` and `ece391emulate.c` emulate the kernel on another system.

Undefined behaviour is a choice where its outcomes can be listed (the bytes behind
`command_name`, grep's uninitialized buffer, stores before the key buffer), and a halt of the
model (`cpu = None`) where they cannot.

Left, in order of importance:

1. `ReadReturns` of `Rtc` for a second descriptor of the same terminal, whose close stops the
   counter (`rtc.c:161`): a property that says when it is guaranteed.
2. `unsafe_points` checks types and reaches every branch; which properties are left when ticks
   land anywhere (`Typed` is proved for that case) is not stated.
