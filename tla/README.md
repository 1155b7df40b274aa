# Verification of RISC-V-TE

TLA+ models of RISC-V-TE, checked with TLC, and theorems about them proved with
TLAPS. RISC-V-TE runs C programs in user mode on an ESP32-C3 under a small
machine-mode monitor that checks returns against a shadow stack; a Python script
puts the checks into the compiled program, and the tools of the repository build
the image, flash it and talk to the board.

## 1. Inventory

| part | state it keeps | operations | how it meets the others |
|---|---|---|---|
| shadow stack (`shadow_stack.c/.h`) | `addresses[63]`, `top` | `isFull`, `isEmpty`, `push`, `pop` (`initStack` is never called) | called by the monitor only |
| monitor (`intr_vector_table.c`) | the shadow stack, `mepc`, `mcause` | vector table, `synchronous_exception_handler`, the exception and interrupt routines, `code_termination` | entered by traps of user code; reads `a7`, `a6`, `mepc`; leaves by `mret` |
| machine setup (`main.c`) | `mtvec`, `mstatus`, `mepc`, PMP | `main`, `terminate_execution` | starts user code, parks a finished one |
| user program (`usercode/`) | registers, its own stack | calls, returns, the exit ecall | its instrumented ecalls drive the monitor |
| instrumenter (`instrumenter.py`) | the assembly files, `leaf_functions` | `is_leaf`, `instrument` | reads and rewrites the files of the build |
| build (`flasher.py`) | files of `toolsExtra/`, which outlive its process | `clear`, `build`, `secure_build`, `flash` | runs the compiler, the instrumenter, `esputil` |
| SLIP (`slip.h`, a copy in `esputil.c`) | buffer, length, mode, previous byte | `slip_send`, `slip_recv` | under every dialogue with the board |
| `slipterm`, `esputil monitor` | the SLIP state | one loop each | serial line, console, network |
| `esputil` bootloader client | request in progress, chip | `cmd`, `chip_connect`, `info`, `readmem`, `readflash`, `flash` | serial line, ROM bootloader |
| `esputil` conversions | files | `mkbin`, `mkhex`, `unhex` | build and flash |
| board support (`esp32c3/`, `esp32/`) | registers | start-up, `sbrk` | linked into the firmware |

What is hard, and what makes each part correct:

- *Monitor, user program, instrumenter together.* A push is made by the caller's
  check and the pop by the callee's, so they pair up only if `instrument` treats
  all calls and all returns of a function alike; the pushed address is computed
  from `mepc` and must be the one the call puts in `ra`; a refused return must
  stop the program even when its stack was damaged; and every trap must resume
  user code at the right place with the right registers. There is one hart and
  the handler is not interrupted, so the interleavings are those of user
  instructions with traps.
- *Instrumenter.* What is known about leaves depends on the order in which
  functions and files are read, and files are rewritten while they are read.
- *Build.* A command links every assembly file it finds in its directory, also
  those a failed or older command may have left there; any of the programs it runs
  can fail or be interrupted half-way.
- *SLIP.* The meaning of a byte depends on the bytes before it; a full buffer and
  lost bytes must not spread.
- *Bootloader client.* Answers come late, several times, not at all, or refuse, with
  text of the chip in between; what is discarded may cut a frame in two, and the
  receiver's mode survives. Where an answer has its error code depends on what chip it is.
- *Conversions.* An image must be what the ROM loader reads, byte by byte; `mkhex`
  and `unhex` pass addresses on in halves; `flashbin` changes some bytes on the way.

`PROJECT.json` lists the hazards line by line with the properties that cover
them.

## 2. Modules

| module | models |
|---|---|
| `ShadowStack` | `SStack` and its operations; `Contents` is the sequence it stands for |
| `SecureMonitor` | user program, traps, handler (section 3) |
| `CfiPolicy` | the abstract promise about returns |
| `MCSecureMonitor` | a program text with recursion, a leaf and a faulting access |
| `InstrumenterPass` | `is_leaf` and `instrument` as functions of the files |
| `BuildChain`, `MCBuildChain` | `flasher.py` with the pass in its middle: commands, files, failures |
| `Assembler` | what the external toolchain makes of instrumented lines |
| `MCSecureBuild` | the repository's sample program, instrumented, assembled and run under `SecureMonitor` |
| `Slip` | `slip_send` and `slip_recv` |
| `SlipTerm`, `MCSlipTerm` | `slipterm`'s loop and `esputil monitor`, two lossy lines |
| `BootLink`, `MCBootLink` | `cmd` and the commands built on it, the chip at the other end |
| `ImageFile` | `mkbin` as a function, and the ROM loader that reads its result |
| `HexFile` | `mkhex` and `unhex`, one line a step |
| `Images`, `MCImages` | an image's way from the ELF file through `HexFile` and `flashbin` into flash |
| `ShadowStackProofs`, `SecureMonitorProofs`, `BuildChainProofs`, `SlipTermProofs`, `BootLinkProofs`, `ImagesProofs` | theorems about the module each is named after (section 6) |
| `FlashProofs` | the theorems about `flash` in `Images`, on top of `ImagesProofs` |
| `SequenceLemmas` | induction over the elements of a set, and lemmas about `FlattenSeq`, `IsPrefix`, `RemoveAt` and sequences in a row that several of these need |

`BuildChain` extends `InstrumenterPass`; `MCSecureBuild` composes `SecureMonitor` with
`Assembler`, which uses the same pass; `Images` extends `HexFile` and `ImageFile`.

An operator whose name is another's with a suffix (`Pop_KeepsTop`,
`TrapReturn_Compressed`) is a *mutant*: a plausible bug, used to see that a
property notices it. Specifications do not use mutants.

## 3. How the models correspond to the code

**SecureMonitor.** `Text` is the loaded program: a function from addresses to
instructions, each with its function, size and destination. Only the
instructions that transfer control, trap, or announce a transfer are kept;
straight-line code is a `body` instruction from which any transfer of the same
function may come next, which covers every branch structure. `PrepareCall` and
`PrepareReturn` are the template lines that load `a7`; `Call` includes the
callee's prologue, `Epilogue` the reload of `ra`. `Ecall` and `Fault` are the
hart's traps (vector table and `mcause`, `mepc`);
`synchronous_exception_handler` is one atomic step, as no interrupt source is
enabled: it dispatches, runs `esr_handler_U_mode_ecall` (`esr_jump`, `esr_return`
or the exit), and either `TrapReturn` (`ra` and `sp` restored, `mepc + 4`,
`mret`) or `code_termination`, whose `mret` leaves the handler in the middle so
that the code behind the call in C never runs. `Init` is the state after the
`mret` of `main`. `a0` stands for the argument registers and only remembers who
wrote it last. `Load` is one of the instructions that a check written by hand has
between its ecall and the call: `user_code.c:72-74` has one, which loads `a6`.

A program has one of two defects, or none. `StrayWrite` overwrites a saved return
address; the words are taken to be even, since an odd address is not executable and an
odd code word is what the handler cannot tell from a jump. The other is what `a6` holds
at an ecall, where the handler takes it for the number of instructions up to the call:
nothing loads it before, so `a6Left` is any of `A6Values`, and `skewed` remembers a check
at which it was wrong. Balance, the refinement and control in the image are stated for
both; that what is stored is the return address (`Mirror`) and that no correct return is
refused (`NoFalseAlarm`) while neither defect has shown. Both defects at once are left
out: a wrong stored address and a wrong saved one may agree on any address.

The hypotheses are named: `ImageAssumption` (what the templates give the layout),
`ConsistentlyInstrumented` (what `instrument` means to do: calls and returns of a
function are checked together, exactly when it calls something; user code ends in
its entry function) and `HandlerHypotheses` (what the handler's constants take for
granted: a checked call is two bytes long, an instruction that faults is four;
nothing is assumed of `a6`). The calls of a program that does not fit a two-byte
call would not satisfy them: `mepc + 6` counts "+ 2 (jump instruction)"
(`intr_vector_table.c:277`).

**InstrumenterPass, BuildChain.** A line is what the regular expressions tell apart.
`is_leaf` reads the files as they are on disk, so files rewritten earlier are read
with their checks; its side effect on `leaf_functions` is `Remembered`. `PassLine`
is the loop body of `instrument`, and `BuildChain` takes it one line a step. An indirect
call (`jalr`) is an `other` line: `UNDIR_JUMP_PATTERN` (`instrumenter.py:4`) is defined and
never used, so the pass neither checks it nor counts it as a call. In `MCSecureBuild` the
calls of the sample through `funPtr` (`user_code.c:75-76`, `84-85`) are direct calls, which
rests on the compiler's constant propagation at `-O1`.

A process of `flasher.py` walks through the steps `clear`, `Retrieve` (the list of
`os.listdir`, in any order), `Compile`, `InstrumentLine`/`WriteFile`, `Link`, `Mkbin`,
`Objdump`, `Flash`, `Monitor`; `at` says where it is. `run_command` raises when a
program fails and nothing catches it, and an interrupt ends the process, so each
step has a failing alternative with whatever a program of its kind may have left
behind: some of the files removed, some assembly files written, half an image, an
assembly file cut anywhere. Files and flash survive the process; its variables
(`NoProcess`) do not. `Start` is the next command line, `Edit` a change of the
sources. What was linked is the lines of each file; the four system files are one.
Two things are taken for granted: the user's files have names of their own (`gcc -S`
writes a user's `main.s` over the system's), and no path has a second `.c` in it
(`.replace(".c", ".s")` would name a file that does not exist, which ends the build).

**Slip, SlipTerm.** A byte is one of the four special values or `Data`. The
receive buffer is the sequence of its first `len` bytes. Both directions of the
line are modelled; the side outside the repository (the program on the board) is
taken to use the same framing, as `slip.h` is written to be shared. Text never
holds the byte 192, as in ASCII and UTF-8.

**BootLink.** A command is a script of requests, each with what its caller does
when `cmd` fails: give up, retry, stop, go on. On the line a frame is its two ENDs
and the body between them, and `slip_recv` is the mode machine of `Slip` over these:
the mode and what is buffered survive time-outs and flushes. An answer can be late
because `Interrupted` (time-out, or stdin readable first) is possible at any moment
of waiting, also while the answer is being read. `Chatter` is text that the chip prints, at
any time and as often as it likes; it may stand between frames or, where the receiver is
inverted, inside one, and then the error code is read from text. What `cmd` has read behind an
answer never reaches the receiver, and `chip_connect` flushes: `Discard` drops any
number of tokens, so that a frame may be cut. `options` are `flash`'s: a fast `-b`, an
`-fp`, the files, and an argument it can use in no way (`stray`), which it never gets
past. The chip is external: it may lose, refuse or answer a request, a SYNC several
times, and `MayRefuse` says which kinds of request it may refuse (`Kinds` tells the read of
the chip's ID, `read_id`, from other reads). Where an answer has its ID a refusal has some
number, and `chip_detect` takes it: 0 leaves the chip unknown, any other is no chip's
(`"none"`). `fault` remembers what went wrong: `"cut"` once a discard has cut a frame,
`"line"` once a request or an answer was lost, late or a refusal.

**ImageFile, HexFile, Images.** A file is its bytes. `mkbin` is a function of the entry point
and the program headers (`Phdr` has the skipped empty header, with the zeros that follow the
table in the files of the GNU linker); `Loader` is what the ROM does with the result, the
reference definition. `MkhexLine` is one round of `mkhex`'s inner loop, `UnhexData` and
`UnhexOther` one line of `unhex`; a file of `dir` is named by its address. In `Images` the image
is flashed together with data files, as binary files or through one `.hex` file; `FlashParams`
is what `flash` reads from the old image or is given, or nothing where that read fails
(`unread`) (`unhex`, which `flash` runs after that, touches nothing that `FlashParams` reads, so
the model may do it before), `EraseFile` and `WriteBlock` are `flashbin`'s requests with what
the chip does. An erased or unwritten byte is 255. Each file begins on a block of its own, as
erasing works on blocks.

## 4. Runs

| run | question | result |
|---|---|---|
| `secure_monitor` | stack depth 2, recursion, leaf, faults, damaged frames, a check with two instructions behind it, any of three values in `a6`: types, inductive invariant, `Balanced`, `Mirror`, `NoFalseAlarm`, `ControlInImage`, refinement of `CfiPolicy`, termination | holds |
| `secure_build` | the repository's sample through instrumenter and assembler, stack of 63: `SampleRuns` | holds |
| `build_chain` | five functions in every order, cut into two files, listed in either order, for one command; two small projects for three commands with failures and changes in between: `OnlyInserts`, `NonLeavesChecked`, `Paired`, and `FlashedWhole`: what is flashed holds nothing stale | holds |
| `slipterm` | all frames of one or two bytes over all byte classes and frames as long as the buffer and longer, with text in between, both ways, up to two lost bytes: `TypeOK`, `RoundTrip` (nothing lost, frames that fit), `NoMixing` (no END lost) | holds |
| `bootlink` | four commands with their options, an ESP8266 that may refuse anything and an ESP32-C3 that may refuse anything once it is known, both printing when they like: `FlashedRight`, `ReadsRight`, `RefusalsSeen`, `EventuallyStops`, and `Works`: on a line without faults the command does all it is for, and a cut frame alone can only keep it from finding the chip | holds |
| `images` | ELF files with one to three headers and segments of many sizes, data files behind a gap, adjacent or across a bank, two chips, two ways: `RoundTrip`, `FlashedBytes`, `Boots` | holds |
| `stale_a6`, `context`, `build_chain_leaf`, `monitor_udp`, `bootlink_refusal`, `images_unaligned` | sentences of the repository about the program | violated (section 5) |

**Bounds.** `MAX_SIZE = 2` makes a full and an empty stack reachable within `MaxWork = 4`
transfers, and the program recurses, so that the same return address is on the stack twice.
`WordMod` exceeds all addresses; arithmetic is modulo it. `StrayWords` holds two return sites of
the program and an address where there is no instruction. `A6Values = {0, 2, 3}` has the value
that is right at the one check (two instructions behind it), that at the other (none), and one
that is right at neither. The five functions of `build_chain` are an entry, a recursive function
with a switch, a function that only calls the library's `abs` (no leaf to the pass), a leaf, and
a function that calls both; cuts into two files go up to half of them, as the files are listed
in either order. `MaxCommands = 3` lets two failed commands, with a change of the sources in
between, lie behind the one that flashes; the layouts get one command each, as their number is
in the order of lines and not in what is left on disk. A SLIP buffer of three bytes with frames
of one to four bytes reaches every overflow case; two items suffice since the receiver's state
at the end of an item is its mode and the last byte. `MaxSync` is 3 for 50: the attempts differ
in their number only. `SyncReplies = 2` leaves one answer behind the one that is taken, which is
discarded, cut or arrives later; three attempts can leave one each. What is unread holds at most
one piece of text, as more of it changes nothing. `flash` gets no file, one of two blocks, two
files and an empty file. In `images`, `Bank = 256` stands for 65536, `BlockSize = 32` for 4096
and `FlashSize = 384` is a bank and a half, so that the segments and files of the instance end
before, at and behind lines, blocks and banks; `LineLen = 16` is the code's.

**Fairness.** `FairSpec` of `SecureMonitor` is weak fairness of the program's own
steps: the hart keeps executing. With `MaxWork` this says that a program which
stops making calls ends; `StrayWrite` is not fair. `FairSpec` of `BootLink` is
weak fairness of the host only: `select` returns, at the latest at its time-out, and the
process goes on; the chip owes nothing. But `cmd` waits for each read anew and has no
time limit of its own (`esputil.c:451-456`), so a chip that prints for ever keeps it
waiting for ever: the liveness properties have the premise `InPeace`, that the chip stops
printing at some time. It is a premise of these properties and not of the specification.
`Works` holds under the same fairness: when the chip stays silent, the request or its answer
was lost.

`CHECK_DEADLOCK FALSE` is set where the system may stop: when all bytes are
delivered (`SlipTerm`), when a command has ended (`BootLink`, `Images`) and when
`MaxCommands` are used up (`BuildChain`).

## 5. Disagreements between the code and its words

1. `a6` is added to the stored address although instrumented code never loads
   it, against "not needed when instrumented" (`intr_vector_table.c:120`): run
   `stale_a6` stops a correct program.
2. "Restore context" (`intr_vector_table.c:188`) restores `ra` and `sp` only: run
   `context` shows the argument register of a checked call holding what the
   handler left in it.
3. "Check if the current function is a leaf. If it is, skip"
   (`instrumenter.py:69`): a leaf that comes before its callers, or last in its
   file, is not skipped: run `build_chain_leaf`.
4. "UDP socket for exchanging SLIP frames when monitor" (`esputil.c:93`): no
   frame is ever sent to it: run `monitor_udp`.
5. "Return 0 on sucess, or error code on failure" (`esputil.c:438`): before the
   chip is known an ESP32's refusal returns 0: run `bootlink_refusal`. It goes on from there:
   what a refused read of the chip's ID holds is taken for the ID, and if that is 0 later
   refusals are not seen either, so that a refused block can be taken for written. The
   theorems name the condition (`DetectionAnswered`, `ConnectAnswered`, section 6).
6. "`esputil unhex` command unpacks .hex file back into a set of .bin files"
   (`esputil/README.md:16`): `mkhex` repeats the high half of the address only when a line
   starts a bank, so a file whose lines run across one comes back in two pieces, the
   second 64K too low: run `images_unaligned`. Files at multiples of 16 are safe:
   `LinewiseRoundTrip`, section 6.

Further differences, which no run of their own is about; where a property of a passing run
allows for one, it is named:

- The check written out in `user_code.c:72-74` ("we need to store its return address",
  line 71) loads `a6` behind its ecall: too late for this check, so what is stored is not the
  return address unless earlier code left the right number in `a6`. `Mirror` and
  `NoFalseAlarm` are about programs in which it is right (`skewed`).
- "Adjust the mepc to point to the next instruction" (`intr_vector_table.c:195`) adds 4
  also when a two-byte instruction raised the exception, and skips the next one, or half of
  it. `secure_monitor` and the theorems assume four bytes (`HandlerHypotheses`).
- "Regex to find return instructions" (`instrumenter.py:5`) also finds the indirect
  jump of a switch, which then gets a return check.
- "Send SYNC commands until success, and detect chip ID" (`esputil.c:492`): a frame that a
  discard has cut leaves the receiver inverted, and the answer with the ID is read as text,
  though nothing was lost or late. `Works` allows for it, and says that this is all the harm:
  `chip_connect` fails before anything is flashed or printed.
- `flash` loops for ever at a last argument that is neither a `.hex` file nor followed by a
  file name (`esputil.c:828-849`): `EventuallyStops` allows for this place only (`Looping`),
  and `Works` says that all files before it have been flashed.
- "By default, `esputil` fetches flash params `F1` and `F2` from the existing bootloader"
  (`esputil/README.md:101`): when that read fails (`esputil.c:816-817`), `flash` prints an
  error and goes on, and the new image has none. `Boots` allows for it (`WantedParams`).
- `esputil/README.md:66` pads segments to 16 bytes; `mkbin` pads them to 4, as the
  ROM needs, and only the end of the image to 16.
- `flashbin` sets byte 12 of every file it flashes to an ESP32-C3, also of files
  that are no image (`FlashedBytes` allows for it).
- `unhex` merges files that follow each other without a gap; their bytes are all there.

## 6. Proofs

Each theorem holds for every value of the constants that satisfies the assumptions of
the modules and the hypotheses named here; the `MC` modules evaluate those hypotheses
on the instances, so that they are known to be satisfiable. Each invariant was checked
on the runs' instances before it was proved. There is one lemma per action, named after
it, and facts about the operators beneath.

**ShadowStackProofs, SecureMonitorProofs.** `PushAppends` and `PopTakesLast` say that the
array and its index implement a bounded sequence. The theorems about the monitor have
the form `ASSUME Intended PROVE Spec => ...`.

- `Inductive`: `Spec => []IInv`. The safety properties are not inductive. What is
  missing is: that the handler runs for the instruction at `pc`, for a cause it can
  raise (`TrapInv`); that `a7` holds the code of the check control stands at and
  that addresses are even, so the handler tells the three codes apart (`CodeInv`);
  that the shadow stack holds return sites, the oldest in the entry function
  (`SitesInv`), so that a function that is not the entry has something to pop;
  and that each function has somewhere to return to (`FrameInv`), in particular
  that a leaf's unchecked `ra` is intact.
- `TypeCorrect`, `AlwaysBalanced`, `AlwaysMirror`, `NeverFalseAlarm` and
  `AlwaysInImage` follow from it. Nothing is assumed of `A6Values`: `NeverFalseAlarm` says that a
  damaged frame and a wrong `a6` are the only two causes for which a program is stopped.
- `ImplementsPolicy`: the refinement of `CfiPolicy`, step by step: a jump check is
  `Record`, a granted return check `Grant`, the `jr` behind it `Take`,
  `code_termination` `Halt`, everything else `Work` or a stutter.

**BuildChainProofs.** The invariant and the hypotheses are stated in `BuildChain`, so that TLC can
evaluate them too.

- `Chain`: `BuildInv`, which says where a process is and which files it still knows
  (`ProcessInv`), and what is on disk then (`FilesInv`): until `Link` only the files of
  `source`, those the pass is behind instrumented, the current one up to its line. A command
  may end anywhere, so between two commands nothing is known; `clear` makes it known again.
- `TypeCorrect` and `InsertsOnly` follow. `ChecksPlaced` and `FlashesWhole` need `Linkable`: names
  are used once, as the linker demands, so that what `is_leaf` finds under a name is that
  function. `PushesPair` needs `OwnNames` as well: no function of the user has the name of one
  of `STD_C_FUNCS`, whose calls get no check.

**SlipTermProofs.** `TypeCorrect` needs nothing. `DeliversInOrder` is about `slipterm`
(`Tool = "slipterm"`) and frames that fit: the receiver, fed with what is still on the
line, will have delivered what was sent (`Drains`); that it does is by induction over the
bytes of a frame (which may be of any length). `NothingMixed` needs `Apart`: the
line loses no END, and no byte of text is a byte of a frame or of an escape. Its invariant
says that the bytes on the line, whatever is missing between the ENDs, are still read in the
mode they were sent in, and that nothing mixed is buffered.

**BootLinkProofs.** One invariant, `IInv` with `FrameInv`, for four properties. An answer is
taken for that of the request in progress because it has the same operation, so the proof must
show that no other request of that operation is unanswered:

- the script in progress is a rest of that of the command (`ScriptInv`), and its requests
  go on with the block or address behind the last one (`Ahead`);
- a frame that answers no SYNC is whole, and alone in its packet even where the receiver is
  inverted (`FrameInv`): so the error code that `cmd` reads is that of the answer it found;
- at most one request of the command's work, or one answer to one, is on its way - on the
  line, at the chip, or half read (`Alone`) - and it is about the request in progress, or
  nothing is asked any more (`Match`);
- until the chip is known no register was read but the one with its ID, whose content is the
  same each time (`IdInv`): answers that came too late for one attempt may serve the next;
- so what the chip has written is what was sent (`FlashInv`), and what was read is what the
  chip holds (`ReadInv`).

`TypeCorrect` needs nothing. `FlashesRight` and `ReadsInOrder` need `DetectionAnswered`: no chip
but an ESP8266 refuses to say what it is. `LaterRefusalsSeen` is `RefusalsSeen` and needs
`ConnectAnswered`: such a chip refuses no SYNC either, as these are the two requests sent before
its kind is known. Without these hypotheses they are false (section 5).

**ImagesProofs.** `LinewiseRoundTrip` is `RoundTrip` from `Linewise`: the addresses of all
files, and banks, are multiples of a line's length, and the files do not overlap. Without
the first it is false (section 5). The invariant: the lines not yet read have each an
absolute address, all different and none that of a file already created, and their bytes
together with those unpacked are those of the files printed (`Printing`, `Missing`); while
`mkhex` prints, its address is in the bank whose high half it said last, or starts the
next one (`Ready`) - this is where whole lines are needed (`LineInBank`). Beneath it,
`AlignsUp` and `PaddingFills` for every size of segments: at most 15 bytes of padding, and
an image is whole lines.

Its second half is about `mkbin` and the ROM loader, for every ELF file. `ImageReadBack`: in a
memory that holds the bytes of `mkbin(e)`, whatever is in those that `flashbin` may change, the
loader finds the entry point, the checksum it computes, and the segments `LoadedSegments(e)`,
which `SegmentsAreHeaders` shows to be the headers that have bytes, in their order, filled to
whole words. Three things come together:

- the loader's walk is at the end of the n-th segment after n steps, since each step finds there the
  address, a size that it reads back as it was written (`SizeReadBack`) and that many bytes
  (`SegmentsFound`);
- `mkbin` takes the checksum of the headers' bytes, the loader that of the filled segments: a bit
  is set in as many bytes of one as of the other, as zeros have none (`ChecksumReadBack`);
- the checksum is where the loader looks, behind the padding.

**FlashProofs.** `BlockwiseFlashed` is `FlashedBytes` from `Blockwise`: `Linewise`, and the files
also begin at whole blocks, larger than an image's header, and end in the flash.

- `WriteInv`: the files that `flash` still has to write are the last ones of those it was
  given, the others are in memory, of the current one the blocks before `seq` are
  (`Writing`), and no block belongs to two files (`Laid`). Erasing and writing change
  blocks of one file only, so they undo nothing; files that do not overlap and begin at
  whole blocks share no block (`BlocksApart`).
- After `unhex` the files are not those `mkhex` was given: files next to each other are
  merged. `UnpackedStandFor` shows that they serve as well (`StandFor`): every byte given is
  in one of them, at the same address, and `flashbin` changes no byte of them that it
  would not change of the files given. The last part is why `ImagesProofs` keeps track of
  where `unhex` creates files: only where one that was given begins (`Starts`), so that
  `flashbin` does not take a piece in the middle of a file for its beginning.
- `TypeCorrect` follows with `TypeInv`. It needs that an address fits in two halves
  (`FlashSize < Bank * Bank`), that the number of program headers is a byte, and that the
  checksum is one (`ChecksumByte`).
- `ImageBoots` is `Boots`. `ImageInv` says that the image is the first file by either way: the first
  line of data that `mkhex` prints and `unhex` reads is the image's first, behind its high
  half (`FirstAt`), so that the first file `unhex` creates begins where the image does; and that
  `params` are those that were wanted: given, or read from the old image; none when that
  could not be read. As no other file has one of the image's first bytes,
  `flashbin` changes those of the image, and no others (`ImageFlashed`); the rest is `ImageReadBack`. It
  needs `FlashSize <= MaxSize`: 16 MB is the most that `esputil/README.md:77` lists, and
  keeps the most significant byte of every size at 0.

**How induction over data is done.** The library's induction theorems cannot be
instantiated, so `SequenceLemmas` has `SetInduction`: a set of numbers with 0 and with
every successor holds all of them. What holds of frames, of lines and of lists of files
is put as the set of lengths for which it does. What the loader does is a recursive function;
that it is one is proved by the same induction (`SegmentsFound`).

**Only model-checked.** The liveness properties (`EventuallyTerminates` and
`EventuallyStops`) and `Works`, all under fairness, which the provers cannot treat; and
`SampleRuns`, which is about one program: its instance is the program itself.

## 7. Not modelled

- Interrupts: no source is enabled and the routines only print.
- PMP and watchdog registers: they say what the hart permits, and no property here
  is about permissions.
- The jump check against a control flow graph that `README.md:7` mentions: the code
  has a comment in its place (`intr_vector_table.c:273`).
- `initStack` and `sbrk`, which nothing calls; start-up code, linker scripts and
  register headers, which have no behaviour of their own.
- `esputil`'s and `slipterm`'s Windows variants, parsing of options, and answers to
  malformed input files; the checksums of `.hex` lines, which `unhex` does not read;
  the length of an answer; the size of the list of unpacked file names.
- A receive buffer that text fills while the receiver is inverted: `slip_recv` starts
  over behind 32K of it, and `BootLink`'s buffer has no size (`SlipTerm`'s has one).
- Indirect calls of user code (`jalr`): the pass leaves them unchecked, and `SecureMonitor`'s
  programs have none.
- `info`'s output when a read of the MAC fails: it prints what was in an
  uninitialised variable, and no text promises more.
