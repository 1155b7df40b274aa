------------------------------ MODULE BootLink ------------------------------
(***************************************************************************)
(* esputil's dialogue with the ROM bootloader: cmd sends a request and      *)
(* waits for a frame that answers the same operation, each command is a     *)
(* script of requests, and every request can time out while its answer is   *)
(* still on the way.  What has arrived is discarded at places where a frame *)
(* may be half-way in, and the receiver keeps the mode of Slip in which     *)
(* that leaves it: a frame is its two ENDs and the body between them.       *)
(***************************************************************************)
EXTENDS Naturals, Sequences, SequencesExt

CONSTANTS
    Commands,     \* the commands the user may give
    Words,        \* readmem, readflash: the addresses read, in order
    FileLists,    \* flash: what it may be given, for each file its number of blocks
    Devices,      \* the chips that may be on the line
    MaxSync,      \* attempts of chip_connect (50)
    SyncReplies,  \* bound: how often the chip answers one SYNC
    MayRefuse     \* for each chip the kinds of request it may answer with an error

Chips == {"esp8266", "esp32c3"}
Ops == {"sync", "read_reg", "spi_attach", "spi_set_params", "read_flash",
        "change_baud", "flash_begin", "flash_data", "flash_end"}
Kinds == Ops \cup {"read_id"}

ASSUME ScriptAssumption ==
    /\ Commands \subseteq {"info", "readmem", "readflash", "flash"}
    /\ Words \in Seq(Nat) /\ FileLists \subseteq Seq(Nat)
    /\ Devices \subseteq Chips /\ MayRefuse \in [Devices -> SUBSET Kinds]
    /\ MaxSync \in Nat \ {0} /\ SyncReplies \in Nat \ {0}

\* One request: its operation, what it is about, and what the caller of cmd does
\* when cmd returns an error: give up (fail), try again (the loop of
\* chip_connect), leave its loop (stop) or ignore it (go).
Step(op, arg, onError) == [op |-> op, arg |-> arg, onError |-> onError]

\* The registers esputil reads on its own account: 0x40001000, and 0x44 and 0x48
\* behind efuse_base.
chip_id_reg == 1073745920
mac_regs == <<1610647620, 1610647624>>

\* chip_connect, with chip_detect behind the SYNC that is answered.
Connect == <<Step("sync", << >>, "retry"), Step("read_reg", <<chip_id_reg>>, "fail")>>

\* info: the MAC address of an ESP32-C3.
info(chip) ==
    IF chip = "esp32c3"
    THEN <<Step("read_reg", <<mac_regs[1]>>, "go"), Step("read_reg", <<mac_regs[2]>>, "go")>>
    ELSE << >>

\* Mutant: readmem goes on after a word it could not read.
readmem_GoesOn == [i \in DOMAIN Words |-> Step("read_reg", <<Words[i]>>, "go")]

readmem == [i \in DOMAIN Words |-> Step("read_reg", <<Words[i]>>, "stop")]

spiattach == <<Step("spi_attach", << >>, "fail"), Step("spi_set_params", << >>, "fail")>>

readflash == spiattach \o [i \in DOMAIN Words |-> Step("read_flash", <<Words[i]>>, "stop")]

\* flashbin: one file, block by block.
flashbin(file, blocks) ==
    <<Step("flash_begin", <<file>>, "fail")>>
    \o [seq \in 1 .. blocks |-> Step("flash_data", <<file, seq>>, "fail")]

\* flash: a new baud rate, the parameters of the old bootloader, the files.  A last
\* argument that is neither a .hex file nor followed by a file name is never left
\* behind: nothing comes after the files then.
flash(chip, options) ==
    (IF options.baud THEN <<Step("change_baud", << >>, "fail")>> ELSE << >>)
    \o (IF chip = "esp8266" THEN << >> ELSE spiattach)
    \o (IF chip = "esp8266" \/ options.fpar THEN << >>
        ELSE <<Step("read_flash", <<0>>, "go")>>)
    \o FlattenSeq([file \in DOMAIN options.files |-> flashbin(file, options.files[file])])
    \o (IF options.stray THEN << >> ELSE <<Step("flash_end", << >>, "fail")>>)

\* What a command does once the chip is known.
Script(command, chip, options) ==
    CASE command = "info"      -> info(chip)
      [] command = "readmem"   -> readmem
      [] command = "readflash" -> readflash
      [] command = "flash"     -> flash(chip, options)

\* flash's options and arguments: a fast -b, a -fp, the files, a stray argument.
Options == [baud : BOOLEAN, fpar : BOOLEAN, files : FileLists, stray : BOOLEAN]

VARIABLES
    command,   \* what the user asked for
    options,   \* flash: its options and arguments
    todo,      \* the requests left, the current one first
    waiting,   \* cmd has sent it and waits for the answer
    tries,     \* SYNCs that were not answered
    slip,      \* the receiver: its mode, and what it has buffered in network mode
    chip,      \* ctx->chip: whom the host believes to talk to
    out,       \* the values read, with what they were taken for
    status,
    device,    \* the chip on the line
    requests,  \* sent, not yet seen by the chip
    replies,   \* sent by the chip, not yet read by the host: ENDs, bodies and text
    flashed,   \* the blocks the chip wrote, in order
    fault      \* history: "cut" once a discard has cut a frame, "line" once a request or
               \* an answer was lost, late or a refusal

setting == <<command, options, device>>
script  == <<todo, waiting, tries, chip, out, status>>
vars == <<setting, script, slip, requests, replies, flashed, fault>>

NoReply == [op |-> "none", refused |-> FALSE, id |-> "none", value |-> << >>]
END     == [kind |-> "END", reply |-> NoReply]
Body(r) == [kind |-> "body", reply |-> r]
BootText == [kind |-> "text", reply |-> NoReply]
Frame(r) == <<END, Body(r), END>>

LineFault == fault' = "line"
CutFault == fault' = IF fault = "none" THEN "cut" ELSE fault

\* After reset_to_bootloader: the chip is in its bootloader.
Init ==
    /\ command \in Commands
    /\ options \in {o \in Options : command # "flash" =>
                       ~o.baud /\ ~o.fpar /\ o.files = << >> /\ ~o.stray}
    /\ device \in Devices
    /\ todo = Connect /\ waiting = FALSE /\ tries = 0
    /\ slip = [mode |-> 0, buf |-> << >>]
    /\ chip = "unknown" /\ out = << >> /\ status = "running"
    /\ requests = << >> /\ replies = << >>
    /\ flashed = << >> /\ fault = "none"

Running == status = "running"

-----------------------------------------------------------------------------
\* The host

\* cmd: the request goes out.
SendCommand ==
    /\ Running /\ ~waiting /\ todo # << >>
    /\ requests' = Append(requests, Head(todo))
    /\ waiting' = TRUE
    /\ UNCHANGED <<setting, todo, tries, slip, chip, out, status, replies, flashed, fault>>

\* chip_detect's request; readmem may read the same register.
ReadsId(step) == step.op = "read_reg" /\ step.arg = <<chip_id_reg>>
Detects(step) == ReadsId(step) /\ step.onError = "fail"
Kind(step) == IF ReadsId(step) THEN "read_id" ELSE step.op

\* cmd returned 0: on with the script.  chip_detect takes the value for the chip's ID.
Succeed(reply) ==
    LET step == Head(todo)
        detected == Detects(step)
    IN  /\ waiting' = FALSE
        /\ chip' = IF detected THEN reply.id ELSE chip
        /\ todo' = IF detected THEN Script(command, chip', options) ELSE Tail(todo)
        /\ status' = IF detected /\ command = "readflash" /\ chip' = "esp8266"
                     THEN "failed" ELSE status
        /\ out' = IF ~detected /\ step.op \in {"read_reg", "read_flash"}
                  THEN Append(out, [arg |-> step.arg, value |-> reply.value]) ELSE out
        /\ UNCHANGED tries

\* Mutants: one SYNC too many; the attempts are not counted.
Fail_OneMore ==
    LET onError == Head(todo).onError IN
    /\ waiting' = FALSE
    /\ tries' = IF onError = "retry" THEN tries + 1 ELSE tries
    /\ status' = IF onError = "fail" \/ tries' > MaxSync THEN "failed" ELSE status
    /\ todo' = CASE onError = "go"   -> Tail(todo)
                 [] onError = "stop" -> << >>
                 [] OTHER            -> todo
    /\ UNCHANGED <<chip, out>>
Fail_Uncounted ==
    LET onError == Head(todo).onError IN
    /\ waiting' = FALSE
    /\ status' = IF onError = "fail" THEN "failed" ELSE status
    /\ todo' = CASE onError = "go"   -> Tail(todo)
                 [] onError = "stop" -> << >>
                 [] OTHER            -> todo
    /\ UNCHANGED <<chip, out, tries>>

\* cmd returned an error code.
Fail ==
    LET onError == Head(todo).onError IN
    /\ waiting' = FALSE
    /\ tries' = IF onError = "retry" THEN tries + 1 ELSE tries
    /\ status' = IF onError = "fail" \/ tries' = MaxSync THEN "failed" ELSE status
    /\ todo' = CASE onError = "go"   -> Tail(todo)
                 [] onError = "stop" -> << >>
                 [] OTHER            -> todo
    /\ UNCHANGED <<chip, out>>

\* Mutants: the error indicator is always looked for in the last 2 bytes; a chip
\* that is not known yet is taken for an ESP32.
ErrorSeen_LastTwo(reply) == reply.refused /\ device = "esp8266"
ErrorSeen_KnownOnly(reply) == reply.refused /\ (chip = "esp8266" <=> device = "esp8266")

\* The error indicator is in the last 2 bytes of an ESP8266's answer and in the
\* last 4 of the others'; looked for in the wrong place it reads as 0.
ErrorSeen(reply) ==
    reply.refused /\ (chip \in {"unknown", "esp8266"} <=> device = "esp8266")

\* slip_recv (Slip, with a body for its bytes): END flips the mode, and what is
\* buffered then is a packet; in serial mode everything else is text.  Text behind
\* text is text.
Buffered(buf, reply) ==
    IF reply = NoReply /\ buf # << >> /\ Last(buf) = NoReply THEN buf ELSE Append(buf, reply)
slip_recv(token) ==
    IF token.kind = "END" THEN [mode |-> 1 - slip.mode, buf |-> << >>]
    ELSE IF slip.mode = 1 THEN [slip EXCEPT !.buf = Buffered(@, token.reply)] ELSE slip
Packet(token) == IF token.kind = "END" /\ slip.mode = 1 THEN slip.buf ELSE << >>

\* Mutant: whatever frame comes first is the answer.
Answers_Any(packet) == packet # << >>

\* The packet begins like an answer to the current request.
Answers(packet) == packet # << >> /\ packet[1].op = Head(todo).op

\* The first n tokens never reach the receiver: the rest of the batch that cmd has
\* read, and what flushio discards.  If that cuts a frame, its end comes alone.
Cut(rest) == Len(SelectSeq(rest, LAMBDA t : t.kind = "END")) % 2 = 1
Discard(tokens) ==
    \E n \in 0 .. Len(tokens) :
        /\ replies' = SubSeq(tokens, n + 1, Len(tokens))
        /\ IF Cut(replies') THEN CutFault ELSE UNCHANGED fault

\* cmd reads on; a frame that answers another operation is skipped.  The indicator
\* is read from the end of the packet, where text may read as an error or not.
Receive ==
    /\ Running /\ waiting /\ replies # << >>
    /\ LET token  == Head(replies)
           packet == Packet(token)
       IN  /\ slip' = slip_recv(token)
           /\ IF Answers(packet)
              THEN /\ \/ (ErrorSeen(Last(packet)) \/ Last(packet) = NoReply) /\ Fail
                      \/ ~ErrorSeen(Last(packet)) /\ Succeed(packet[1])
                   /\ Discard(Tail(replies))
              ELSE /\ replies' = Tail(replies)
                   /\ UNCHANGED <<script, fault>>
    /\ UNCHANGED <<setting, requests, flashed>>

\* Nothing has arrived in time, or stdin became readable first: cmd returns 1, and
\* chip_connect discards what is there by now.  Whatever is still to come is late.
Interrupted ==
    /\ Running /\ waiting
    /\ Fail
    /\ IF requests # << >> \/ replies # << >> THEN LineFault ELSE UNCHANGED fault
    /\ IF Head(todo).onError = "retry"
       THEN \E n \in 0 .. Len(replies) : replies' = SubSeq(replies, n + 1, Len(replies))
       ELSE UNCHANGED replies
    /\ UNCHANGED <<setting, slip, requests, flashed>>

\* The serial line was closed: cmd gives up for good.
Unplugged ==
    /\ Running /\ waiting
    /\ status' = "failed" /\ LineFault
    /\ UNCHANGED <<setting, todo, waiting, tries, slip, chip, out, requests, replies, flashed>>

\* The script is done; flash ends with a hard_reset of the chip.
Finish ==
    /\ Running /\ ~waiting /\ todo = << >> /\ ~options.stray
    /\ status' = "done"
    /\ requests' = IF command = "flash" THEN << >> ELSE requests
    /\ UNCHANGED <<setting, todo, waiting, tries, slip, chip, out, replies, flashed, fault>>

-----------------------------------------------------------------------------
\* The chip's ROM bootloader (external)

\* The chip's answer: its ID, or what is stored at the address, here the address
\* itself.  A refusal has neither: where an ID would be, it has some number, 0 (no
\* chip is known yet) or one that is no chip's.
Answer(step, refused, number) ==
    [op |-> step.op, refused |-> refused,
     id |-> CASE ~ReadsId(step) -> "none" [] refused -> number [] OTHER -> device,
     value |-> IF refused THEN << >> ELSE step.arg]

\* A request is lost, or carried out and answered (a SYNC more than once), or
\* refused; the answer may be lost.
DeviceHandle ==
    /\ requests # << >>
    /\ requests' = Tail(requests)
    /\ LET step == Head(requests) IN
       \/ LineFault /\ UNCHANGED <<replies, flashed>>
       \/ \E refused \in BOOLEAN, number \in {"unknown", "none"},
             n \in 0 .. (IF step.op = "sync" THEN SyncReplies ELSE 1) :
            /\ refused => Kind(step) \in MayRefuse[device]
            /\ flashed' = IF step.op = "flash_data" /\ ~refused
                          THEN Append(flashed, step.arg) ELSE flashed
            /\ replies' = replies
                   \o FlattenSeq([m \in 1 .. n |-> Frame(Answer(step, refused, number))])
            /\ IF refused \/ n = 0 THEN LineFault ELSE UNCHANGED fault
    /\ UNCHANGED <<setting, script, slip>>

\* The chip prints something of its own, at any time and as often as it likes; what
\* is not read yet is one piece of text.
Chatter ==
    /\ Running
    /\ \A n \in DOMAIN replies : replies[n] # BootText
    /\ replies' = Append(replies, BootText)
    /\ UNCHANGED <<setting, script, slip, requests, flashed, fault>>

Next ==
    \/ SendCommand \/ Receive \/ Interrupted \/ Unplugged \/ Finish
    \/ DeviceHandle \/ Chatter

Spec == Init /\ [][Next]_vars
FairSpec == Spec /\ WF_vars(SendCommand \/ Receive \/ Interrupted \/ Finish)

-----------------------------------------------------------------------------
\* The host's state keeps its type, and no answer is awaited without a request.
TypeOK ==
    /\ command \in Commands /\ options \in Options
    /\ \A n \in DOMAIN todo : todo[n].op \in Ops
    /\ waiting \in BOOLEAN /\ (waiting => todo # << >>)
    /\ tries \in 0 .. MaxSync
    /\ slip.mode \in {0, 1} /\ (slip.mode = 0 => slip.buf = << >>)
    /\ chip \in Chips \cup {"unknown", "none"}
    /\ status \in {"running", "done", "failed"}

Image == FlattenSeq([file \in DOMAIN options.files |->
                        [seq \in 1 .. options.files[file] |-> <<file, seq>>]])

\* The chip is only ever given the blocks of the files one after the other, and
\* when esputil reports that it has flashed them, the chip has written them all:
\* no late, repeated, lost or cut answer makes it skip or repeat a block.
FlashedRight ==
    /\ IsPrefix(flashed, Image)
    /\ command = "flash" /\ status = "done" => flashed = Image

\* readmem and readflash print, in order, the words at the addresses asked for,
\* whatever answers came late, twice or cut.
ReadsRight ==
    command \in {"readmem", "readflash"} =>
        /\ \A n \in DOMAIN out : out[n].value = out[n].arg
        /\ IsPrefix([n \in DOMAIN out |-> out[n].arg], [n \in DOMAIN Words |-> <<Words[n]>>])

\* "Return 0 on sucess, or error code on failure" (esputil.c:438): an answer in
\* which the chip refused the request is never taken as success.  The host learns
\* nothing from it, and gives up, tries again, leaves its loop or goes on without it.
RefusalsSeen ==
    [][waiting /\ ~waiting' /\ replies # << >> =>
         LET packet  == Packet(Head(replies))
             onError == Head(todo).onError
         IN  Answers(packet) /\ Last(packet).refused =>
                 /\ UNCHANGED <<chip, out>>
                 /\ onError = "fail"  => status' = "failed"
                 /\ onError = "retry" => tries' = tries + 1 /\ todo' = todo
                 /\ onError = "stop"  => todo' = << >>
                 /\ onError = "go"    => todo' = Tail(todo)]_vars

\* cmd waits for each read in turn and for no more than that: the host is only done
\* when the chip leaves it in peace.
InPeace == <>[][~Chatter]_vars

\* flash has got to an argument it cannot use, and loops there for ever.
Looping == Running /\ ~waiting /\ todo = << >> /\ options.stray

\* Unless the chip prints for ever, every command comes to an end, whatever else
\* the chip does or fails to do, or, flash only, to an argument it cannot use.
EventuallyStops == InPeace => <>(status # "running" \/ Looping)

\* What a command is for was done, in full.
Complete ==
    /\ status = "done" \/ Looping
    /\ LET read == [n \in DOMAIN out |-> out[n].value] IN
       CASE command = "info"    -> read = IF device = "esp32c3"
                                          THEN <<<<mac_regs[1]>>, <<mac_regs[2]>>>> ELSE << >>
         [] command = "flash"   -> flashed = Image
         [] OTHER               -> read = [n \in DOMAIN Words |-> <<Words[n]>>]

\* On a line where every request is answered, and no answer is refused or late, each
\* command does all of what it is for: neither further answers to a SYNC, whenever
\* they arrive, nor text keep the right answer from being found.  A further answer
\* that is cut in two, which leaves the receiver in the wrong mode, can do no more
\* harm than that chip_connect does not find the chip, before anything is done.
Works ==
    InPeace => <>(\/ fault = "line" \/ Complete
                  \/ fault = "cut" /\ status = "failed" /\ chip = "unknown" /\ flashed = << >>
                  \/ command = "readflash" /\ device = "esp8266" /\ status = "failed")
=============================================================================
