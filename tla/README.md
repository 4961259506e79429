# TLA+ models of HellOS

These modules model the stateful parts of the HellOS kernel in `src/x86_64/`, and TLC checks them:
- the heap allocator;
- the process table and its scheduler;
- the network driver;
- the debug log;
- the shell's line editor;
- hardware interrupt dispatch (the PIC and the IRQ vectors);
- the audio driver (channels, mixer and PC speaker) and the graphics driver's line and rectangle drawing.

Every definition is written from the C source. `PROJECT.json` maps each modelled definition to the lines it translates. It also lists the runs, the mutants and the findings, and the hazards: what in this code is hard to test and what checks it.

## The system

| Part | Source | State | Operations |
|---|---|---|---|
| Heap allocator | `kernel/memory.c`, `ALIGN_UP` (`kernel/kernel.h:231`) | a doubly linked list of block headers in the arena; `memory_stats`; `memory_initialized` | `init_memory_manager`, `malloc`, `free`, `calloc`, `realloc`, `display_memory_info` |
| Process table, scheduler | `kernel/process.c` | `processes[64]`; `process_list`, `ready_queue`, `current_process`; `next_pid`; `process_count`; the clock | create, terminate, schedule, yield, suspend, resume, `process_scheduler` |
| Network driver | `drivers/network/hell_network.c` | `sockets[]`, `next_socket_id`, `network_initialized`, `network_interface`, `network_stats` | init/shutdown; socket create, bind, listen, connect, send, close; `send_packet`, `process_network_packets`, `ping_host`, `set_network_config`; `calculate_ip_checksum` |
| Debug log | `kernel/debug.c` | `g_debug_state` (config, entry buffer, counters), the timestamp tick, `g_debug_memory_buffer` and its offset, the VGA text screen and its `vga_row`/`vga_col` statics | early init, init, configure, log, panic, assert; the memory and VGA outputs |
| Interrupt dispatch | `kernel/interrupts.c` | the master PIC's mask, request and in-service registers; the IDT's IRQ vectors; the CPU's interrupt flag | `init_interrupt_system`, `init_pic`, delivery of an IRQ to its handler |
| Shell | `shell/infernal_shell.c`; keyboard path of `kernel/interrupts.c` | `command_buffer`, `command_pos`, the history | key handling, tab completion, tokenising and dispatch |
| Kernel entry | `kernel/kernel.c` | — | `kernel_main` runs the init functions in order |
| Audio driver | `drivers/audio/hell_audio.c` | `audio_state.initialized`, `channels[3]`, `audio_buffer`, `buffer_position`; the speaker gate bits of port 0x61 and the PIT channel-2 divisor | init, `play_note`, `stop_note`, the mixer (`update_audio_system`), `play_audio_sequence`, growl, crackling, shutdown |
| Graphics driver | `drivers/graphics/hell_graphics.c` | `graphics_state.initialized`; the framebuffer | init, shutdown, `draw_line`, `draw_rectangle`, `draw_pixel` |
| Host tools | `tools/` | files | not modelled |

How the parts interact:
- Only `create_process` (process stacks) and `socket_create` (socket buffers) call `malloc`. `terminate_process` and `socket_close` free those blocks.
- The kernel is single-threaded. The timer handler only counts ticks: it never calls `process_scheduler`. `yield_cpu` is a stub.
- So every public call runs to completion before the next one starts. Each call is one atomic action. The interleavings that matter are the orders of calls, and the order of calls by the two heap clients.
- The keyboard interrupt passes each scancode through `process_keyboard_input` to `process_shell_input`. That is the only asynchronous input.
- As built, no IRQ reaches its handler: `init_pic`'s mask disables the timer and keyboard lines (see irq_delivery). The Shell model describes what each key would do if it were delivered.

## Modules

**HeapOps** holds the allocator as pure operators on `h = [init, mem, stats]`:
- Pointers are byte offsets. `NULL` is -1.
- `mem` maps each 8-byte aligned offset to a header, or to the model value `Garbage`.
- Headers absorbed by a merge stay in `mem`, as they do in memory.
- `size_t` is scaled to `SIZE_BITS` = 8. So `ALIGN_UP` and calloc's product wrap exactly as they do modulo 2^64.
- `Malloc`, `Free`, `Calloc`, `Realloc` and `DisplayMemoryInfo` each model the whole C function, including the helpers it calls and its statistics updates.
- The operators whose names describe a flaw (`SplitNoPrevFix`, `CoalesceForwardOnly`, ...) are faulty variants, used only by mutants.

**Allocator** is the abstract allocator: what callers are promised.
- Its one variable `grants` maps each held pointer to its payload length and the bytes asked for.
- Payloads lie in the arena, never overlap, and cover their requests.
- A payload stays put until it is freed or moved by realloc. A move takes the new payload before giving the old one back.
- Its `Next` reads the new payload off the next state, so it is only checked as a property of Heap, never run by itself.

**Heap** / **MCHeap** drive the allocator with callers.
- Variables: `heap`, and `owned`, which maps each pointer a caller holds to the size it requested.
- Actions: `InitMemory`, `MallocCall`, `CallocCall`, `ReallocCall`, `FreeCall` (an owned pointer), `FreeWild` (NULL, or a pointer the allocator never returned), `DisplayInfo`.
- `NextMisuse` adds `FreeStale`: a free of a header nobody owns.
- `Grants` maps each owned pointer to its block's size and the request. `Abs == INSTANCE Allocator WITH grants <- Grants` is the refinement mapping.

**Process** / **MCProcess** compose the scheduler with the heap.
- `sched = [proc, plist, rq, cur, nextPid, count, clk]`. Links are slot indices. One `next` field serves both lists, as in the code.
- Time is kept only as each slot's age, capped at `Cap`. Age is all that `now - last_scheduled >= time_slice` reads.
- Actions: `CreateProcess` (with its malloc-failure path), `CreateTableFull`, `TerminateProcess`, `Schedule`, `YieldProcess`, `SuspendProcess`, `ResumeProcess` and `Tick` (`process_scheduler`).
- `FairSpec` adds weak fairness of `Tick`; only sched_stall uses it (see Fairness).

**Network** / **MCNetwork** model the whole driver over the same heap.
- `net` is the socket table: id, type, state, ports, buffer and the two flags.
- `link` is the interface's addresses, `is_up` and the packet counters.
- `given` is a history variable: the string each address was last configured from.
- `ParseIpAddress` is the loop of `parse_ip_address`. `DottedQuad` is an independent field-by-field reading of the same string, used as the reference.
- `SocketNext` groups the calls that touch the table. `LinkNext` groups the packet and configuration calls.

**IpChecksum** models `calculate_ip_checksum` step by step (word sums, the odd byte, the carry folds). It compares the result with an RFC 1071 reference.

**Audio** models the audio driver:
- `aud` holds the driver's statics: the flag, the three channels, the mix buffer, `buffer_position`, the speaker's two gate bits and the last PIT divisor written.
- The phase is kept modulo 2^16. The code reads the uint32 phase only through `(phase >> 8) & 0xFF`, so this loses nothing.
- `PlayNoteOp`, `StopNoteOp`, `SetSpeakerFrequency` and `SilenceSpeaker` are the routines as operators. The actions that call them use them the way the code does: `SequenceFrom` is `play_audio_sequence`'s loop (RECURSIVE), and `UpdateOp` is the mixer; `NextPos` is its `buffer_position` step.
- `create_fire_crackling`'s 50 passes each overwrite everything the previous pass wrote, so the action is its last pass.
- `timer_interrupt_handler`'s `play_note` is not a caller. No IRQ handler sends an EOI, so the timer is delivered at most once and never reaches tick 1000.

**Graphics** models the graphics driver's flag, `draw_line` and `draw_rectangle`:
- `ln` holds `draw_line`'s locals, and `LineStep` is one pass of its loop.
- `path` is the points handed to `draw_pixel`, and `written` is the framebuffer offsets it stored to.
- `call` keeps the last call's arguments and the flag during it.

**MCDrivers** checks `IpChecksum`, `Audio` and `Graphics` in one run, through named `INSTANCE`s.
- The drivers share no state, so `drv` picks the driver a behaviour exercises, and the other two keep one initial state.
- The state space is therefore the sum of the three parts, not their product.

**Kernel** / **MCKernel** compose `Process` with `Network` (through `INSTANCE`) on one heap, from the state `kernel_main` leaves after `init_drivers`. Each step is a call of one component; the other component's state is unchanged.

**DebugLog** / **MCDebugLog** model the log:
- `dbg` is `g_debug_state` reduced to what a later call reads. It also holds the tick counter and the memory output buffer.
- Messages are ASCII code sequences. `Vsprintf` models `debug_vsprintf` (`%d`, `%x`, `%s`, `%c`), using the digit loops of `debug_int_to_string` and `debug_hex_to_string`.
- `LogRaw` is the whole of `debug_log_raw`: the filter, the counters, the entry store, `debug_format_message`, `debug_output_vga` and `debug_output_memory`.
- `dbg.vga` is the VGA text screen (characters only; the colour byte is left out) and the cursor statics. `VgaPut` is one pass of `debug_output_vga`'s loop: a newline moves the cursor down and scrolls past the last row, and a character past the last column is dropped.
- `LOADER` stands for whatever the boot loader left on the screen. The code never reads a character; it only moves rows when it scrolls. So one value that no message contains is enough to track where that text goes.
- `hist`, `memLog` and `vgaLog` are history variables: the accepted calls, and the messages handed to the memory and VGA outputs.

**Interrupts** / **MCInterrupts** model IRQ delivery on the master PIC, and CPU exceptions.
- `pic = [imr, irr, isr]` holds the mask, request and in-service registers. `cpuIf` is the CPU's interrupt flag. `halted` is set once `kernel_panic` has stopped the CPU. `served` is a history of the lines whose handler ran.
- `Init` is the state `init_interrupt_system` leaves. The mask is decoded bit by bit from the byte `init_pic` writes (0xFB). No code under `src/` executes `sti` or `cli` before this point, so `cpuIf` starts at either value.
- `Raise(i)` is a device raising line `i`.
- `Deliver` takes the highest-priority pending unmasked line that no line in service blocks (the 8259's fully nested mode). It then runs the handler `Idt` names.
  - Only `default_interrupt_handler` sends an EOI.
  - Every handler is a plain C function returning with `ret`, so the IF cleared by the interrupt gate stays clear.
- `Fault(v)` is the running code raising exception `v`. The 18 vectors with their own handler (`PanicVectors`) reach `exception_handler`, whose `kernel_panic` ends in `cli; hlt`. The other exception vectors keep `default_interrupt_handler` and send its EOI.
- `EnableInterrupts` and `DisableInterrupts` are the public `sti` and `cli` calls. No code under `src/` calls them, so they are open to any caller.
- The slave PIC is fully masked and left out.

**Shell** / **MCShell** model the keyboard path and the line editor:
- Characters are ASCII codes. `command_buffer` is a function over `0..BUF-1`.
- `strlen`, `strcmp`, `strncmp`, `strcat` (from `memory.c`) and the shell's `strtok` are operators.
- `KeyPress` is one keyboard interrupt, including the call to `process_shell_input`.
- The command handlers only print, so a dispatch is recorded as its outcome (command index and argc).

## Runs

| Run | Expect | What it shows |
|---|---|---|
| heap_safety | pass | The block list tiles the arena and every `prev` link mirrors its `next` link. No two free blocks are adjacent. Block counts match the list. Callers own exactly the allocated payloads. Every grant covers its request. The allocator implements `Allocator` (`ImplementsAllocator`). |
| heap_stale_free | violation | After malloc(9) and free, a free of the absorbed block's old pointer passes `validate_block` and corrupts the block list. |
| heap_free_bytes | violation | After the first split, `free_memory` exceeds the free payload by one header. |
| sched_safety | pass | The ready queue stays acyclic and priority-sorted, and holds only READY slots. Only `current_process` is RUNNING. Live processes own exactly the allocated stacks. A process leaves the queue only by leaving READY, and becomes RUNNING only from the queue. Queued processes keep their relative order, and a newcomer lands behind every process of equal or higher priority (FIFO within a priority). The last two are action properties. |
| sched_stall | violation | Under weak fairness of `Tick`, with one priority, a queued process never runs. Terminating the only running process leaves `current_process` on the freed slot. `create_process` reuses that slot, so the new process is current and READY at once, and `process_scheduler` only preempts a RUNNING one. |
| sched_list_lost | violation | `process_list` and `ready_queue` share `next`, so the second create cuts the first process out of `process_list`. |
| kernel_heap_sharing | pass | Stacks and socket buffers are exactly the allocated blocks, each owned once. This holds whichever client exhausts the heap, through both clients' failure paths. |
| net_safety | pass | Socket buffers are exactly the allocated blocks, for any id a caller passes (0 and -1 included). Shutdown leaves no socket open. Each interface address reads as the last dotted quad it was given. |
| drivers | pass | The checksum equals the RFC 1071 one for every input of up to 6 bytes over {0, 1, 255}. No audio channel sounds while the driver is uninitialized (`QuietWhenUninitialized`): shutdown stops the channels before clearing the flag. Mixed samples stay inside int16 and `buffer_position` inside the buffer (`AudioTypeOK`). `draw_line` traces the digital segment in every octant (`LineTracesSegment`), and `draw_pixel` clips every line and rectangle to the framebuffer (`PixelsClippedToScreen`). |
| debug_buffer | pass | The buffer keeps the oldest accepted messages and counts the rest as dropped. Messages render their format and arguments. The memory log is the fitting formatted messages, whole and NUL-terminated at the offset. The VGA screen shows the last lines written to it, cut at the screen width, across scrolls (`VgaShowsLatestLines`). |
| irq_delivery | violation | Even under weak fairness of delivery, the PIC never passes a raised timer or keyboard request on to the CPU (`RequestsReachCpu`): the master mask 0xFB written at interrupts.c:189 disables every line but the cascade. |
| shell_input | pass | `command_buffer` is always a C string of `command_pos` characters. The history holds the newest lines. Enter runs the builtin named by the first word. |

Every property of a passing run has a mutant in `PROJECT.json`. A mutant is a faulty variant of a mapped definition, and TLC must catch it.

## Bounds and why they suffice

- **Heap** (63,709 states, about 80 s):
  - `HEAP_SIZE` = 248 and `HDR` = 32, so the arena holds up to five blocks. A freed block can then have allocated or free blocks on both sides, and it can merge both ways.
  - `Requests` = {0, 9, 40, 216}: a zero request, a request that rounds up and splits, one exactly a block, and the whole initial block, which is too large after any split.
  - The two heap violation runs keep a 192-byte arena: their counterexamples need only two calls.
  - The wild pointers land on garbage and on a payload.
- **Scheduler** (236,551 states, about 1.5 minutes):
  - `MAX_PROCESSES` = 3 and `STACK_SIZE` = 32 over a 192-byte heap, so the table fills when the heap does.
  - Two priorities, slices 2 and 1 (`MCShortSlice`), and `Cap` = 2. A priority-2 process is preempted after one tick, a priority-1 process after two. That keeps the source's order (the higher the priority value, the shorter the slice) and the one comparison `now - last_scheduled >= time_slice` tells apart. sched_stall and sched_list_lost keep slices 3 and 2 (`MCTimeSlice`) with `Cap` = 3.
  - `MaxPid` = 5 lets slots be reused.
  - `VIEW SchedView` drops non-current ages and stale headers, which nothing reads.
  - sched_stall uses one priority (`MCOnePriority`). With two priorities, the spec itself lets a higher-priority process overtake a lower one forever. Its state space is small, so it runs without the view.
- **Kernel** (340,660 states, about 100 s):
  - The heap is 160 bytes: two blocks of 32 plus headers. So one process and one socket, or two processes, exhaust it.
  - One priority with slice 2.
- **Network** (148,200 states, about 40 s):
  - Two sockets and a 96-byte heap, so the second buffer malloc fails.
  - `MaxSocketId` = 5.
  - `MaxPackets` = 1.
  - Address strings: `9.1..3x00`, which has an empty field, a skipped letter and 300 (cast to 44), and `1.2.3.4.5`, which is rejected.
- **Debug log** (732,845 states, about 2 minutes):
  - `MAX_ENTRIES` = 3 and `MaxLogs` = 5, so the buffer fills and drops.
  - `MEM_SIZE` = 22, so a 9-byte and a 12-byte message fill it to its last byte, and a 13-byte one no longer fits.
  - The calls include `%d` of -150 and of INT_MAX, and `%x` of 300.
  - The VGA screen is 4 columns by 2 rows. Every message is longer than a row, so each line is cut, and the third line scrolls. One configuration turns the VGA output off and the other turns it back on.
- **Interrupts** (24 states): three lines (the timer, the keyboard, and COM1, whose vector keeps the default handler), and two exceptions (divide error, which panics, and vector 9, on the default handler).
- **Shell** (44,326 states):
  - `BUF` = 4, so the `BUF-1` character limit is hit.
  - `MAX_HISTORY` = 2 and three lines, so the history shifts.
  - The builtins "ss" and "s" make tab completion ambiguous and prefix-sensitive.

- **Drivers** (about 50,000 states, about 20 s):
  - The checksum part keeps its bounds: inputs of up to 6 bytes over {0, 1, 255}, so there are odd lengths and sums that need two carry folds.
  - Audio has `BUFFER_SIZE` = 3 and three mixes, so `buffer_position` wraps. The `play_note` calls are a 1000 Hz note (non-zero phase increment), a note off the speaker's channel, a 10 Hz note (the uint16 divisor wraps) and a call on channel 3, which is refused. `stop_note` also gets channels -1 and 3.
  - Two growls at volume 200 sum past -32768, so the clamp is exercised.
  - Graphics has a 3 x 2 screen. `draw_line` takes all end points in -1..3, which covers every octant, degenerate lines and points off each edge. Rectangles are 0 to 2 wide and high.

## Fairness

Two runs check liveness, both violation runs. Each assumes weak fairness of one action only. Callers of the public API owe nothing and may stop at any time.
- **sched_safety** and **sched_stall**: `WF_vars(Tick)` (`FairSpec`).
  - spec.md sections 1 and 3 have the Timer collaborator call the tick entry point on every hardware timer firing. `process_scheduler` is documented as "called from timer interrupt".
  - The code's timer handler does not call it, so this models the timer as intended.
  - No passing run assumes it: the timer handler never calls `process_scheduler`, IRQ0 is masked (interrupts.c:189) and nothing executes `sti`, so a liveness property that needs ticks would rest on scheduling the code does not have. sched_stall shows that the stall happens even with every tick delivered.
  - sched_stall's violation does not come from a missing tick. `Tick` stays enabled, but once `current_process` is not RUNNING it changes nothing but the clock. In the model the clock is capped, so the trace ends in stuttering.
- **irq_delivery**: `WF_vars(Deliver)`. A CPU with IF set takes a deliverable interrupt before its next instruction.
  - `RequestsReachCpu` asks only the PIC's part: a pending line eventually becomes deliverable (unmasked and not blocked by a line in service). IF and halting do not enter it, so the counterexample is a request on a masked line that stays pending forever.
  - With the mask changed to 0xF8 in a scratch copy, TLC still finds it violated: the handlers send no EOI, so the first line delivered stays in service and blocks the lines behind it.

## Known issues not checked as properties

- After boot no kernel process (pid 0) exists. The spec requires one.
- `generate_sample`'s phase increment `frequency * 256 / 44100` runs a 65536-unit waveform cycle, so a channel sounds at frequency/256 Hz. Below 173 Hz, which covers every note the kernel plays, the increment is 0 and the channel holds one sample.
- `resume_process(0)` puts a freed slot on the ready queue: `find_process_by_pid(0)` matches any free slot, and `is_suspended` survives `terminate_process`. No caller under `src/` calls `resume_process`.
- `debug_panic` counts a panic twice: once itself, and again through `debug_log_raw`. Nothing reads `panic_count`, so this changes no behaviour.
- `socket_send(0, ...)` succeeds on a freed UDP slot, even after shutdown.
- `debug_int_to_string(INT_MIN)` negates INT_MIN.
- `debug_vlog` has an unbounded `message[256]`.
- `ALIGN_UP` wraps for sizes near `SIZE_MAX`.
- `kernel_main` plays the startup sound and draws the boot screen before `init_drivers`, so both do nothing.
- `stop_note(0)` gates the speaker off, and nothing but init gates it on again, so every later note on channel 0 is silent.
- `set_pc_speaker_frequency` wraps the divisor for frequencies below 19 Hz. Every note the kernel plays is below 173 Hz, so its phase increment is 0.
- `create_demonic_growl` writes `channels[channel]` without a range check.
- The framebuffer is the 32 KiB window at 0xB8000, but `clear_screen` writes 680 * 480 bytes.

Most of these are listed as hazards in `PROJECT.json`.

## Not modelled

- The host tools: they read files and print reports.
- Of the graphics driver, `draw_text`, `draw_char`, `draw_flame_effect` and `clear_screen`: further `draw_pixel` loops over constant data, whose clipping `PixelsClippedToScreen` already checks. `setup_vga_mode` and `setup_hell_palette` only write ports.
- The serial output and the `debug_boot_*` functions only write UART ports and keep no state.
- Register save and restore, which are placeholders in the code.
- Data that nothing reads back: names, `cpu_time`, `process_stats`, socket IP addresses, the MAC address and byte counters.
- `socket_accept` and `socket_receive`, which change no state.
- The interrupt statistics and `process_interrupts` (counters nothing reads), and the IDT entry layout: a 32-bit gate format with handler addresses cast to `uint32_t`.
- The window inside `init_interrupt_system` between `init_pic`'s ICW1 and `load_idt`. ICW1 clears the mask, and the CPU still uses the boot loader's IDT, which is not in the repository. The model starts after `load_idt`.

## Plan

1. `next_pid` and `next_socket_id` wrap-around.
2. Sends on freed sockets as a checked property.
3. The keyboard path composed with interrupt delivery, once a run can be spared.
