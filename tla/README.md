# simh-rs: a TLA+ model of the simulator framework

simh-rs is a framework for machine simulators in Rust, with a PDP-8 and a "null"
machine built on it. A simulator process is two threads: the main thread runs a
command interpreter (the CLI), the simulator thread runs the machine. They share
two channels, a console and the debug log. This directory models that process,
checks it with TLC on small instances and proves its main properties with TLAPS.

## 1. The system

| component | where | state | operations |
|---|---|---|---|
| simulator loop | `env/simloop.rs` | where the thread is; instructions of the batch; devices popped for service | benchmark, take a request, run a batch of 173 instructions, halt, service expired devices, look at the clock, exit |
| environment | `env/simenv.rs`, `metadata.rs`, `device_node.rs` | `running`, CPU, devices and units, resource index, debug state | one handler per request; reset, service, read and write a resource, attach, detach, registration |
| messages | `env/messages.rs`, `cli/repl_state.rs` | two mpsc channels | `transact` (send and block), `send` (Quit only) |
| command loop | `cli/cmd_repl.rs`, `cmd_reader.rs` | stack of input sources, status, debug state | read a logical line, run a command, end of a source, QUIT |
| commands | `cli/*_cmd.rs`, parsers, trie | none of their own | EXAMINE, LOAD, RESET, SET, SHOW, directory commands, HELP, QUIT |
| event queue and clock | `timers/` | heap of events by fire time, instruction total, one real-time clock per id, throttle | schedule, pop expired, calibrate, throttle, idle |
| console | `env/console.rs`, `sysbus.rs` | two character queues behind a mutex | read, write, poll |
| logging | `logging/` | registry of debug categories, sinks, the debug session | register a category, enable, write a record |
| PDP-8 | `pdp-8/src` | accumulator, memory, interrupt flags; TTI, TTO, RK05 | instructions, IOTs, interrupts, loaders, disassembler |

What is hard about it:

* **Interleaving.** A command may be sent while the simulator thread benchmarks,
  runs a batch, services devices or has already ended. Responses carry no
  identity, so one too many or too few shifts all that follow.
* **Stale reads.** `running` is read before a request is received and again after
  it has been handled; the program can change it in between batches, and the CLI
  is not told.
* **Partial failure.** A failing service abandons the rest of the devices whose
  events were popped; SET DEBUG changes one side before the other; a deposit or a
  load stops half-way.
* **Termination.** main joins the simulator thread while it still holds the
  sender the thread waits on.
* **Time.** Time is counted in instructions, added a batch at a time, and not at
  all for a batch that a halt cuts short. The host's clock, which calibration and
  throttling measure with, may jump either way.
* **Shared logs.** Debug records of both threads and the transcript of the CLI may go to
  one file, each through locks of its own; the registry of debug categories is three maps
  with a lock each.
* **Numbers and names.** 12-bit words wrap within a field; the shifts and divisions of the
  EAE have edges of their own; a tape's leader, trailer and checksum are told apart by
  position; one name is looked up by three pieces of code.

The hazards are listed one by one, with their lines, in `PROJECT.json`.

## 2. The modules

| module | models | extends |
|---|---|---|
| `SimMessages` | device names, `SimRequest`, `SimResponse`, which responses answer a request | |
| `Channels` | the two channels and the end of the simulator's half | `SimMessages` |
| `SimEnv` | the environment: one operator per request handler, reset, service, event queue | `SimMessages` |
| `SimLoop` | the simulator thread, one action per step of its loop | `SimEnv`, `Channels` |
| `CmdRepl` | the main thread: input stack, transact, QUIT, end of input, join | `Channels` |
| `SimSystem` | both threads together; the properties; the refinement mapping | `SimLoop`, `CmdRepl` |
| `Monitor` | the abstract specification: a monitor whose requests are atomic | `SimEnv` |
| `MCSimSystem` | the instances TLC checks: which devices, which requests | `SimSystem` |
| `InterruptLine` | abstract: the interrupt-enable flag and the requests, as a device sees them | |
| `Pdp8Cpu` | the PDP-8's interrupts, memory fields and user mode; implements `InterruptLine` | |
| `Kl8e` | the terminal TTI/TTO, the console queues and the terminal's events | `InterruptLine` |
| `MCInterrupts` | the instance of the processor's interrupts and of the terminal | `Pdp8Cpu`, `Kl8e` |
| `Pdp8Reference` | the PDP-8's memory references: operands, targets, autoindexing, stores, among the fields | |
| `Pdp8Arithmetic` | what AND, TAD, DCA, GTF, RTF, the operates and the EAE compute; `&` and `\|` are parameters | |
| `MCPdp8Arithmetic` | its instance, with the bitwise operators of numbers | `Pdp8Arithmetic` |
| `Pdp8Symbolic` | the disassembler and the assembler, against the processor's addresses | |
| `Pdp8Tape` | the RIM and BIN loaders, frame by frame | |
| `MCPdp8Memory` | the instance of references, symbols and tapes; the tapes and words tried | `Pdp8Symbolic`, `Pdp8Tape`, `Pdp8Reference` |
| `SimClock` | the loop's clock check, ticks, calibration, the dependent timers | |
| `Throttle` | the throttle's settings and controller, the idle detector | |
| `MCTimers` | the instance of both | `SimClock`, `Throttle` |
| `DebugRegistry` | the categories of debug messages, their three locks and counter | |
| `Logging` | transcripts and debug sessions, their sinks and mutexes, the commands that open and close them | |
| `MCLogs` | the instance of both | `DebugRegistry`, `Logging` |
| `DeviceRegistry` | devices, controllers and units: registration, the resource index, the manifest, the lookups | |
| `CommandTrie` | the tables behind verbs and keywords: the trie, with prefixes and aliases | |
| `MCNames` | the instance of both | `DeviceRegistry`, `CommandTrie` |
| `SimSystemProofs` | type correctness, the request protocol, the framework's other safety properties, and that `SimSystem` implements `Monitor` | `SimSystem` |
| `Pdp8CpuProofs` | type correctness, the interrupt properties, and that `Pdp8Cpu` implements `InterruptLine` | `Pdp8Cpu` |
| `Kl8eProofs` | types of the terminal, input and output in order | `Kl8e` |
| `Pdp8ArithmeticProofs` | registers keep their width; multiply, divide, shift and normalize are exact | `Pdp8Arithmetic` |
| `Pdp8MemoryProofs` | calls return, programs stay in their field, memory references are what is printed, IOTs come back, tapes stay in memory | `Pdp8Reference`, `Pdp8Symbolic`, `Pdp8Tape` |
| `TimerProofs` | types, the clock's bounds and dependents, the throttle's honesty | `MCTimers` |
| `LogProofs` | the registry for any number of threads; the lock order and the contents of the log files | `DebugRegistry`, `Logging` |
| `NameProofs` | the trie finds what the table lists; the lookups of names agree | `CommandTrie`, `DeviceRegistry` |

Definitions whose name has an underscore (`Receive_ForgetsAnswer`) are faulty
variants of the definition after them. No specification uses one; each shows that
some property would notice the fault.

### How the model corresponds to the code

`SimLoop`. The actions are the stretches of `actual_sim_loop` between two points
where the other thread can be observed: taking one message with `handle_request`
(`Receive`, `ReceiveQuit`), a `try_recv` that finds nothing (`PollEmpty`), one
instruction (`Instruction`, `Halt`), `add_instructions` with `get_ready_devices`
(`EndBatch`), one `service_device` (`Service`, `ServiceFails`), the clock check
(`Tick`). The simulator shares only the channels, so finer steps could not be told
apart.

`SimEnv`. A component's registers and memory are one cell: no handler looks at a
value, only at whose it is. Instructions and service routines change cells at will.
A fire time is kept relative to the instruction total, which is all the code ever
compares. The heap is a function on `Slots`: pops come by fire time, ties in any
order, as `BinaryHeap` gives them. A request can name any string; `Stranger` stands
for those nobody registered. A unit is known to examine, deposit, attach and detach
(they use `lookup` or the resource index) and unknown to service and reset (they
search the top-level devices).

`CmdRepl`. A source of input is the number of lines it has left; what a line says is
chosen when it is read: a command the CLI answers itself (`LocalCommand`), one that
transacts (`Transact`, then `TransactReturns`), or QUIT. `EndOfSource` is the end of
the top source with both of its pops. `call` remembers the last transact and is what
the properties relate to the simulator's state.

`Commands` is a parameter. The command table of this commit sends Examine, LoadFile,
Reset, SetDebugState and DebugDisable; the other requests have their handlers in
`handle_request` and belong to the protocol, and the runs send them too. An EXAMINE of
mnemonics is text of the CPU's memory, whatever it names; it is not told apart from one that
names the CPU.

`Pdp8Cpu`. A step is one `simulate_instruction`: an interrupt if one is due, the fetch
with its bump of the program counter, the end of ION's delay (`Fetched`), and one
instruction. The simulator services devices between batches, so no device acts inside a
step. The program is any program, right or wrong: what is executed is chosen at
each step, and of memory only location 0 is kept, which holds an interrupt's return
address. Flags are named as in `InterruptFlags`, with the inverted `NO_ION_PENDING` and
`NO_CIF_PENDING` as they are. Two history variables: `resume` is the context last
interrupted and whether RMF has restored it, forgotten when the program changes location 0
or the fields for itself; `released` says that a CAF, which assigns all of `int_req`, or a
deposit has ended the hold of a field change early. Left out: the accumulator and memory
(`Pdp8Arithmetic`'s and `Pdp8Reference`'s), the flags nothing inserts (PWR, and those of devices that do
not exist), and the TSC8 registers, which nothing reads since `tsc_enab` is never set.

`Kl8e`. One action per service routine, reset and deposit, and for each way to schedule.
`due` counts a device's events in the queue; when they come is left open, which is coarser
than `SimEnv`. `running` is the machine's: instructions and services need it, STEP sets it,
STOP and a halt clear it, and `ServiceFails`, another device's failure, clears it and drops
any of the events. The processor is `InterruptLine`: in a running machine it may switch
interrupts, and clear the requests, at any time. The histories `typed` and `taken`, `given`
and `drained` say what went in and came out; a character that RESET or DEPOSIT takes out of
the printer's buffer unprinted is no longer `given`. The terminal's IOTs do nothing in this
commit (TTI has no `execute_io` at all, TTO's is empty), so a program can neither clear a
flag nor give TTO a character; DEPOSIT and RESET can. Nothing calls `push_input` yet, so the
typist is external and keeps to what its comment asks of the caller.

`Pdp8Reference`. A step is one instruction, from the fetch on: the operand by
`calc_ea_memref` or `calc_ea_jmpjms`, the autoindexing, the store, the program counter. An
instruction is its page bit, offset and indirect bit; memory is in full, on small fields.
All of memory exists (`mem_size` is never set to less). `called` is history: where the
last JMS left its return address, forgotten when the program stores there.

`Pdp8Arithmetic`. Words have `Width` bits; masks and shifts are remainders, quotients and
products, and the bitwise operators `BitAnd` and `BitOr` are parameters, of which `BitsAssumption`
says only that their results fit where their operands do. `MCPdp8Arithmetic` gives them
`&` and `|`, and TLC evaluates the assumption. An action is one instruction of a group in one mode, its operand any
word. What the code leaves to a rotate with both directions set is any result. Of the
flag word of GTF and RTF the link and the GTF are kept; its other bits are any bits.

`Pdp8Symbolic`. The opcode table entry by entry, in its order, for the disassembler's first
match, and the assembler's way back. A text is mnemonics, I and an operand.

`Pdp8Tape`. One step a frame. `loader` is the local variables of `load_rim` or `load_bin`;
`stored` what was written to memory so far, which an error does not undo. A tape carries
what it was punched from, so that a load can be compared with it.

`SimClock`. One action for a batch, a batch cut short, the loop's look at the clock (with
the tick, the calibration once a second of ticks, and the dependent timers in one step, as
the code does them in one call), `init_timer`, `reset`. What `get_msec` says is any value of
`Readings`, modulo `Wrap`. Numbers the code keeps as f64 are integers, rounded down.

`Throttle`. One action per public method of `TimerManager` that concerns throttling and
idling; the sleep is a state of its own, since `is_waiting` may be read during it.

`DebugRegistry`, `Logging`. A call is the locks it still has to take: each step takes one,
or does one map's work under one. Calls of both threads interleave at every lock.

`DeviceRegistry`. `add_device` and `add_unit` with all their checks and early errors, the
resource index rebuilt as the code does, the manifest made once by `cli_connect`, and the
three lookups as operators on that state. The hash map's order is any order.

`CommandTrie`. A node is the letters that lead to it; the search finds the node of what was
typed, or collects the endpoints below it. The table that was inserted is kept beside it as history.

## 3. What is checked

The runs of the framework (`MCSimSystem`) use a CPU, a console device `tti`, a controller
`rk` with the unit `rk0`, two heap entries, two values, batches of two instructions and
delays 0 and 3.

| run | question | bounds |
|---|---|---|
| `protocol` | request discipline, matching answers, agreement on the debug session, a stopped machine stands still; do commands return, does QUIT end the process, do events reach their device; do the threads implement the monitor | any script of 1 to 3 lines, or of one line nested in another, over 26 requests |
| `interrupts` | can every interrupt be returned from, exactly; is user mode confined; do devices see an interrupt line; is the terminal's input read, and its output printed, once and in order | two fields of two words, any program; two characters, two typed and two printed in a behaviour, one event per device |
| `timers` | does the clock keep its ticks, its range and its dependents in step, whatever the host's clock says; is the throttle honest | a second of 4 ms, a clock of 16 values, two timers, three readings |
| `logs` | registration and enabling from both threads; deadlock and loss among transcript and debug log | two threads, three names; two files, two transcripts, one session, two writes each |
| `arithmetic` | are multiply, divide, shift and normalise right as arithmetic | words of four bits, operands zero, the lowest number and minus one |
| `memory` | is what is printed what is executed, does it come back; do tapes load; do calls return across fields | every 12-bit word at seven addresses; tapes of up to two sections, sound or with one misread frame; two fields of two pages of two words, one autoindex register |
| `names` | do the lookups agree; does the trie find what the table lists | two devices and two units under three names; three commands of up to three letters, inputs of up to four |
| `lost_events` | is every expired event serviced | violated |
| `page_end` | is what is printed what is executed, in the last word of a page | as `memory`; violated |
| `rim_leader` | is a RIM leader skipped | as `memory`; violated |
| `skip_sense` | do SPA, SNA and SZL skip when AC is not minus, not zero, L not 1 | as `arithmetic`; violated |
| `input_polled` | is a typed character read in the end by a machine that runs | one character, one event per device; violated |

Why the bounds are enough. Only one request can be in flight, so what matters is the
request, the one before it and where the simulator thread is: three lines give every
such triple. Batches of two make "first instruction", "later instruction" and "end of
batch" differ; delays 0 and 3 make an event expire in the first and in the second
batch, with the next one behind it. Two heap entries make ties and a dropped rest.
`Slots` bounds the heap: a schedule request is only sent, and a device only
reschedules itself, when there is room.

For the PDP-8's interrupts: two fields tell a field from its buffer, two words make every
address the last of its field or the first, so each bump and each skip meets the wrap, and
location 0 is both a word the program may overwrite and one it need not. `MaxTyped` bounds
what is typed and what is given to the printer in a behaviour, `MaxDue` the events of a
device; two characters are the fewest that can be swapped. For the references: two pages of two words have a zero
page, a current page and the end of each; `Used` and `MaxUsed` bound the words that differ
from zero, one of them an autoindex register. For the arithmetic: four bits are the fewest
with a sign, two magnitudes and an odd middle; no step of the code treats a bit of the
inner part of a word by its number. `CountMask` is larger than two words, so that shifts
beyond the width happen.

For the timers: readings of 1, 2 and 9 ms are the same moment, a short gap and one that is
`GapTooBig`, and, modulo 16, a clock set back. `InitialIPS` 20 keeps `5 * InitialIPS` above
what a delay can reach in a second of 4. `MaxDebt` and `MaxExecuted` bound what is counted.
For the logs: two files are what the transcript and the debug session may share or not;
two writes make one before and one after a change of session. For names: three names, one
of them the CPU's, give every clash of a device, a unit and the CPU; words over two letters
give every way for one to begin another.

Where two models share no variable, a run puts them in one specification with a variable
`part` that says which of them a behaviour is of: no interleaving is added or lost.

Deadlock is not checked where a process may end, a CLI may wait for ever, a load may finish
or a table may be full; `timers` checks it. That the process stops nowhere else is what
the liveness properties say, and `NoDeadlyEmbrace` says it of the log's locks.

Fairness. `FairSpec` is weak fairness of the simulator thread and of the main thread's
return from transact and from join: the operating system schedules both threads. Nobody
is obliged to type, so reading a line is not fair. A program may run for ever
or halt, and a device's service may fail or succeed at every turn: no fairness is assumed
of them. `EventsFire` has its escapes: the machine stops, or another service fails.
`TermFairSpec`, weak fairness of the terminal's two service routines, is used by
`input_polled` alone, which refutes a promise: a machine that goes on running services what
is due after every batch, and one that is stopped, or has lost the event, owes nothing.

### What the properties say, in short

`CatchesUp`: after a measurement a machine behind the host's clock is given no longer a
second, and one ahead no shorter. `DependentsInStep`: every dependent timer's delay is the
main one's scaled by the rates. `TicksKeepUp`: one tick a batch is enough, the count of
instructions never grows beyond what was cut short. `MarkersAnnounce`: the mark that cuts
a transcript's line is followed by the record it was cut for; `ConsoleKept`: no character
of the console is lost by it. `SuccessMeansIntact`: a BIN load that succeeds has stored what
was punched, even if one frame was misread as another. `ComesBack`: what EXAMINE -M prints
of an operate or an IOT gives the same word back when typed, but for the one-way words of
section 4, and printing what was typed gives the same text again.
`OutputInOrder`: what the CLI has drained, the queue and the printer's buffer are together
what the printer was given, so a repeated or dropped event prints nothing twice.
`SlowedOnlyWhenFast`: a sleep needs an average above the controller's target, and that is
the speed asked for last, if one is; of a controller that a percentage or `cancel_throttle`
leaves in place it says only the first.
`LookupsAgree`: what the CLI offers for a name, the simulator finds under it, and where one
provider has the name, the CLI, the resource index and `lookup` mean that one. For a name that two
have, nothing is claimed (section 4).

Each module also has properties that no run lists, because a listed one is stronger or a
theorem covers them: `CpuTypeOK`, `TermTypeOK`, `RegistryTypeOK`, `TokensDistinct`,
`ArithTypeOK`, `TapeTypeOK`, `IdleFlag`, `ErrorsChangeNothing` are proved (section 5);
`LoggingTypeOK`, `SymbolicTypeOK`, `NoneIsLost` and the registry's `TypeOK` held when they
were added to their runs.

## 4. Where the code and its comments disagree

Five runs end in a violation; each quotes, in `PROJECT.json`, the comment that promises
otherwise.

* A failing service loses the events popped with it (`ExpiredAreServiced`).
* A memory reference in the last word of a page is printed with an address of its own page
  and executed on the next (`PrintedIsAddressed`).
* The RIM loader compares with decimal 200 where 0200 is meant, so a leader is data
  (`RimSkipsTheLeader`).
* With the sense reversed, group 2 takes the skip back when a selected one of SPA, SNA and
  SZL is true: SPA skips on a negative accumulator (`AndGroupSkipsOnAll`, `cpu.rs:807`). TLC
  names the step by the first action that makes it, AND with an operand that leaves AC alone.
* A keystroke while interrupts are off, or the keyboard's flag is up, uses up the keyboard's
  event; nothing schedules another (`InputIsPolled`, `kl8e.rs:41` against `console.rs:11`).

The modules state others, each refuted by TLC in the instance of its module's run
(`MainEnds` under `ScriptSpec`, which also reads a script to its end). They are kept as
definitions; no run lists them.

| property | module | what the code does |
|---|---|---|
| `MainEnds` | `SimSystem` | at the end of the input no Quit is sent: the process hangs in join |
| `UnitEventsAreServed` | `SimSystem` | a unit cannot be scheduled: its event stops the machine |
| `TimeFollowsExecution` | `SimSystem` | the instructions of a batch cut short by a halt are never counted |
| `SourcesAreReadToTheEnd` | `SimSystem` | the end of a nested source also drops the source below it |
| `ResetIsPowerOn` | `Pdp8Cpu` | RESET leaves the PDP-8's interrupts on and requests pending |
| `CancelledMeansNoSleep` | `Throttle` | `cancel_throttle` keeps the controller, which goes on sleeping (`manager.rs:573` against `traits.rs:253`) |
| `RecordsStartLines` | `Logging` | the prompt goes past the line buffer: a debug record may land on its line (`logging.rs:23`) |
| `AliasesAreExact` | `CommandTrie` | exact-only aliases take part in completion: CON is ambiguous between CONT and CONTINUE (`cmd_trie.rs:8`) |

Others are plain from the code. The model has the code's side of each.

* `Step(n)` ignores n (`simenv.rs:877` against `messages.rs:76`). SET DISABLED does nothing.
  RESET of a unit reports completion and does nothing (`simenv.rs:731` against
  `messages.rs:82`): in `ResetBy` its provider is none.
* A violation in user mode raises UF, which `INIT_ENABLE` does not hold, so it never
  interrupts (`cpu.rs:323` against `pdp8_defs.rs:9`); a trapped CDF is looked for at device
  62, which is not the memory extension's (`cpu.rs:498`).
* RDF and RIF put the field at bits 6 to 8 of the accumulator (`cpu.rs:659`), CDF, RTF and
  RIB have it at bits 3 to 5: a program cannot build a CDF from what RDF reads.
* SCA precedes every mode-B instruction of the EAE, DST among them; MUY and DVI use an
  autoindexed location's new value as the operand where DAD and DST use it as a pointer;
  ASR's GTF is wrong for counts of 25 and more.
* BIN: a tape that ends in its leader is no error; a checksum is compared without its
  channel 7; a failed load leaves what it stored.
* Known one-way words of the assembler: IAC in group 1 prints as NOP3, SKP as NOP2; CLA,
  OSR and HLT are dropped when bit 3 is set; DVI prints as SCL MUY; two-word names are
  refused; mode-B names are never printed; a lone CLA always comes back as group 1's.
* `add_unit` checks a unit's name within its controller only (`simenv.rs:386`), so a unit
  may be called CPU, and the manifest, the index and `lookup` then mean different things by
  the name; the resource index is empty until the first registration, before which
  even the CPU's registers are not found.
* The benchmark's result is dropped (`simloop.rs:56`): `initial_ips` is always 5,000,000.
* The drift percentage of a throttle does not reach its controller, and a percentage leaves
  the controller of an earlier speed in place; a tick is counted twice;
  SET DEBUG with a list enables those before the unknown one (`set_cmd.rs:323`); one file
  opened twice has two sinks, and two positions.

## 5. What is proved

The theorems about the framework hold for every set of devices and units, every finite
heap, all commands other than Quit, all scripts and every batch size; the assumptions are
the named ASSUMEs of `SimMessages`, `SimEnv`, `SimLoop` and `CmdRepl`, which say that the
kinds of names are disjoint and that markers such as `NoCall` are not ordinary values.

* `TypeCorrect` and `RpcDisciplineHolds`. Neither is inductive alone: when a transact
  returns, it updates `call`, which is a record only because `RpcDiscipline` says there
  is a call while the main thread waits. And the protocol rests on the types. Together
  they are inductive (`ProtocolInvariant`). The heart of it is `HandlerAnswers`: every
  handler sends one response of a kind that answers its request, and takes no Quit; so
  a request found in the queue outside a transact can only be Quit.
* `AnswersMatch` follows from the protocol's last disjunct.
* `DebugAgrees` needs `DebugInFlight`: while a request is queued the CLI is ahead of the
  simulator by exactly what that request will do.
* `ReadyInService` and `PausedIsStill` rest on `BusyMeansRunning`: inside a batch or a
  service pass the machine runs.
* `StoppedStays` needs `Parked`: from the step that handles Stop, before its answer is
  received, the thread has nothing to do.
* `Refinement`: `SimSystem` implements `Monitor`. The mapping takes `phase` from the
  main thread and the response queue, `machine` from the simulator thread's position,
  and `answer` from the queue's contents. Every step maps to a monitor step or a stutter:
  `Receive` is `Take`, an instruction or a service is `Program`, a clean exit is
  `Shutdown`. It rests on the invariants above and `Alive` (the channel's end is closed
  exactly when the thread has exited).

For the processor, `Pdp8CpuProofs` holds for any set of fields with 0 in it and any field
size above one; `CpuInvariant` (type correctness and `Settled`) is inductive.

* `Settled` says when a buffer may differ from what it buffers: only while interrupts are
  held (`NO_CIF_PENDING` not in `int_req`), unless the hold was undone; that in user mode
  the user buffer is up; that the save field and location 0 hold the interrupted context as
  long as `resume` remembers it; and that once RMF has restored it, interrupts stay held and
  the buffers hold that context. None of the properties is inductive without it: each speaks
  of the moment of an interrupt or of a return, and the buffers were set many steps before.
* `NothingIsLost`, `ReturnIsAtomic` follow from it in one state; `ReturnIsExact` and
  `UserModeStays` are about a step from such a state.
* `LineIsImplemented` needs the types only: every instruction but CAF leaves the devices'
  requests alone (`InstructionKeepsRequests`), and CAF also turns interrupts off.

For the terminal (`Kl8eProofs`), any characters, any number typed or printed: `TermInvariant`
is the types with `InputInOrder` and `OutputInOrder`. The type invariant says that a device is
popped only if due; the input's order needs that a character leaves the queue in the step in
which it is read, the output's that it leaves the buffer in the step in which it is printed.
What was given before the character in the buffer is then what has been printed
(`GivenBeforeIsPrinted`), which a reset or a deposit goes back to. Stopping and dropped events
change neither.

For the timers (`TimerProofs`), every clock, any rates, speeds and bounds that
`ClockAssumption` and `ThrottleAssumption` allow.

* `ClockInvariant` is the types, the main timer's rate, `DelayInRange` and `TicksKeepUp`.
  `TicksKeepUp` needs the range: a tick takes off one delay, and pays for a batch only if
  every delay that calibration can choose is longer than a batch. The range needs the limits
  of each of calibration's outcomes (`AdjustedFacts`, `SwingIsLimited`) and holds whatever
  the average is (`PredictionIsInt`). The assumption `Batch <= Initial(MainRate) \div 5` holds
  if `initial_ips` is at least 173·5·60, and `ProductIsBounded`, against `5 * InitialIPS`, fits
  an i32 if it is below 2^31 / 5. In this commit it is the constant 5,000,000, as the
  benchmark's result is dropped; the theorems would cover a measured value in that range too.
* `TimersStayInStep` and `CalibrationCatchesUp` are about one step from such a state. Only
  `Tick` and a calibration take instructions off the count, and each ends by setting every
  timer by the main one (`TicksLead`); the rest is the remainder of a division. For the
  other, `GapHasItsSign` says that the wrapped difference of the clocks has the sign of their
  distance on the circle, and that limiting the drift keeps it.
* `ThrottleInvariant` adds that a controller has a target, that one which sleeps has measured
  more than the target (`WellSlowed`, `FastEnough`), that the target is the speed asked for, if
  one is (`ControllerHasTarget`), and `IdleFlag`. `SlowingIsDeserved`
  follows. `RefusalsChangeNothing` is about every step, by cases.

For the log (`LogProofs`), two specifications.

* The registry of debug categories, any number of threads, names and ids.
  `RegistryInvariant` adds to the three properties `TokensAreListed`, `KeysAreTokens` and
  `IdsAreFresh`: what a thread that is between two locks has already done, and that an id it
  holds is nobody else's. Without them a registration half done could be overtaken.
* The transcripts and debug sessions, any number of files, transcripts and sessions.
  `LoggingAssumption` says that the three kinds of mutex differ and that there are two
  threads, the CLI and the simulator. `LoggingInvariant` has three parts. `LocksSound`: a
  thread takes its mutexes in the order DebugState, TranscriptInner, SharedSink (`Rank`),
  and its call is about the one file its transcript writes to. `SessionsSound`: a session
  that shares a transcript has that transcript's file. `FilesSound`: the two properties of
  the files, with `UnusedAreEmpty`, that a transcript not opened yet has received nothing.
  `NoEmbrace` follows from `LocksSound` alone: if two threads
  waited for each other, each of the two mutexes would come before the other. The files need all three: a call
  that cuts a line writes the copy, the mark and the record while it holds the file's
  mutex, and that this is the file the line goes to is what `SessionsSound` says.

For names (`NameProofs`), two more.

* The command tables, any alphabet and any commands: `TrieIsTable` relates nodes to what
  was inserted, a node being the beginning of some command. The completion theorem follows
  by comparing the commands below a node with those that begin with what was typed, without
  induction on words.
* The devices, any names, resources and order of registration. `NamesInvariant` says that
  devices have distinct names, none of them the CPU's, that the index is what registration
  in order leaves (`Rebuilt`: the last provider of a name and a resource), and that the
  CLI's manifest is that of the devices once the simulator runs. `NamesAgree` then compares
  three functions of one list of devices. That a last provider exists is the well-founded
  order of the places a provider can be at, as the list is bounded.

For the arithmetic (`Pdp8ArithmeticProofs`), words of any even width, any operands, and any
step counter that counts to at least two words and two bits and fits in a word, as 037 does
in the code's twelve.

* `ArithTypesAreKept`: `ArithTypeOK` is inductive. What there is to show is what each
  instruction computes, up to multiples of the word or of two words (`LongParts`,
  `SetLongKeeps`), and that a quotient fits if the divisor is above AC (`DividesInWord`).
* `MultiplyDivideHolds`, `AsrDividesHolds`, `NormalizeHolds` are about one step from such a
  state, whose registers are then numbers of a known size. Division with remainder being
  unique (`QuotientIsUnique`) carries most of it. For the shift, a quotient is no larger
  than what was divided and, at the counts at which the code fills instead of shifting,
  is 0 or -1 (`QuotientShrinks`); the flag is the parity of the quotient before the last
  bit (`LastBitOut`). For normalizing, whether a number is normal depends on its first
  `2 * Width + 1` bits only (`NormalFacts`), one that is not normal is doubled without loss
  (`DoublesExactly`), and the counter cannot run out first, since the number would be too
  large by then (`CountIsNotReached`).
* The prover knows nothing of `2^n` for a variable n. That it doubles is proved from the
  library's count of a set's subsets (`PowerDoubles`), and what would be an induction on n
  is an argument about the least counterexample (`LeastNatural`, `PowersMultiply`,
  `DoublingsAreExact`).

For the memory (`Pdp8MemoryProofs`), three parts.

* References, any number of fields, any field size and any page size that divides it, any
  autoindex registers. `ReferenceInvariant` is the types and `ReturnIsKept`: as long as a call
  is remembered, the entry still holds its return address. The types are the work: that page,
  zero page, autoindexing and the EAE's operands stay within the field is arithmetic on
  remainders (`PageIsInField`, `EffectiveAddresses`, `EaeAddresses`). `CallsReturn` and
  `FieldsAreKept` are about one step from such a state.
* Symbols, any words of twelve bits and addresses of fifteen. `SymbolicInvariant` says that
  the text shown is that of the word the cell holds. `ReferencesComeBack` follows by taking
  the word apart into opcode, I, Z and offset and the address into field, page and offset,
  and by `MrfNames`: no other table lists the name of a memory reference, so the assembler
  goes to `encode_mrf`. `IotsComeBack` is the part of `ComesBack` about IOTs, at every
  address and in both modes: the names of the tables are distinct (`IotNames`), so what is
  printed by name, by field or by number is found again where it was printed from, and the
  words printed with two names are refused whole. The operates are not proved.
* Tapes, any frames and either format. `TapeInvariant` adds the loader's local variables to
  `TapeTypeOK`; nothing is assumed of what was punched. `TapesStayInMemory`: an origin wraps
  in its field, a word of more than twelve bits becomes an origin and is not stored, and a
  field setting is one of eight, so that every store is of twelve bits at a fifteen-bit
  address.

Only model-checked:

* liveness (`CommandsReturn`, `QuitEndsProcess`, `EventsFire`), and the properties the code violates;
* `TapesLoad` and `SuccessMeansIntact`, which compare what is stored with the images of
  given tapes; what the loaders make of all frames, a fold, needs induction over data;
* `ComesBack` for operates: what one prints is a fold over the table of its group. Here TLC
  leaves little open: its run tries every word of twelve bits in both modes of the EAE, and
  for an operate neither direction looks at the address.

## 6. Not modelled, and what is left

Not modelled: the parsers of arguments and the rendering of answers (no state, character by
character), the host's clock and sleep (system calls; what they may answer is in `SimClock`
and `Throttle`), compile-time macros and help text, the null system's stub devices, the
RK05's registers (a stub in the code), the TSC8 (nothing enables it), the queue of past
program counters and the statistics of the timers (nothing reads them), `cancel_device`,
`clear_events`, `start_services` and `stop_services` (nothing calls them).

Left:

1. An abstract map from names to devices that the registry refines, and an abstract file of
   lines that a transcript shared by a debug session refines; `LookupsAgree` and `ConsoleKept`
   are proved of the detailed models directly.
2. A proof that a BIN section's checksum catches one misread frame.
3. The reader's logical lines, with continuation and DO files.
4. The terminal's IOTs and the RK05, once the code has them.
