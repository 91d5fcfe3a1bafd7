# The goldfish board in TLA+

A verification project for the devices in `src/goldfish-patches/base/`: the
Android "goldfish" ARM board that is added to several QEMU versions. The code is
event-driven C: a guest CPU accesses registers, the host calls back (bytes, keys,
display refreshes, timers), and one interrupt controller joins the devices.
What is hard about it is order: a callback between two accesses of a driver, a
guest that reboots while the devices keep their state, a queue at its limit, a
64-bit time read in two halves, a machine that is restored in a new process or in
the running one. Beside the devices there is a shell script that puts them into a
QEMU tree; it fails, is killed and is run again on what it left.

## 1. The system

| component | file (`hw_...`) | state | operations |
|---|---|---|---|
| PIC | `intc_android_goldfish_pic.c` | `pending`, `enabled` | input lines; DISABLE_ALL, DISABLE, ENABLE; read STATUS, IRQ_PENDING |
| tty | `char_android_goldfish_tty.c` | receive ring (`rx_*`), `int_enabled`, `data_ptr`, `data_len` | chardev: can_receive, receive; guest: BYTES_READY, DATA_LEN, DATA_PTR in two halves, four commands, PUT_CHAR |
| events | `input_android_goldfish_events.c` | ring of words (`queue`, `qhead`, `qtail`, `qcount`), `page` | host: key, button, axis, sync; guest: SET_PAGE, READ, LEN, DATA |
| timer | `timer_android_goldfish_timer.c` | `tick_offset`, `alarm_next`, `time_high`, `alarm_running`, `irq_pending`, `irq_enabled`, a QEMU timer | TIME, ALARM, IRQ_ENABLED, CLEAR registers; callback; post_load |
| fb | `display_android_goldfish_fb.c` | `base`, `blank`, `int_status`, `int_enable`, vsync timer | registers; vsync; console refresh |
| pdev_bus | `arm_android_goldfish_pdev_bus.c` | device list, `pos`, `current`, name address | add_device; REG_OP, GET_NAME, read registers |
| board | `arm_android_goldfish.c` | next base and line | creates, wires and registers the devices |
| battery | `misc_android_goldfish_battery.c` | constants, `int_status`, `int_enable` | registers; nothing raises its interrupt |
| compat | `include_hw_goldfish_compat.h` | none | hides API differences of QEMU 2.9 - 10, most of them by version (`GF_ATLEAST`) |
| integration | `ci/goldfish-integrate.sh` in `build-qemu-wasm-goldfish.yml`, `manifest.tsv` | a QEMU tree | copies sources, writes `gf-version.h`, adds objects, symbols and board configuration once, applies patches |

Interaction: each device calls `qemu_set_irq`, which runs the PIC's input handler
(`android_goldfish_pic_irq`) at once, which in turn drives the CPU's line. tty and
fb reach guest memory directly. The chardev, the input layer, the console and the
QEMU timers call the devices from the main loop.

Concurrency: every handler runs to its end under QEMU's big lock, so a handler is
one action of the models. Between two accesses of the guest anything else may run.
The exception is the guest's own memory, which the CPU writes without the lock
while the main loop refreshes the console; there a refresh is two steps. The loops
of the tty's commands run under the lock too; they are taken apart, one turn an
action, where the question is what the loop does as a whole.

No device has a reset handler (`src/goldfish-patches/README.md`, "Sem handler de
reset"), so a reset of the guest is one of the CPU only: the models call it `Reset`
and leave every device as it is.

### What makes each part correct

* PIC: no enabled, asserted line goes unnoticed and no interrupt is invented; the
  one exception is DISABLE_ALL, which also erases lines still asserted.
* tty: a buffer is moved whole and once, whatever its length and address; the host's
  stream arrives complete and in order, `g_assert` in receive never
  fails although its argument comes from an older answer, the chardev is always
  woken again.
* events: whole events in order or not at all; nothing that was not advertised; a
  key sticks only when its own latest change was dropped.
* timer: the alarm is armed for the right moment, rings or is cleared, survives a
  restore; its status is true; two halves of a time belong together.
* fb: no torn and no stale frame; every flip and vsync is announced.
* pdev_bus and board: a kernel enumerates each device once with its own name, even
  after a reset in the middle.
* All together: bytes and events that wait are announced by an interrupt, and a
  handler never serves an empty device.
* integration: a run that ends well has done everything, whatever the runs before it
  left; a second one changes nothing; nothing is added twice; what can be mended is
  mended by running the script again.

## 2. The modules

| module | models | state and actions |
|---|---|---|
| `GoldfishPic` | the PIC | registers are sets of lines; `SetIrq`, `DisableAll`, `Disable`, `Enable`; `Update` ends each |
| `IrqFifo` | abstract: bounded queue with a level line | `Put`, `Take`, `SetOn` |
| `GoldfishTty` | receive side of the tty, and its chardev | variables named as the struct's fields, `tty_irq` is the level of `s->irq`; `Receive`, `CmdReadBuffer`, ...; `ChrPoll`, `ChrDeliver`, `MainLoopWakes` are the chardev; `GuestForgets` is a reset of the guest, which the device does not notice |
| `GoldfishTtyDma` | the tty's registers and the chunked loops of its commands | `SetDataPtr`, `SetDataPtrHigh`, `PutChar`; `WriteTurn`, `ReadTurn` are one turn of a loop |
| `TtyTransfer` | abstract: the same commands in one step each | `WriteBuffer`, `ReadBuffer`, ... |
| `GoldfishEvents` | the event device | `Push` under `InputKey`, `InputButton`, `InputAbs`, `InputSync`; `Pop`; the pages as `DataLen`, `DataByte` (bits and halves of words put together as numbers), `DataRead` |
| `GoldfishKeys` | events + the keys that host and guest believe to be held | `PressKey`, `PressButton`, `GuestReadsKey` |
| `GoldfishMachine` | PIC + tty + events + guest | extends `GoldfishPic` and `GoldfishTty`, whose names therefore begin with `Pic` and `Tty` where the machine has its own (`PicSpec`, `TtyNext`), and has `GoldfishEvents` as an INSTANCE; `TtyDrives`, `EventsDrive` are the wires |
| `GoldfishTimer` | timer and alarm | one action per register; `Tick`, `Fire`, `Migrate`, `LoadVm`; a second reader of the time |
| `GoldfishFb` | framebuffer, console refresh and a double-buffering guest | one action per register; `RefreshTop`, `RefreshBottom`, `Vsync`, `Migrate` |
| `GoldfishPdevBus` | the device bus | `AddDevice`, `OpInit`, `ReadOp`, `SetNameHigh`, `GetName` |
| `GoldfishEnumeration` | PIC + pdev_bus + the board's list + the kernel's driver | `Register`, boot, the handler's steps, `Reset` |
| `GoldfishIntegrate` | `ci/goldfish-integrate.sh`, and `GF_ATLEAST` on what it writes | one action per command or loop body; `Kill`, `Edit` |
| `Goldfish...Proofs` (8) | theorems | section 5 |
| `MC*` | instances for TLC | bounds below |

The guest is external code. Its drivers are modelled from the protocol the devices
document (the head of pdev_bus.c, the comments at the registers) and restricted
only where a property needs a driver that follows it: an event is begun only while
interrupted, boot begins with DISABLE_ALL, a frame is drawn in a buffer that is not
shown. In `GoldfishPic`, `GoldfishTty` and `GoldfishTimer` the guest may do any
access at any time.

Boot in `GoldfishMachine` is a set of tasks with a partial order, so that drivers
may start in any order after the PIC's.

Abstractions: bytes of the host are numbered, so that loss, repetition and order
show; register masks are sets; a time has two halves of `Low` and `High` values and
all arithmetic is modulo `Low * High`, as `uint64_t` is, with the upper half of the
range negative for `timer_mod`; a frame is the number drawn in each of its two
halves, and the conversion of pixels is left out; a device name is one value. The
early returns of `render` are left out too: `realize` gives the device a console with
a surface, so the model never meets a refresh without one or with an odd pixel format.
The position of the pointer goes through a `uint32_t` in `Scale`, in two halves of 16
bits because TLC's own integers have 32.
READ_BUFFER copies in chunks of 128 bytes under the lock, which nobody can see, so in
`GoldfishTty` it is one step; `GoldfishTtyDma` has the turns of the loops and shows
that they implement the one-step commands of `TtyTransfer`.

In `GoldfishIntegrate` a file's name and a symbol are sequences of words, because the
script looks for one text in another: `config GOLDFISH` is contained in `config
GOLDFISH_PDEV_BUS`. A build file is the sequence of the lines that were added to it,
each with the symbols it depends on or selects. The tree the script works on is chosen
once; the manifest, the sources, the version override and the patches are edited
between runs. A file whose `cp` was cut short is `torn`; an append is one step.
The choices by version in `compat.h` and the board are `ChosenCpu`, `ChosenSerial`,
... one for each interface; `Chosen` is the set of all APIs a version picks.

A definition named `Wrong...` is a plausible slip in the code it precedes. No
specification uses it; put in the place of the right definition it makes one of the
properties fail, which shows that the property watches that code.

## 3. The runs

| run | question | bounds and why they are enough |
|---|---|---|
| `pic` | are interrupts lost or invented? | three lines: one masked, one asserted, one that stays out; nothing else is bounded |
| `tty` | does the ring survive stale credits and arbitrary portions? | ring of 3, 7 bytes: wraps twice, is empty, partly full, full; DATA_LEN up to 4, above the ring's size |
| `tty_dma` | do the chunked loops move exactly the buffer? | array and ring of 2 bytes, lengths to 5: below, at, above and not a multiple of the array; addresses of two bits, so that the low half carries and the space wraps; two byte values, 5 bytes of output |
| `events` | are events whole and advertised? can a key stick? | room for 2 events (a multiple of three words, as 768 is); a mapped and an unmapped key, the button; positions inside, at the ends of and beyond the range; a screen wide enough for two bytes of a coordinate and one of height 1 |
| `machine` | what can wait without an interrupt, when is framing off? | tty ring 2 for 3 bytes, queue of 2 events for 4, two resets anywhere |
| `machine_live` | is everything delivered? | queue of 1 event for 2, one reset |
| `timer` | is the alarm right, also restored? | two snapshots, with and without an alarm; 3-bit times, 2 bits in the low half: carries, wraps and negative deadlines occur; the clock runs to 3, the last value below the sign |
| `fb` | tearing, stale frames, lost announcements? | 2 buffers, 3 frames (each buffer is reused), one reset, period of 2 ticks |
| `fb_migration` | does a restored vsync go on? (it does not) | 1 frame |
| `enumeration` | does a kernel find every device? | the board's real list with and without a network card, four addresses, unbounded resets |
| `integrate` | is the script idempotent, complete, convergent? | a header, the board, two devices in different directories, the board's symbol contained in theirs; nine trees (both build systems, with and without Kconfig, board configuration, VERSION, build files); two edits and one kill anywhere |
| `integrate_block` | does the aggregator's block follow the manifest? (it does not) | two edits, no kill |

`machine` and `machine_live` set CHECK_DEADLOCK FALSE: the host's input is bounded
(`HostBytes`, `MaxPosts`), and a machine that has consumed all of it and has no reset
left may stop. Bounds on counters are `HostBytes`, `MaxPosts`, `MaxResets`,
`MaxFrames`, `MaxClock`, `MaxLen` (of DATA_LEN; in the machine the driver names what
BYTES_READY told it, so the ring's size is enough), `MaxOut`, `MaxEdits`, `MaxKills`.

What they show, beyond "it holds":

* DISABLE_ALL erases the latch of lines that are still up (`pic.c:72`). The tty
  recovers at boot, because INT_ENABLE drives its line again
  (`BytesNotStranded`). The event device has no such access: events queued before
  the guest's DISABLE_ALL wait until the next event is accepted
  (`OnlyEarlyEventsStranded` with its `fresh`); if the queue is already full, push
  returns before it drives the line and they wait for good.
* A reset inside an event leaves the queue in the middle of a triple. The framing
  repairs itself only when the guest reads beyond the end, where READ returns 0
  (`FramedUnlessTorn`).
* What a full queue drops may be the release of a key. `KeysFollow` shows how far that
  goes: only the key whose own latest change was dropped sticks, until it changes again.
* A write of TIME or ALARM_HIGH while an alarm is armed leaves its deadline, and an
  alarm beyond 2^63 ns fires at once; the timer's properties name both cases (`moved`,
  `due < HalfRange`).
* `loadvm` over an armed alarm by a snapshot without one leaves the old QEMU timer:
  `post_load` arms and does not delete. `StatusMatchesTimer` names the case (`stale`);
  the timer rings once. A nested reader of the time overwrites `time_high`;
  `HalvesOfOneTime` holds for the outer one unless the high half changed since.
* A guest that rewrites INT_ENABLE more often than once a frame gets no vsync, since each
  write begins the period anew; `VsyncComes` excludes it.
* Finding: `vmstate_android_goldfish_fb` restores `int_enable` but nothing arms the
  vsync timer of the new process. The timer device has a `post_load` for its alarm;
  the framebuffer has none, although `CONTRATO.md` names `dc->vmsd` as the way every
  device migrates. `VsyncTimerRuns` and `VsyncComes` hold with the exception of a
  restored machine; `MigrationKeepsVsync` states it without the exception and fails.
* Finding: `manifest.tsv:3` says that the marked symbol receives the selects of all the
  others. The script adds the aggregator's block with `add_once_line`, by its first
  line: on a tree that has a block, a device added to the manifest later is declared
  and registered, and nothing selects it (`AggregatorSelectsAll` fails).
  `FinishedIsComplete` excludes that case by name (`kept`).
* Read while modelling, and not part of a run: the patches are looked for under
  `../patches/goldfish-patches` and not under `$PATCHDIR` (`yml:357`); a `git apply
  --3way` that conflicts leaves the tree unmerged, and no later run gets past it
  (`yml:362`, excluded in `Mended`); the comment at `yml:30` says a default manifest is
  generated when there is none, the script stops instead.

## 4. Fairness

* `machine_live`: weak fairness of the guest (the only CPU runs) and of the main
  loop's `ChrPoll`; strong fairness of delivery, because the main loop may be woken by
  something else any number of times, but polls the host again each time and finds
  its bytes still there. Nothing is assumed of host input or resets.
* `timer`: the virtual clock runs and the main loop calls expired timers. `AlarmEnds`
  needs no assumption on the guest: a deadline is an absolute clock value below the
  sign bit, so even an alarm that is rewritten again and again cannot be put off
  beyond the end of the range (2^63 ns, `MaxClock` in the run).
* `fb`: the clock, the timers, the end of a refresh that began; strong fairness of the
  guest's boot and handler and of `Vsync`, which wait for the lock that refreshes take
  again and again. The guest need not draw or flip.
* `enumeration`: `goldfish_init` ends, the CPU runs.
* `tty_dma`: a handler that runs goes on (`WF` of `Turn`); nothing else is assumed.
* `integrate`: a run goes on until it ends, and the script is run again as long as it has
  not ended well. Edits and kills are bounded, so they cannot go on for ever.

## 5. What is proved

TLAPS proves the following for every value of the constants that the modules'
assumptions allow (`IrqsAssumption`, `TtyAssumption`, `EventsAssumption`,
`TimerAssumption`, ...; nothing else is assumed). Each module of proofs has an inductive invariant,
the lemmas it rests on, one lemma or step per action, and the theorems.

* `GoldfishPic` (at the head of `GoldfishMachineProofs`): `pending` is the asserted lines
  minus the erased ones (`LatchFollowsLines`) and the output is the masked latch
  (`OutputFollowsLatch`). From it `NoLostInterrupt`, `NoSpuriousInterrupt`,
  `MaskingKeepsPending`: each needs that the latch is exactly what the devices drove since
  the last DISABLE_ALL.
* `GoldfishTtyProofs`: `NoReceiveOverrun` needs `CreditIsCovered` (what a watching chardev
  may still deliver fits, because the guest only makes room); `StreamInOrder` needs
  `RingIsConsistent` (the write index is the read index plus the count, modulo the size)
  and `RingHoldsStream` (the k-th byte in the ring is the k-th after those delivered).
  From it all invariants of the run and the refinement of `IrqFifo`.
* `GoldfishTtyDmaProofs`: the command of `TtyTransfer` takes effect when the loop begins,
  and a turn of the loop then leaves alone what the abstract machine sees
  (`ImplementsTransfer`): the n bytes a turn moves are the first n of those still to be
  moved, because the pointer advances by n modulo the size of the address space, and no
  address is hit twice, because the ring is not larger than that space. `DmaEachTurnAdvances`
  says that every turn moves a byte or leaves the loop, which is the measure behind
  `CommandsEnd`.
* `GoldfishEventsProofs`: the tail of the ring is its head plus its count
  (`RingIsConsistent`) and the line is up exactly while there is a word (`LineFollows`). A push
  adds three words to what the guest sees from its next event on, an event's last read takes
  three from its front; hence `WholeEvents` and the refinement of `IrqFifo`, for a ring of any
  size. `AdvertisedOnly` needs in addition that each
  event in the ring is one `Push` was given, and what the pages say of it: the bit of a
  code is in the byte its number names, below `DataLen` (`ByteOf` gives each of the eight
  bits back), and the four bytes of a limit make the limit again (`ScreenAssumption`:
  both are `uint32_t`); `Scale` then stays within it. Over `KeysSpec`, `KeysFollow` by what each
  step does to the last word on its way about each key; `KeysImplementEvents` carries the
  device's own theorems over.
* `GoldfishMachineProofs`, interrupts: a byte or an event is followed to the CPU. A device's
  line is up exactly while it has something the guest wants to hear of; the latch is what the
  devices drive, less what DISABLE_ALL erased; a guest that has booted has enabled both
  lines and, for the tty, driven the line after its own DISABLE_ALL. From it
  `BytesNotStranded` and `OnlyEarlyEventsStranded`. `SnapshotHonest` is part of the
  invariant: only the handler lowers a line.
* `GoldfishMachineProofs`, framing: `FramingInv` says that the event queue is a ring and
  that, unless a reset has torn an event, what the decoder holds and the queue together are
  whole events. A reset empties the decoder, so it keeps this only if the decoder was
  empty, which is when `torn` stays down; `torn` goes down again only with both empty. From
  it `FramedUnlessTorn`.
* `GoldfishMachineProofs`, composition: every step of the machine is a step of the PIC's,
  of the tty's and of the abstract event queue's own specification, or leaves it alone
  (`MachineRunsPic`, `MachineRunsTty`, `MachineTtyIsIrqFifo`, `MachineEventsAreIrqFifo`). What
  was proved of the parts therefore holds of the machine: no interrupt lost or invented
  (`MachineInterruptsExactly`), the stream complete and in order across resets
  (`MachineKeepsStream`). Together with the machine's invariant this gives
  `MachineQuietIsDelivered`: a guest that is up and not interrupted has every byte that was
  sent, and the host is still being asked; it is what is left of `StreamDelivered` without
  fairness.
* `GoldfishTimerProofs`: `InStep` says that the guest's time is as far from the alarm as
  the clock is from `due`, without a wrap in between; `ReadersTime` says what `time_high`
  holds for two readers. From these all invariants and both action properties of the run.
* `GoldfishFbProofs`: from its flip to its next one the guest draws elsewhere than in the
  buffer in use (`GuestDrawsElsewhere`), which is whole (`BaseIsWhole`), and a refresh that
  began holds the half of that buffer (`ScanIsOfBase`). From it all invariants of the run.
  A guest that waits for its flip is being interrupted (`FbFlipIsAnnounced`), because its
  bit is set and enabled until the guest reads it and goes on (`FlipInStatus`).
* `GoldfishEnumerationProofs`: after OP_INIT the bus's position is what the driver has
  found, plus one between OP_ADD_DEV and the device's registers, and the latch is up
  exactly while the position is before the end. Before that the latch is down, because
  the controller's driver writes DISABLE_ALL first. From it both invariants of the run, and
  that a booted kernel which nothing interrupts has found all (`QuietKernelsAreComplete`);
  its steps are steps of the PIC's specification (`EnumerationRunsPic`).
* `GoldfishIntegrateProofs`: build files only grow, so what one step of a run has done is
  still done at the next (`Progress`), and a tree on which a run ended well needs nothing
  (`SettledIsComplete`). From it all invariants of the run and `Idempotent`.
  `ManifestAssumption` is needed: `add_once` looks for a file's name anywhere in a line, so
  no name of the manifest may be contained in another's, as none is today.

Model-checked only: liveness, that is `StreamDelivered`, `EventsServed`, `AlarmEnds`,
`FlipCompletes`, `VsyncComes`, `DevicesFound`, `CommandsEnd`, `Converges`. Liveness under
fairness is beyond the prover. Where it has a safety half it is proved: that something waits
implies that something is announced (`MachineQuietIsDelivered`, `QuietKernelsAreComplete`,
`FbFlipIsAnnounced`), or a measure that goes down (`DmaEachTurnAdvances`). The properties of
the two runs that show a disagreement, `MigrationKeepsVsync` and `AggregatorSelectsAll`, are
false. Everything else that a run checks is a theorem.

## 6. Not modelled

* The battery: `int_status` starts at zero and is only cleared, so its interrupt never
  rises and its registers read as constants.
* `compat.h`: the choices by `__has_include` depend on the tree's headers; the rest is
  declarations. Only the choices by version are modelled.
* The board's CPU, RAM and kernel loading, which are QEMU's.
* The integration script's messages and the detection of the source set's name
  (`softmmu_ss` or `system_ss`), which changes the wording of a line only. The rest of the
  workflow (containers, download, configure, make) runs other programs.
* The other workflows and the test tools, which have no state of their own.
* The conversion of pixels, and the vmstate of PIC, tty and events, which list plain fields
  and have no `post_load`.

## 7. What is left

1. A snapshot of PIC, tty and events in the middle of a handler, loaded into a new and
   into a running process: the CPU's own output line is not in the PIC's vmstate.
2. The timer's and the framebuffer's lines in the machine, beside the tty's and the event
   device's: their specifications compose with the PIC's in the same way.
