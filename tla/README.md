# TLA+ models of the power supply controller

The controller (PSC) drives up to four magnet power supplies. Gateware (VHDL,
`src/hw/hdl`) samples ADCs at 10 kHz, drives DACs, watches interlocks and writes
every sample to a ring in DDR. Software (C, FreeRTOS and lwIP, `src/sw/src`) on
the ARM core serves TCP clients, changes settings, keeps them in QSPI flash and
sends waveforms. All paths below are relative to the repository's root;
`PROJECT.json` maps each definition to its lines.

## Inventory

| Component | State | Operations | Interaction |
|---|---|---|---|
| PSC server (`listener.c`) | `clients_used`, `clients[]`, `sendguard`, sockets | accept, alloc, free, receive, `psc_send`, `psc_send_one` | one thread per client, daemons push through it |
| Framing (`pscmsg.c`) | none (stream position) | send/receive whole messages, skip | under every send and receive |
| Dispatch and boot (`main.c`) | registers | `client_msg`, `on_startup`, `realmain`, `main` | calls settings, restores flash before the server starts |
| Settings (`control.c`) and flash (`qspi_flash.c`) | registers, `scalefactors[]`, four flash sectors | one message per setting, WRITE/READ_QSPI, boot restore | any client thread and the console, no lock |
| DAC (`control.c`, `smooth_ramp.vhd`, `dac_chan.vhd`, `dac_gainoffset.vhd`) | mode, setpoint, phase increment, ramp pipeline | `Set_dac`, `Set_dacOpmode`, 10 kHz trigger | software writes registers the ramp reads live |
| Ramp table (`write_ramptable`, `ramptable_ramp.vhd`) | table, length, address and data registers, player | load, set length, run, 10 kHz trigger | clients share the registers, the player reads the table while it is loaded; one input of the DAC multiplexer |
| Flavour (`i2c.c`, `console.c`) | four EEPROM bytes, their registers, two conversion factors | set a byte, clear and test the EEPROM, `ReadHardwareFlavor` | the factors scale setpoints (`control.c`) and telemetry (`sadata.c`) of threads that interrupt the console |
| Interlocks (`fault_block.vhd`, `fault_module.vhd`, `digio_logic.vhd`, `pulse_enable.vhd`) | counters, live and latched faults, masks | 10 kHz sample, clear, mask, limits | opens the contactor, triggers a waveform |
| Waveforms (`adc2ddr.vhd`, `ps_io.vhd`, `snapshots.c`) | ring, latched addresses, `TriggerInfo` | write a sample, latch, poll, copy, send | only time separates writer and reader |
| Telemetry, discovery, SD card, other I2C devices | registers, files | periodic messages, boot-time reads | daemons of the server |
| Timing (EVR, 10 kHz selection), FOFB receiver, ADC paths | clocks, time stamps, packets | decode, count | feed the parts above |

What is hard here: threads that share sockets and descriptor numbers; registers
that software writes in two steps while gateware reads them every clock; a ring
that nobody stops; edges, counters and pipelines that are one clock apart;
erase-then-program with power that may fail; and messages that do not wait for
each other. `PROJECT.json` lists each hazard at its line.

What makes each part correct: a slot of the server belongs to one thread and a
descriptor to one connection; a fault that lasts opens the contactor at the
right sample and a clear removes all of it; a waveform holds the samples around
its trigger and each trigger is sent once; a save is what a restart restores;
a ramp goes to its setpoint and a setpoint is not lost; a run plays the table
that was loaded, to its last point; registers, factors and EEPROM agree about
what board this is.

## Modules

**ClientPool** is what the slots promise: a slot is given to a connection that
has none, and is given back. **PscServer** implements it. Its threads are the
acceptor, one handler per connection and the daemons; `pc` and `at` are their
program counter and slot, `sendguard` the mutex, `sock` the field of
`clients[]`. `C->sock = client` and `int sock = C->sock` are steps of their own,
outside the mutex, and so are `close(C->sock)` and `C->sock = -1`. lwIP is
external: `accept` takes the lowest free number, 0 is the listening socket.

**PscMsg** looks inside one receive and one send of that server: the stream of
one client arrives in pieces, `psc_recvall` takes what is there, and a header, a
body, the pieces that `psc_recvskip` drops and the rest of them are separate
steps, each of which may fail. The unit is a word of four bytes (a header is
two, a setting's address and value are two, a point of a ramp table is one;
lengths that are no multiple of four are left out), and a word stands for its
place in the stream, so that one can see which message `client_msg` acts on.
`Foreign` are words that an earlier client left in the slot. When
`psc_recvskip` receives more than its buffer holds, the thread's stack is
overwritten and its `pc` becomes `"undefined"`: nothing is said about what
follows. Slots, descriptors and the windows between them are left to PscServer.

**FaultBlock** is synchronous: `Clock` is one rising edge, on which all registers
move together; `Pipeline`, `SetpointRegs`, `ChangeFlag`, `ClearPulse`, `Counters`
and `Latches` are its processes. The pulsed power-on output (`pulse_enable.vhd`)
is a free input, without the counter that pulses it. The other actions are the
register writes of `chan_settings` and the inputs. Comparisons with thresholds are
Booleans that change with the sample. `streak`, `undercut` and `due` are history.

**Snapshot** has a writer (`StartBurst`, `FinishBurst`), trigger latches
(`Raise`, `Lower`) and the daemon of `snapshots.c` (`Wake`, `CheckTrigger`,
`SendWfmData`, `CopyDataChan`, `Send`, `SendSnapShotStats`). Addresses are slot
numbers; a copied sample is recorded by its distance from the trigger's, so the
ring needs no contents. The code polls the triggers kind by kind and sends them
channel by channel; the model uses one order for both, and no property depends
on it. The data cache is left out.

**Settings** has a program counter per thread for `WRITE_QSPI_MSG` and
`READ_QSPI_MSG`: each flash transfer and each register of the gather and
disperse loops is a step. A setting is a set of one-bits, so that programming
without erasing shows (it can only clear bits). The flash and
`XQspiPs_PolledTransfer` are external; a transfer may be refused while another
thread uses the controller, and the code does not look at the result.
`PowerLoss` may come at any step; `InitSettingsfromQspi` reads what is there.

**DacChannel** has the two commands of `control.c`, with reading the current
setpoint, writing the increment and writing the setpoint as separate steps, and
the ramp of `smooth_ramp.vhd` with its four pipeline stages. `Tick` is a 10 kHz
trigger. The CORDIC core is external: its answer to the present phase may come
before or after the next trigger. The ramp table and the feedback are free
inputs. Setpoints are integers of either sign; the correction of
`dac_gainoffset.vhd` cuts its results to 20 bits and applies the range check of
the 20 bit or of the 18 bit DAC (`GainOffset`). The phase increment goes through
a `float` (`ToFloat`, which may round it up beyond half a turn), and a setpoint
less than a sample away divides by zero, which gives 0 or 0xFFFFFFFF, that is -1,
to a phase that wraps at 32 bits (`PhaseInc`, `Wrap`). Ramps may be slower or
faster than one bit per sample. `samples`, `astray`, `held` and `asked` are
history.

**RampTable** has a program counter per client in `write_ramptable`: writing the
length, the address and the data register are separate steps of threads that
share these registers. A write of the data register stores a word; `Register`
is its width, `Saturated` the check before it, whose limits are one bit wider on a
board of 20 bits and one bit narrower on one of 18 (`limit`).
The player's trigger and the clock after it are one action, `Tick`, together
with the multiplexer. `dac_dpram` is external: its first word comes two clocks
after the start (`FirstWord`), and beyond its depth it may give anything
(`Answer`). `alone`, `loaded`, `played`, `since` and `late` are history: the table
in place if it is not a mixture of two, and what was played of it from where.
The other sources of the multiplexer are left to DacChannel.

**Flavour** follows `main` while it boots and then the console (`pc`) through
`ReadHardwareFlavor` and the entries of the menu that change something. A read or
write of the EEPROM may fail unnoticed, and a byte that is being written when
power fails may get any value. The console has the lowest priority: `Runs` says
that no other thread is in the middle of its work, and clients (`Set_dac`,
`SetScale`) and telemetry (`ReadSetpt`, `SendData`) may come between any two of
its steps. `Set_dac` is called by a client and by entry K of the menu
(`receive_console_cmd`); its two checks, the clamps, the conversion and the write
are steps of their own, each of which reads the scale factor again, while another
client may change it. Of the other messages entry K can send, only the scale
factor matters here, and is covered by `SetScale`. Setpoints have either sign and
are cut towards zero as C does; `Dac` is `dac_gainoffset.vhd` with gain 1 and no
offset. The history `setBy` is what a setpoint was computed from, and `steady`
that its scale factor did not change under way.

`MCDacChannel` gives a cosine table, `MCRampTable` the tables to load and
`MCFlavour` the setpoints and what the stack held; the other modules are run as
they are. Definitions that are introduced as "Variant" are
broken forms of the definition after them; nothing uses them. They are there to
show that each property notices the fault it is meant for.

## Runs

| Run | Shows |
|---|---|
| `server_safety` | each used slot has one owner (`SlotOwnership`); a handler's slot holds its own descriptor or -1 (`SockFollowsHandler`); until a send fails, descriptors denote the right connections (`OwnDescriptorUntilSendError`); no slot changes during a fan-out (`FanoutSeesOneSet`); the slots implement `ClientPool` (`ImplementsPool`); a leaving handler ends (`LeaverEnds`) |
| `server_wake` | fails: a closed descriptor's number is reused and the handler waits on another client's connection (`CloseWakesHandler`, comment at `listener.c:251`) |
| `messages` | messages are dispatched once, in order and with the beginning of their own body (`Framed`); settings are made of their own client's words and tables are whole (`ActsOnOwnWords`); what the peer receives is whole messages (`WholeMessages`); what has arrived is dispatched (`MessagesServed`) |
| `messages_skip` | fails: a timeout while a long message is skipped does not end the client (`pscmsg.c:72`, comment at `listener.c:149`) |
| `fault` | channel 1: `TripsOnTime`, `TripOpensContactor`, `ClearLeavesNothing`, `ParkedIgnoresError`, `PersistentFaultOpens` |
| `snapshot` | a waveform holds the samples of its window that the polls leave time for (`WindowExact`); no trigger is captured twice (`CapturesFreshTriggers`); a noticed trigger gets its waveform (`TriggersServed`) |
| `snapshot_ring` | fails: the writer visits 200001 slots, the reader wraps at 200000 (`adc2ddr.vhd:180`) |
| `settings` | `LoneSaveSticks`, `RestartRestores`, `SaveKeepsSettings` |
| `dac` | a ramp only approaches its target, unless its increment became negative (`RampMonotone`); a setpoint changed during a ramp gets its own (`ChangedSetpointServed`) |
| `dac_short` | fails: a ramp ends while its last points are in the pipeline, short of its setpoint (`RampReachesSetpoint`, `smooth_ramp.vhd:160`, comment at line 146) |
| `flavour` | when the menu is shown, registers, pulse output and factors agree with each other and with the EEPROM (`FlavourInForce`); a setpoint stays in the converter's range if the scale factor does not change between check and use (`SetptWithinScale`); telemetry gives back the setpoint that was asked for (`TelemetryTrue`); a stored resolution comes into force (`SetTakesEffect`) |
| `ramptable` | a load that met no other is complete, for points within the register and the saturation limit (`LoneLoadSticks`); a run plays the table in place point by point (`RunPlaysTable`), ends with the last point at the DAC (`RunLandsOnLast`), and ends (`RunEnds`), unless the length is 65535 |

A run that fails states what a comment in the code says; the counterexample is
the finding of that name in `PROJECT.json`.

### Bounds

- Server: one slot and three connections are the least with a full pool, a
  dropped client and a reused slot; two descriptors beyond the listening socket
  are the least with a reused and a refused one. Every safety property of this
  run, the refinement included, is proved for any sizes.
- PscMsg: the smallest buffers that keep the code's proportions (`rxbuf` is two
  words longer than the longest table), body lengths below, at and above
  `rxbuf`, with and without the loop of `psc_recvskip`; two messages per
  connection, so that the second shows what the first left, and any number of
  connections; the handler's greeting and one daemon compete for the mutex.
- FaultBlock: one PI loop check, which has all the gates; counters of 0..2
  instead of 16 bits, so that they wrap; a period of four clocks, the least that
  lets the trigger's pipeline drain. The theorems cover every value.
- Snapshot: one trigger signal, a small ring and windows that cross its end on
  both sides. A delay covers fewer samples than a poll counts (`DelayPts` <
  `PollDiv`), as in the code: its 10 kHz trigger is really 9.9617 kHz
  (`main.c:171`), so that a delay of 100 ms covers 996 samples and not 1000, and
  50 of them leave time for 49808 samples of 50000 (`Due`). See the hazard at
  `snapshots.c:353`. Any number of triggers is covered by the proofs.
- Settings: one channel, two settings (one before, one after a write by another
  thread), two threads, one bit per setting.
- DacChannel: half a turn in seven increments and a phase that wraps at ten, a
  float of two bits that rounds up and down, setpoints on either side of zero,
  some of them less than a sample from what the DAC has (a range check and an
  offset that take effect see to that), two threads and `MaxCmds` = 3 commands:
  enough for a ramp, a change or a second increment while it runs, and a mode
  change. `dac_short` needs one command.
- RampTable: a table of two words, addresses up to 3 (so that lengths beyond the
  memory and the wrap happen), words of one bit and a limit of twice or of half
  that, one per resolution (so that points in range, folded and saturated ones
  happen), two clients. All but
  `RunEnds` is proved for any sizes.
- Flavour: the two bytes that code depends on (`Before` and `After` are empty), two
  scale factors, setpoints of either sign that one of them saturates and the other
  does not, one content of the stack for a failed read, and `MaxCmds` = 2 commands
  per power-up: a setpoint and a change of the scale factor under way, or two
  setpoints, from a client and the console. All but `SetTakesEffect` is proved for
  any bytes, contents, conversion factors, positive scale factors, setpoints of
  either sign and number of commands.

### Fairness

Threads that can run do so (`WF` on their steps). A FreeRTOS mutex goes to its
waiters in turn, hence `SF` on the steps that take `sendguard`; all waiters have
the same priority. A send ends, because of `SO_SNDTIMEO`, and a receive on a
closed socket fails. Nothing is assumed of peers, of a receive on an open
connection, of triggers or of commands. The clock and the 10 kHz trigger do not
stop. A client that has started a DAC command or a table goes on. The console
may be interrupted at every step by threads of a higher priority; each of them
blocks again and again (in `recv`, or for 95 ms), hence `SF` for its steps. Nothing
is assumed of the operator, of the start-up or of the power.

## Proofs

`tlapm` checks the following for all values of the constants that satisfy the
named assumptions of each module.

- **PscServerProofs**: `TypeCorrect`, `SlotsOwned`, `FanoutStable`, `SockFollows`,
  `DescriptorsOwn` and the refinement `PoolImplemented`.
  `SlotOwnership` alone is not inductive: the invariant `IInv` adds the types,
  that each kind of thread stays at the labels of its kind, that the mutex is
  held exactly between the lock and unlock of the two send routines, that the
  acceptor's connection has no handler before `SpawnHandler`, and that a thread
  that holds a slot has a valid index. Then alloc, spawn and free each move bit
  and owner together, and a step that takes the mutex excludes a fan-out. That a
  slot holds its handler's descriptor is needed to see whose descriptor a
  handler closes, so `DescOK` (until a send fails, each live connection has an
  open descriptor of its own) is a part of the invariant. For the refinement,
  alloc maps to an acquisition, free to a release and every other step leaves
  the holders of all slots alone.
- **PscMsgProofs**: `TypeCorrect`, `MessagesFramed`, `ActsOnOwn`, `MessagesWhole`,
  for any number of messages and threads. `Framed` speaks of the call of
  `client_msg` only. The invariant says of every step of `psc_recvmsg` how many
  words separate the position in the stream from the end of the message, and what
  `rxbuf` holds (`SyncOK`); that messages follow each other in the stream, so the
  words after one are the header of the next (`QueueOK`); and whose words the
  peer has a part of (`TxOK`). After a failed `recv` in its loop `psc_recvskip`
  never comes to its end, because it would first receive more than its buffer
  holds: this is why the error does not break the framing.
- **FaultBlockProofs**: `TypeCorrect`, `TripOnTime`, `ContactorOpens`,
  `ClearIsComplete`, `ParkIgnoresError` (for every channel but 2). The invariant
  relates counter and streak (equal until the limit), and live, latched and masked
  bits by the clocks that separate them. `ClearIsComplete` needs that
  `clear_pulse` only ends at a sample.
- **DacChannelProofs**: `TypeCorrect`, `RampOnlyApproaches`, `StopsShort`. The
  types need that the last point is at phase zero and that a phase above zero is
  never handed to the CORDIC, whatever the increment. For the ramp, `PipeOK` says
  that the stages of the pipeline hold points of the present ramp at cosines that
  do not grow from stage to stage; a higher cosine is a point nearer to the target
  for either direction and sign (`Nearer`), and only a trigger moves the output.
  The phase has to grow for this: with the increment -1 the ramp is `astray`, and
  nothing is said. That the raised cosine does not fall is an assumption on the
  external CORDIC. `StopsShort` says where the ramps of the finding `dac_short`
  end (`RampLandsShort`, in the proof module). It needs no count of samples:
  `StopOK` says that the phase is a whole number of increments, and that each
  stage holds the point of the phase as many increments back as it is stages
  behind, or one more where the CORDIC answered after the next sample. The ramp
  ends in the step that would pass half a turn, from the last multiple below it,
  so where the output stands then is known.
- **SnapshotProofs**: `TypeCorrect`, and `NoDoubleCapture` from the invariant
  that a register that latched nothing since its last capture still holds the
  captured address. `ExactWindows` and `WaitsForPolls` rest on an invariant in
  five parts: the published address is the slot being written or the one before
  (`WriterOK`); a latched and a captured address lie as many slots behind the
  writer as samples were written since (`LatchOK`, `CaptureOK`); a captured
  trigger has seen `DelayPts` samples for every poll it counted (`WaitOK`); and
  the copy has come to the end of some segment of `ReadDMABuf`, each entry so far
  being the sample `Expected` there (`CopyOK`). That a slot of the window holds
  its sample (`SlotHolds`) is then arithmetic on the ring of `Ring + 1` slots.
  `ExactWindows` promises the entries up to `Pre + Due`, where `Due` is what
  `posttrigpts/1000` delays of `DelayPts` samples leave time for, and no more than
  `posttrigpts`; it needs no assumption on `DelayPts`. The code's `Due` is 49808 of
  50000 samples (and 7969 of 8000), if no delay is shorter than 100 ms. Entries
  beyond it are whatever the ring held.
- **SettingsProofs**: `TypeCorrect`, `LoneSaveComplete`, `RestartRestoresKept`,
  `ReadBackHarmless`. What a save leaves depends on who else was in the flash,
  so the invariant says five things besides the types: a thread under way knows
  its channel and a save has marked its sector; a thread that met nobody is the
  only one active; what each step of such a thread implies about latch, busy
  sector and contents (`FlashIs`); a sector that is not spoiled is at rest and
  holds what was kept; and a gathered setting that nobody wrote since is still
  equal to its register. The third gives `LoneSaveSticks`, the fourth
  `RestartRestores`, the fifth `SaveKeepsSettings`. A sector is spoiled by a save
  that power interrupted or that met another access, until the next undisturbed
  one: nothing is said of what it restores.
- **RampTableProofs**: `TypeCorrect`, `LoadComplete`, `PlaysTable`, `LandsOnLast`.
  The invariant adds that a load that met nobody is the only one, that its
  length and address are in force and its points so far are stored (`LoadOK`);
  that nobody loads while a table is in place (`PlaceOK`); and that an idle
  player is reset and its output is the last point played (`PlayOK`). The
  address does not wrap because a table is shorter than the largest address. The
  limit of the saturation check is any number, above or below the register's
  range; a point beyond either is not promised (`InRange`).
- **FlavourProofs**: `TypeCorrect`, `InForce`, `StaysWithinScale`, `TelemetryIsTrue`.
  `FlavourInForce` speaks of the menu only; the invariant says for every place in
  `ReadHardwareFlavor` which factors are set (`FactorsOK`), what is copied and from
  what (`CopyOK`) and whether the output is pulsed (`PulseOK`). For the setpoint it
  says what each caller of `Set_dac` has established so far if the scale factor
  did not change under way (`CallOK`), and what register and telemetry were
  computed from (`RawOK`, `DataOK`). The rest are lemmas about division towards zero
  and about words of the DAC.

Only model-checked: all liveness (`LeaverEnds`, `MessagesServed`,
`PersistentFaultOpens`, `TriggersServed`, `ChangedSetpointServed`,
`SetTakesEffect`, `RunEnds`), which needs fairness and so is out of the prover's
reach. Every other property of a passing run is stated by a theorem.

## Not modelled, and the plan

In this order:

1. `Timing`: time-of-day receiver, event decoding, marker watchdog and 10 kHz
   selection; `FofbRx`: the UDP packet state machine and the scale factor
   register that `QspiDisperseData` does not update (`qspi_flash.c:351`).
2. `Boot`: SD card and EEPROM synchronisation with power loss (`EEPROM.NEW` is
   deleted even if it was not applied, `sdcard.c:233`); discovery.

Seen while modelling, without a run of its own: the fault block of channel 2 is
given the park output of channel 1 (`fault_module.vhd:76`), so that a parked channel 2
still reports a PI loop error, against the comment at `fault_block.vhd:258`
(`ParkedIgnoresError` is violated for `Chan` = 2); a scale factor that is changed
between the check and the conversion of `Set_dac` lets a setpoint beyond full scale
through (`control.c:269`; `SetptWithinScale` excludes it); an invalid resolution
leaves the DAC at 18 bits, bit 0 of the 2 that is written, while the factors stay what
they were (`i2c.c:250`); the DAC's offset is restored from flash as raw bits
whatever the resolution (`qspi_flash.c:308`), so that a setpoint register of 0 need
not be 0 volts; scale factors that are zero or negative are accepted and not
modelled; an unchanged setpoint register
starts no smooth ramp, although `control.c:185` says that writing it does
(`smooth_ramp.vhd:131`); tables for channels 2 to 4 are dropped (`main.c:80`); the
ground current threshold is written and reported with different scale factors
(`control.c:543`, `sadata.c:152`); three digital outputs are reported from the
registers of others (`sadata.c:170`); pulsing of ON2 is never switched off when a
board becomes bipolar (`i2c.c:281`); clearing the EEPROM does not read the flavour
again (`console.c:179`).

Left out for good: serial interfaces of external chips (ADC, DAC, other I2C
devices), fixed point data paths, generated register code, the top level's wiring,
the third-party TFTP server (not started), and the text of console and log output.
