# Formal model of the current meter

The repository holds a step-down converter that measures charge by counting
pulses (`FW_STVD`, firmware for an STM8L in C) and the PC program that sets it
up, polls it and calibrates it over a serial line (`CT PC soft`, C++ Builder).
This directory holds TLA+ models of both, TLC configurations, and TLAPS proofs.

Run a check with `tlc -config X.cfg M`, a proof with `tlapm M_proofs.tla`.

## 1. The system and its parts

```
 user -- buttons --> form ---- mailbox thr_cmd_job ----> command thread
                                  ^ one-shot timer          | processcommand
                                                     serial thread
                                                        | requests, answers (RS-232)
 receive interrupt -> RxBuffer -> main loop -> handler -> TxBuffer -> transmit interrupt
 TIM3 interrupt -> Pulse -------> main loop -> PulseCounter -> PulseCount (DATA_READ)
 RTC interrupt  -> RTC_Flag ----> main loop      handler -> EEPROM, DAC, wake-up timer, LCD
```

| part | state | operations | what is hard | what makes it correct |
|---|---|---|---|---|
| receiver and command loop (`uart.c`, `commands.c`, `main.c`, `timers.c`) | RxStatus, RxPointer, RxCount, RxBuffer, F_Comm, Tim2Flag | USART1_RX_Interrupt, checkpacket, handlecommand, clearRxBuff, TIM2OVF_ISR | interrupt and main loop share everything without a lock; lost and damaged bytes; no timeout between bytes | no byte outside the buffer; only what was asked is executed; a fault is overcome |
| transmitter (`uart.c`, `commands.c`) | TxBuffer, TxPointer, TxCount, TxBusy | sendpacket, putpack, USART1_TX_Interrupt | the buffer is filled while the interrupt may be reading it; busy wait | every reply goes out as composed; the wait ends |
| parameters (`eeprom.c`, `dac.c`, `main.c`) | PARAMS, EEbuffer, Voltage, Mtime, calibration, DAC, wake-up reload | ee_read, ee_pgm, readparameters, updateDAC, setWKUP, VT_SET, CAL_SET | power failing while bytes are programmed; stale copies | copies agree; a set command keeps the other fields; the DAC's range holds |
| pulse counting (`timers.c`, `rtc.c`, `main.c`) | Tim3Phase, Pulse, PulseCounter, PulseCount, RTC_Flag | TIM3OVF_ISR, RTC_irq, main loop | one-bit hand-over between interrupt and loop | never counted twice; nothing lost while the loop is in time; windows end at the wake-up |
| display (`ecma0896.c`, `itoa.c`) | four rows of twelve characters | updVolt, updTime, updCnt, updCurr, cls | rows rewritten from several places over older, longer texts; sixteen-bit int | the display shows what VT_READ and DATA_READ report |
| serial layer (`Unit_Serial.cpp`) | request, answer, two events, txcount, rxcount, port, thr_exit | processcommand, tx_proc, rx_proc, serial_init, serial_uninit | two threads, timeouts that race late answers, damaged answers, globals that outlive a session | at most once; one at a time; the right answer; nothing that went wrong lasts |
| command thread, timer, buttons (`Unit_Cmd.cpp`, `Unit_main.cpp`) | thr_cmd_job, thr_cmd_event, the timer, enabled buttons | SetThrCmd, set_thr_cmd, SetThrTimer, TimerProc, Execute and its jobs, the click handlers | three writers of one mailbox; Synchronize; a synchronous kill under a lock | no command lost to the timer; no polling behind a stopped form; polling goes on |
| form (`Unit_main.cpp`) | comm_txbuff, the settings shown, CmbCom, the lock's and the event's life | the set buttons, CmbComChange, FormShow, FormDestroy | a buffer filled without the reader's lock; a lock that is never left, or deleted under the thread | a request carries its own parameters; settings sent are the device's; a clean end |
| pins, RTC calendar, log file, INI file | - | - | register writes, Windows API | not modelled, see section 8 |

The parts meet in few places: the receiver starts a handler, the handler's reply
goes to the transmitter, a set command goes to the parameters, DATA_READ reports
PulseCount; set commands and the end of a window rewrite the display; on the PC
every job of the command thread is one call of processcommand. Each module below models one part with its neighbours as
environment.

## 2. Modules

| module | models | abstract specification |
|---|---|---|
| `UartRx` | receive interrupt, main loop and TIM2, statement by statement; a host and a line that loses, damages or cuts bytes | `RequestReply` |
| `Crc8` | compCRC, as a recursive function over the bits | |
| `UartTx` | filling of TxBuffer, sendpacket, the four statements of putpack, the transmit interrupt | `FrameSender` |
| `Eeprom` | the image byte by byte, RAM copies, DAC and wake-up period, power failures | `ParamStore` |
| `Lcd` | itoa, dwtoa, lcdprintstr and the four upd functions, as functions of a row | |
| `Panel` | `Eeprom` beside the display: who rewrites which row when | `Eeprom` |
| `PulseCounter` | TIM3OVF_ISR, RTC_irq and the loop's statements on their flags | |
| `SettingsWindow` | `PulseCounter` with VT_SET in any round of the loop | |
| `SerialHost` | processcommand, tx_proc, rx_proc and their events; a device that answers late and a line that damages answers | |
| `SerialSession` | `SerialHost` from serial_init to serial_uninit, several times over | |
| `CmdThread` | mailbox, event, timer, lock, jobs, buttons | |
| `CmdForm` | `CmdThread` with comm_txbuff, the settings shown, CmbComChange and FormDestroy | |
| `MCUartRx`, `MCUartTx`, `MCPanel`, `MCSerialHost`, `MCSerialSession` | the instances TLC checks | |
| `UartRx_proofs`, `UartTx_proofs`, `Data_proofs`, `Eeprom_proofs`, `Panel_proofs`, `PulseCounter_proofs`, `SerialSession_proofs`, `CmdForm_proofs` | the theorems; `Data_proofs` is about what `Crc8` and `Lcd` compute | |

`Panel`, `SettingsWindow`, `SerialSession` and `CmdForm` extend a module by the
parts around it: their steps are the steps of that module with what they do to
the new variables, and steps that leave the old variables alone. The runs check
the extended modules, so the properties of the inner ones are checked there.

Variables and actions have the names of the C code. An interrupt handler is one
action: the interrupts of the firmware do not nest. The main loop has one
action for each statement that an interrupt can tell from the next, and `pc`
says which comes next. On the PC a section under a critical section is one
action when nothing inside it can block; where a kill of the timer blocks inside
one, taking the lock is an action of its own. Operators whose names carry a
suffix (`checkpacket_withoutCrc`) are wrong versions of the operator that
follows them; PROJECT.json says which property notices each of them.

History variables record what no code stores: what was asked and executed
(`UartRx`), the frame as it was composed (`UartTx`), the image before a set
command (`Eeprom`), what was sent and whether the loop was late (`PulseCounter`),
the setting each pulse was sent under (`SettingsWindow`), the requests that went
out and the answers that were returned (`SerialHost`), since when calls are in step
(`SerialSession`), the last click and the last command taken (`CmdThread`), what
was under way when calibration was entered and when the form was destroyed
(`CmdForm`).

## 3. The firmware's side

**UartRx.** `rec_pref` .. `rec_param` and `nocommand` are the states of the
interrupt's switch. `handlecommand` writes `RxStatus=0` before the handler reads
its parameters, so bytes that arrive then go into the buffer being read;
`clearRxBuff` is four statements and runs twice, once in sendpacket and once at
the end of handlecommand. Two environments are used. A host that waits
(`HostWaits`) asks again only after the reply or its timeout, which outlasts any
handler. A host that does not wait sends whenever it likes.

- `ImplementsRequestReply`: towards a host that waits all of this is invisible.
- `CleanAfterReply`: after a reply the receiver is as fresh as at power-up.
- `WaitInv`: until the line first fails a byte finds the device at rest (`Resting`) or
  receiving its request from the start of the buffer (`Receiving`), and while it
  executes (`Working`) nothing arrives. This is why the early `RxStatus=0` and the two
  clearRxBuff do no harm. `PacketAssumption` says what such a host's requests are:
  packets of the command table whose check byte tells a single damaged byte.
  `KeepsFraming` are the faults under which this goes on to hold: a request lost
  whole, a reply lost, one byte behind the command damaged. A truncated request, a byte
  lost or the header damaged leave the receiver inside a packet; those remain with TLC.
- `ParametersUntouched`: no step stores into RxBuffer while a handler is still to read it.
  Without the check byte (a mutant) it fails: a damaged command byte ends the packet early,
  and the rest of the request arrives over the parameters.
- `Recovers`: after the last fault requests are executed again and again. The
  requests of this run do not contain another packet among their parameters; for
  a VT_SET with the parameters 49, 1, 197 the property fails, because the 8-bit
  check can accept a misaligned packet again and again.
- `NoOverrun`: nothing in the interrupt compares RxPointer with the buffer size,
  and RxPointer is not 0 at every start of a packet. `RxInv` says why it
  nevertheless stays inside: three longest packets fit.

That a receiver in status 4 ignores bytes until the command is executed
(uart.c:134) is not so from commands.c:93 on; the model has the early reopening,
and `ImplementsRequestReply` and `NoOverrun` are about what it may not do.

**UartTx.** The handler fills TxBuffer without looking at TxBusy. `hasty`
becomes 1 when a host asks before the last reply is over; its reply may then be
garbled, and the histories `frame` and `line` stop. For a host that waits
`ImplementsFrameSender` says that every reply goes out unchanged. `BusyMeansSending`
and `HandlerReturns` hold for every host. A byte lasts 87 us at 115200 baud, so
`EndOfByte` does not come between the two stores of putpack (uart.c:71-72).

**Eeprom.** `EraseByte` and `WriteByte` are the two loops of ee_pgm; between any
two of them `PowerFails` may strike. `Coherent` relates RAM, DAC, wake-up reload
and image whenever the device can answer. `ParamStore` says what a set command
promises: the other fields are kept, and after a power failure voltage and
measuring time are not above both old and new value. The calibration may come
back damaged whatever the command was: that is a promise the code does not make.

**PulseCounter.** A pulse is handed over in one bit, which the next overflow
clears. `late` becomes 1 when an interrupt comes before the loop has looked.
`NeverMoreThanSent` holds always; `LosslessUntilLate` and `WindowEndsAtWakeup`
until then.

**SettingsWindow.** VT_SET touches neither PulseCounter nor Pulse nor RTC_Flag.
Every pulse belongs to the setting it was sent under. `SecondCountIsClean`: the
first count after a VT_SET may be mixed, the second one is not, wherever in a
window the command came.

**Lcd and Panel.** A row is twelve characters; of labels and units only the length
is kept, digits, minus signs and blanks are exact. `PanelApply` is VT_SET's last
lines: updateDAC writes row 1, updTime row 2. CAL_SET shows nothing.

- `ShowsSettings`, `ShowsCount`: a reader of the display sees the numbers that
  VT_READ and DATA_READ report. Two exceptions are stated in the properties: a
  period of 32768 s or more is shown as a negative number (itoa takes an int), and
  a count of more than seven digits loses its last ones at the end of the row.
- `RowsCurrent`: what is on the display is what the last write on a clear display
  would give, so nothing of an earlier text survives.

## 4. The PC's side

**SerialHost.** The caller and the serial thread run statement by statement;
events are manual-reset. A timeout may fire early, that is, while an answer is
still to come, `MaxEarly` times; otherwise only when nothing is due. A damaged
answer is reported as CRC, LEN or WRONG, and a WRONG one leaves a rest in the
driver that is read as a second answer (`torn`). Data bytes are abstracted to
their number, the thing by which one request's counters can spoil another's.
`pending` is the queue of requests the device has not answered, `inbox` what the
driver has received; both are in the order of the line. WriteFile may fail or write
too little: the device answers nothing, and the call returns the error that
`thr_tx_stat` carries. (What a device makes of half a request is the business of
UartRx.) `WaitTx` waits for the event and reads the status in one step: a status that
the thread changes in between is one that a later step would read.

- `AtMostOnce`, `ResultsAdvance` hold whatever the timeouts do: no request is sent
  twice or after a later one, no answer is returned twice or after a later one.
- `CorrectInStep`, `OneAtATime`: while no timeout has fired early and no answer
  was torn, every call gets its own answer and requests do not overlap.

**SerialSession.** The thread that calls processcommand opens and closes the port
between two calls. serial_init starts the serial thread before it creates the
events (`port = "starting"`); what the thread sets then is lost, and no call is made
before. The globals keep what the session before left in them.

Nothing is closed under the running thread (`PortHeld` in `StepInv`). The model
takes from the code that the thread ends within the two seconds
serial_uninit waits: ReadFile's total timeout is 17 ms, and WriteFile has no flow
control to wait for. If it did not, TerminateThread would be
given the address of the handle (line 166) and do nothing.

- `QuietResyncs`: nothing that went wrong lasts. After the device has answered what it
  owed and no posted request was left, opening the port again makes answers right
  again, because PurgeComm drops what the driver holds. And whenever a call begins
  with nothing under way it is in step again, because serial_before_transmit resets
  the events: also after a request that a session left behind, which the next one
  sends before its events exist, so that its tx_event and its answer's rx_event are lost.

**CmdThread.** `post[p]` is the place of the form and of the thread in
SetThrCmd: waiting for the lock, in timeKillEvent, before SetEvent. Updates of the
form (Synchronize) run only when the form is in no handler. DeactivateMainPage
posts THR_CMD_NOTHING from the form's thread while the job waits. `InitialButtons`
is what `Unit_main.dfm` leaves enabled; the user may click any enabled button.
The timer was armed with TIME_KILL_SYNCHRONOUS: `KillAndStore` waits while
a callback is in flight.

- `TimerNeverOverwrites`: the synchronous kill is what keeps a poll of the timer
  from replacing a command (the asynchronous mutant shows it).
- `PollingStopped`: whatever was clicked in between, a form that offers Start or
  Open has no polling behind it.
- `KeepsPolling`: a started measurement goes on, for every sequence of results.

**CmdForm.** `comm_txbuff` says whose parameters are in the buffer that both set
buttons fill without a lock and processcommand copies (`CopyParameters`).
`edtVT` says whether the settings shown come from the device: JobOpen shows the
old buffer when VT_READ was not answered. CmbComChange without a selected port
returns with the lock; the form itself can enter it again, the others cannot.
FormDestroy is three steps (kill, Terminate, close and delete) beside a thread
that may be at work.

- `SettingsFromDevice`: stale settings may be shown, but the Set button is enabled
  only over settings the device reported.
- `OwnParameters`: a set request carries the parameters of its own button. The
  exception is stated: calibration entered while a start or a stop is under way
  leaves both set buttons enabled.
  Filling and copying are one step each: a copy torn by a second click on the same
  button is not in the model.
- `OpenObeyed`: after a close, a click on Open is taken up.
- `CleanExit`: if nothing was under way the deleted lock is not used. If something
  was, the thread may use it; no text of the repository says otherwise.

The price of the synchronous kill is a deadlock: set_thr_cmd holds the lock, the
callback waits for it in TimerProc, and timeKillEvent waits for the callback.
The model has this state (`post["form"].at = "kill"`, `timer = "fired"`), and the
form and the thread are then stuck for ever. No text of the repository says that
it cannot happen, so no run expects it; `KeepsPolling`, `OpenObeyed` and `StopObeyed` ask
only for behaviours in which the form's handler returns. What the code does achieve is
`OnlyClicksDeadlock`: SetThrCmd and SetThrTimer kill the timer under the same lock from
the thread, and DeactivateMainPage does from the form, and none of these can meet the
callback, because the timer runs only while the thread waits. SetThrTimer's look at
the mailbox is what keeps it so (the mutant `SetThrTimer_always` shows it).

## 5. Runs

| run | shows | bounds, and why they are enough |
|---|---|---|
| `request_reply` | CleanAfterReply, WaitInv, ParametersUntouched, ImplementsRequestReply, Recovers | three requests (two with parameters), one fault at any byte: lost or damaged, the rest cut off, or the reply lost. One fault puts the receiver into every state a fault can leave behind |
| `rx_buffer_bound` | NoOverrun, RxInv | the shortest packets, a buffer of exactly three, a host that never waits, a check byte that accepts everything: the tightest case of the bound |
| `rx_silence` | finding | RXTIMEOUT 2 as in timers.h, one fault |
| `replies` | TxInv, BusyMeansSending, ImplementsFrameSender, EveryReplyEnds, HandlerReturns | a long, a short and an OK reply in any order, any timing of the next request; no bound on their number |
| `parameters` | Coherent, NeverBeyondDac, EepromInv, ShowsSettings, ShowsCount, RowsCurrent, ImplementsParamStore | voltages and times on both sides of the byte boundaries, a voltage above the DAC's limit, a time above 32767, counts of one and of eight digits; any number of set commands, windows and power failures; 13 of the 32 cells, the twelve that are used and one that is not |
| `pulses` | NeverMoreThanSent, LosslessUntilLate, WindowEndsAtWakeup, PulseInv, SecondCountIsClean | six pulses and two VT_SETs, so that several windows and late rounds fit, and a setting follows a window of the one before |
| `pulses_lost` | finding | six pulses |
| `serial_calls` | OrderInv, StepInv, CorrectInStep, AtMostOnce, OneAtATime, ResultsAdvance, QuietResyncs | three calls of three commands with different lengths, one early timeout, one fault (of the line or of a write), two openings: a late answer needs two calls, the third shows what stays behind, in the same session or in the next |
| `serial_stale` | finding | only the receive timeout fires early |
| `commands` | FormInv, TimerNeverOverwrites, OnlyClicksDeadlock, PollingStopped, SettingsFromDevice, CleanExit, OwnParameters, KeepsPolling, OpenObeyed | five clicks or choices of a port: open, stop, enter the calibration, and both set buttons; six were tried with the liveness properties and seven without, with the same result. The bound limits clicks only: polling goes on without one, and FormInv is proved for any number |
| `cmd_stop`, `cmd_calibr` | findings | three clicks |

`commands`, `cmd_stop` and `cmd_calibr` do not check deadlock: a program whose user
has stopped clicking waits, or has ended, and the deadlock above is part of the
model. `serial_calls` does not either: after the last call and the last session
the port is closed and nothing more happens.

### Fairness

- `UartRx.LiveSpec`: interrupts are served and the main loop never stops; the host
  program polls (the timer of `CmdThread`) and gives up after its timeout. The
  faults are bounded, not fair: they simply end.
- `UartTx.LiveSpec`: the UART shifts, its interrupt is served, a handler runs on.
  Nothing makes the host ask.
- `CmdThread.LiveSpec`: the thread, the timer and the form's handlers run on; the
  form gets the lock in the end (strong fairness, since polling takes and frees it
  over and over). Nothing makes the user click, and no result of the device is fair.
- `CmdForm.LiveFormSpec`: the same, with the form's own handlers; nothing makes the
  user choose a port or close the form.

## 6. Findings

| run | the text | the code |
|---|---|---|
| `rx_silence` | timers.h:6, a receive timeout of two ticks | main.c:91 only takes the flag down; a cut packet waits for the next request's bytes |
| `pulses_lost` | timers.c:87 "pulse sent, increment counter" | the interrupt sets a bit that it clears 21 us later; a longer round of the loop loses the pulse |
| `serial_stale` | Unit_Serial.cpp:513 "check correct answer" | only address and command are compared: the answer of a call that timed out passes for the next one's |
| `cmd_stop` | Unit_Cmd.cpp:483 "stop sending periodical requests" | the running job's SetThrCmd overwrites the waiting STOPMEAS |
| `cmd_calibr` | Unit_Cmd.cpp:475 "... then send periodical requests" | CAL_SET is sent and nothing follows; the click has killed the polling |

## 7. What is proved

For every value of the constants that satisfies the named assumptions:

- **UartRx_proofs** (`BufferAssumption`, `RoomAssumption`, `HostAssumption`: every
  packet of the command table fits three times into the buffer, tables and
  requests are bytes): `RxInvariant`,
  `TypeCorrect`, `BufferNeverOverruns`. `NoOverrun` is not inductive: RxPointer may
  stand in the middle of the buffer when a packet starts. `RxInv` adds `Base`, how
  far it can have been left behind at each statement of the main loop, that
  what a packet still lacks fits behind it, and that status 4 shields a packet
  from its check to the early `RxStatus=0`. The proof has one step per action.
  Towards a host that waits (`PacketAssumption`): `WaitingInvariant`,
  that `WaitInv` holds of every behaviour, and, for behaviours in which every fault of
  the line keeps the framing (`LineKeepsFraming`), however many there are,
  `WaitingWhileFramed`, `FreshAfterReply` (CleanAfterReply), `NothingOverwritten`
  (ParametersUntouched) and
  `DeviceImplementsRequestReply`: the device implements `RequestReply`. `Waiting` is a
  disjunction of three predicates, each action leads from one of them to one of them,
  and the abstract steps are those that lead from `Receiving` over `Working` to `Resting`.
- **Data_proofs** (no assumption): what the recursive functions compute, for arguments
  of every size. `CheckByteIsByte`: compCRC gives a byte. `OneDamagedByteIsFound`: a
  packet of any length with one byte replaced does not pass its check, so the assumption on the check
  byte in `PacketAssumption` is true of compCRC. The argument follows comp_crc bit by bit: a
  step is injective in the check byte, and its upper bits tell which data bits went in.
  For the display: `dwtoa` writes the decimal digits without leading zeros
  (`DwtoaLoop`, `DwtoaShape`), reading them gives the number back (`DwtoaValue`), how many
  there are (`DwtoaLength`), and which column of a row holds what (`RowShows`,
  `NumberShown`). The library's induction theorems take an operator as a parameter,
  which the provers cannot instantiate; `SetInduction`, derived from the well-founded
  induction over sets, says the same of a set of numbers, and the proofs use that.
- **Eeprom_proofs** (`ParamAssumption`): `EepromInvariant`, `AlwaysCoherent`,
  `ImageWithinDac`, `EepromImplementsParamStore`. The invariant says what each phase
  has done to the image (`Progress`), that RAM and registers still are those of
  the image before (`Applied`) and that all values are in range. The refinement
  needs that everything is erased before anything is written: a word of which
  one byte is there is below the whole one.
- **Panel_proofs** (those of Eeprom and `CountAssumption`, counts are unsigned longs of 32 bits):
  `PanelImplementsEeprom`, by
  which everything proved of Eeprom holds beside the display, `PanelInvariant` and
  `RowsAlwaysCurrent`. They rest on the first, on AlwaysCoherent and on the
  fact that a row written over a blanked one does not depend on what was there.
  `SettingsShown` and `CountAlwaysShown` then follow from the invariant: the row is
  what one write on a blank row gives, and `Data_proofs` says what a reader makes of it.
- **PulseCounter_proofs** (`PulseAssumption`): `PulseInvariant`, `NeverOvercounts`,
  `Lossless`, `EndsAtWakeup`. `PulseInv` relates the pulses sent to those counted, in
  hand and waiting at each statement; `InTime` says that between a wake-up and the
  copy of PulseCounter at most one pulse more is sent, because its overflow must
  change phase twice before another.
  Over `SettingsWindow` (`SetsAssumption`): `MeasuresThroughout`, by which all of this
  holds while VT_SET comes in any round of the loop, and `CleanFromTheSecond`. Its
  invariant, `SettingsInv`, says that a pulse of an earlier setting is counted in the first
  round after the command or not at all.
- **UartTx_proofs** (`TxAssumption`: every frame fits into TxBuffer; replies and check
  bytes are otherwise arbitrary): `TxInvariant`, `TypeCorrect`, `BusyTruth` for every
  host, and `SendsFrames`, that the transmitter implements `FrameSender`. `TxInv` says that
  while a reply is composed each byte of it is in place or still to be filled, the
  check byte last (`Filling`), that the buffer then holds the frame until it is
  out (`Composed`, `OnTheWay`), and that putpack finds the UART at rest (`Registers`).
- **SerialSession_proofs** (`HostAssumption`, `SessionAssumption`): `OrderInvariant`,
  `SentOnce`, `NeverBack`. `AtMostOnce` and `ResultsAdvance` are not
  inductive: a request in the thread's copy, or an answer in the driver, may be
  about to break them. `OrderInv` says of every station a request passes (mailbox,
  copy, line) that it holds later calls than what was sent, and of every station an
  answer passes (device, driver, thread, thr_rx_cmd, returned) that it holds
  earlier requests than the stations before it. A step moves one request by one
  station.
  In the same module `StepInvariant`, `AnswersInStep`, `WaitsForAnswer`,
  `ResyncsWhenQuiet`. `StepInv` says, for calls in step or since one that began quietly,
  what is under way at each statement of the caller: nothing before the
  request is posted, afterwards only the call's own request or answer, in exactly
  one place.
- **CmdForm_proofs** (`ClicksAssumption`): `FormInvariant`, `NeverOverwrites`, `ThreadNeverDeadlocks`,
  `StoppedMeansStopped`, `OnlyReportedSettings`, `RequestsCarryOwnParameters`,
  `DestroyedCleanly`. `MailInv` says who may be where in SetThrCmd, that
  the timer runs only beside an empty mailbox and a waiting thread, and that every command that waits, is
  being posted or is executed fits the buttons that are enabled, unless it is about
  to be overwritten by the job that changed them. `FormInv` adds the parameters, the
  leaked lock and the destruction.

Only model-checked:

- liveness (`Recovers`, `EveryReplyEnds`, `HandlerReturns`, `KeepsPolling`, `OpenObeyed`),
  which is out of the prover's reach;
- `ImplementsRequestReply`, `ParametersUntouched` and `CleanAfterReply` when the line loses or adds framing
  (a truncated request, a lost byte, a damaged header). They are then true of
  the requests and the check byte of the run, not of every one: an 8-bit check can
  accept bytes of two packets as one;
- the findings, which are counterexamples on the instances of their runs.

Every other property that a passing run checks is stated by a theorem. The type
invariants of `UartRx` and `UartTx` are checked as part of `RxInv` and `TxInv`.

## 8. What is not modelled

- Set-up of pins, clocks, timers, DAC and calendar: register writes. Their
  outcome (interrupts enabled, TC set after reset) is in the Inits. The pin timing
  of the display's writebyte and its controller's start.
- Lstruct, the message log of the serial layer: it is written and never read,
  since serial_init is given no window (Unit_Cmd.cpp:184).
- Failures of Windows itself: a thread, event or critical section that cannot
  be created (Unit_Serial.cpp:147 returns with the port open).
- The INI file, the registry's list of ports, and the log file with its two
  buttons. ActivateMainPage enables StartLog whether a log is open or not (Unit_Cmd.cpp:118),
  and JobGetDataUpdate copies its line over a string literal (Unit_Cmd.cpp:258).
- The numbers in the edit fields and the buttons that copy PulseCount into them.
- The memory behind PARAMS: EEBUFFERSIZE is 32 and PARAMS has 12 bytes.
- `main.h`, `rs485commands.h`, `usart.h` are left over from another program and not
  included; `HARD_V00` and `CC_HW` are hardware.

## 9. Plan

Order: the command path of the firmware first, what it sets, measures and shows
next, then the PC: serial layer, command thread, and the form around them. All of
this is done. Still to come:

1. a composition of the PC's polling with `SerialSession`, so that the values shown
   are related to the device's windows, and of the receiver with the transmitter;
2. the log file: its buttons, and JobGetDataUpdate while a log is being closed.
