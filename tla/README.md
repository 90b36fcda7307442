# A TLA+ verification of osmo-ccid-firmware

The repository is the firmware of the sysmoOCTSIM, a USB CCID reader with eight
card slots on an Atmel SAM E54: a bare-metal main loop, interrupt handlers, no
operating system. This directory models the part that makes it a card reader
and checks it with TLC; the main results are also proved, for every value of
the constants, with TLAPS.

## 1. The system

| Component | Code | State it keeps | Operations |
|---|---|---|---|
| USB endpoint queues | `sysmoOCTSIM/main.c`, `usb/class/ccid/device/ccid_df.c` | `free_q`, `out_ep.list`, `in_ep.list`, `irq_ep.list`, `in_progress` of each, `card_insert_mask`, `was_unconfigured_flag` | `submit_next_out/in/irq`, `ccid_out_read_compl`, `ccid_in_write_compl`, `ccid_irq_write_compl`, `reset_all_stuff_non_irq`, `poll_card_detect`, main loop |
| CCID dispatcher | `ccid_common/ccid_device.c` | `cmd_busy`, `icc_present`, `icc_powered`, `pars` of each slot | `ccid_handle_out`, one handler per message type, `ccid_slot_send_unbusy` |
| Slot operations | `ccid_common/ccid_slot_fsm.c` | `ss->seq`, `cs->event`, `cs->event_data` | power on/off, XfrBlock, set parameters, `iso_fsm_clot_user_cb`, `iso_handle_fsm_events`, insertion status |
| ISO 7816-3 FSMs | `ccid_common/iso7816_fsm.c` | state of the main FSM and its ATR, PPS, TPDU children, their buffers | one action per state, on events from the UART and from the slot |
| Card UART | `ccid_common/cuart.c`, `sysmoOCTSIM/cuart_driver_asf4_usart_async.c` | `tx_busy`, `rx_threshold`, wait-time hint and deadline; ring buffer, SERCOM registers | `card_uart_tx`, `card_uart_tx_abort`, `card_uart_ctrl`, `card_uart_wtime_*`, interrupt handlers |
| ISO 7816-3 tables | `ccid_common/iso7816_3.c` | none | F, D, fmax lookups |
| Smart-card interface | `ncn8025.c`, `i2c_bitbang.c`, `octsim_i2c.c` | register image per slot | set voltage, clock, reset; read presence |
| Ring buffer | `hal/utils/src/utils_ringbuffer.c` | read and write index | put (interrupt), get (anywhere) |
| Debug console, CDC, DFU, start-up code | `command.c`, `usb/class/{cdc,dfu}`, `driver_init.c`, ... | | |
| Host variants | `ccid_host/*` | | the same core on Linux |

**How they interact.** The host sends a command as a bulk-OUT message; the
completion interrupt appends it to `out_ep.list`. `feed_ccid` passes one message
per turn of the main loop to `ccid_handle_out`, which rejects it (no such slot,
slot busy, no card, wrong length), answers it at once, or starts an exchange
and sets `cmd_busy`. An exchange runs in the FSMs, which the UART interrupts
(byte received, threshold reached, transmission complete, error) and the
wait-time poll of the main loop drive. Its end is reported by
`iso_fsm_clot_user_cb` to `cs->event`, a mailbox with one place, which
`iso_handle_fsm_events` reads in a later turn: it sends the answer with
`ss->seq`, clears `cmd_busy`, on a failure powers the card down, and empties
the mailbox. `poll_card_detect` takes the insertion status to the slot and, on
a removal, resets the FSM, with a failure report if an exchange was cut off.

**What is hard in it.**
- Interrupts run between any two instructions of the main loop. Only the
  queues are guarded by critical sections; the mailbox, the FSM states and the
  wait-time fields are not.
- The mailbox is overwritten and cleared without a test.
- FSM events are subject to masks: an event or a state change a mask does not
  permit is dropped with a log line.
- What a failure cuts off (a transmission, a deadline, a receive threshold) is
  abandoned, and must not reach the next exchange.
- Whether a command ends is up to a card that may say anything, or nothing, or
  be pulled out; only the wait time, when it is armed, guarantees an answer.
- USB reset and SetConfiguration are noticed in an interrupt and acted on later
  in the main loop.

**What makes it correct**, by component:
- *Exchange*: each message gets exactly one answer with its `bSeq`; one command
  in progress per slot; a refused command leaves the one in progress alone; a
  busy slot always has something that will end the command; every command is
  eventually answered.
- *Mailbox*: an event is answered before the next one is written over it.
- *FSMs and UART*: nothing of one exchange is left when the next begins; a byte
  is delivered in the form the FSM waits for; no assertion fails; a card
  reported active can take a TPDU; a UART switched off is switched on again.
- *USB queues*: each buffer in one place; the OUT endpoint is armed again;
  slot-change notifications lead to the state they report.
- *Parameters and formats*: what an answer says is what the slot does.

## 2. Modules

| Module | Models |
|---|---|
| `CardUart` | the UART of one slot as a record, an operator per entry point |
| `Iso7816Fsm` | the main, ATR and TPDU FSMs and the mailbox they write; an action per handler |
| `CcidSlot` | one slot from the OUT list to the IN list: main loop, dispatcher, slot operations, interrupts, host, card; composes the two above |
| `CcidExchange` | the abstract specification: what a slot promises its host |
| `MCCcidSlot` | `CcidSlot` for TLC |
| `UsbEndpoint` | an endpoint as the HAL and the HPL driver see it, a record with an operator per entry point |
| `UsbQueues` | the buffers, the queues of the three endpoints, the completion interrupts, the main loop of `main.c`, bus reset, SetConfiguration and endpoint halt |
| `MCUsbQueues` | `UsbQueues` for TLC |
| `CcidDevice` | the message layer of the whole reader: all slots, all message types, the shared queues and main loop, buffer ownership, the status each answer reports |
| `MCCcidDevice` | `CcidDevice` for TLC |
| `TpduTransfer` | the bytes of T=0 exchanges: the TPDU FSM, the receive buffer and threshold of the UART, and a card that follows ISO 7816-3 |
| `MCTpduTransfer` | `TpduTransfer` for TLC |
| `AtrParser` | the ATR FSM against the grammar of ISO 7816-3, with cards of both conventions one after the other |
| `MCAtrParser` | `AtrParser` for TLC |
| `CcidSlotProofs` | theorems that hold for every choice of hazards |
| `CcidExchangeProofs` | theorems that need interrupts without hazards, one of them a card without hazards, and the refinement |
| `CcidDeviceProofs` | theorems of the message layer, for any number of slots |
| `UsbQueuesProofs` | theorems of the queues, for any pool, commands and slots |
| `UsbPoolProofs` | the number of buffers, on top of `UsbQueuesProofs` |
| `TpduTransferProofs` | theorems of the bytes of an exchange, for any length |
| `AtrParserProofs` | theorems of the ATR FSM, for every ATR of the grammar and every buffer |
| `DataInduction` | lemmas the other proof modules share: induction over an interval, functions defined by recursion, flattened sequences |

`CcidSlot` EXTENDS `Iso7816Fsm` EXTENDS `CardUart`; `CcidSlot` instantiates
`CcidExchange` with its own `outq`, `inq` and `cur`. `UsbQueues` EXTENDS
`UsbEndpoint`. It and `CcidSlot` look at the same main loop from two sides:
in `CcidSlot` a list of messages arrives and answers leave; in `UsbQueues` the
slots are what `CcidExchange` promises, a message is answered at once or becomes
the one command in progress and is answered later. `CcidDevice` is the layer
between: it takes from `CcidSlot` that an exchange reports once, has every slot
and every message type, and instantiates `CcidExchange` once for each slot, so
the same abstract specification is implemented by one slot in full detail and by
all slots together. `TpduTransfer` and `AtrParser` look into two FSMs of
`Iso7816Fsm` at the level of bytes.

### Correspondence

*Main loop.* `pc` is the place of the main loop. It is cut exactly where an
interrupt makes a difference: between the report of a failure and the state
change to RESET (`removing`, `reset`), between the reading of the mailbox and
the answer (`events`, `answer`), between the comparison of the deadline and its
consequence (`poll`, `expire`), and between the state change to IN_TPDU and
`card_uart_tx` (`xfr`). Everything else of a turn of the loop is one action per
routine. Interrupt handlers cannot be preempted by the main loop and are one
action each. Mapped line ranges are in `PROJECT.json`.

*FSMs.* Each handler is one action, with the state change, the `onenter`
function it calls, the events it sends to parent and child, and the calls into
the UART. A received byte takes the event mask into account: what no state
heeds is `RxIgnored`, which still restarts the wait time. Changes between TPDU
states go through `TpduChg`, which refuses what `out_state_mask` does not
permit, as `osmo_fsm_inst_state_chg` does.

*UART.* `deadline` is not set, running or expired; `hint` says whether
`current_wtime_byte` is not zero; `shifting` that the driver's descriptor holds
bytes; `txBusy` that the core waits for them. After `card_uart_tx_abort`
`shifting` stays without `txBusy`: a stale transmission, whose TX_COMPLETE may
arrive in the next exchange. The reset pulse of the card lasts 10 ms, in which
the stale bytes may or may not be shifted out, so `ResetPulse` leaves both.

*History.* `cur` is the accepted command not yet answered. It is not in the
code; no guard reads it.

*USB queues.* In `UsbQueues` `pc` is again the place of the main loop, cut at
every end of a critical section, where a USB interrupt can come. A submit
routine has two steps: in its critical section it takes a message and sets
`in_progress` (`SubmitTake`); then it hands it to the driver, and if that
refuses, the message becomes a free buffer (`SubmitXfer`). Between the two the
message is in the main loop's `hand`. A completion interrupt, with the
resubmission it does, is one action, for no other USB interrupt preempts it.
`freed` says how often the message in `hand` has been put into `free_q` in the
meantime: once by an interrupt that recycles it (`Recycles`), and once more if the
driver then refuses it. A list that holds one `msgb` twice is no list any more, so
with `freed = 2` the model ends (`Running`), as it does with a failed assertion.
`usb` holds, for each endpoint, the driver's record, `in_progress` and the
list, and the length of `free_q`. `flag` is `was_unconfigured_flag`, `enabled`
the class driver's flag, `cfg` what the host believes. `owed` and `view` are
history: the commands of this session not yet answered, and the cards the host
has been told of.

*Message layer.* In `CcidDevice` a turn of the main loop is `detect`, then
`events` for one slot after the other (`turn`), then `feed`, which handles one
message; the handlers of `ccid_device.c` are one action each, `Feed` and the
general rejections of `ccid_handle_out` in front of them. The content of a message
is looked at only when it is handled, so it is chosen there. `heap` counts the
message buffers allocated outside the pool: a handler that frees its message or
answers in it, and one that allocates an answer, change it. `cur`, `told` and
`lost` are history: the command in progress, the `bmICCStatus` the host took last,
and the messages whose buffer is never freed.

*Bytes of a TPDU.* `reader` holds the state of the TPDU FSM with its message
buffer, and of the UART the transmission, the threshold and the receive buffer,
which outlives an exchange. A data byte is its position, so that loss, repetition
and order show. The card chooses a procedure byte at each turn; while the reader
transmits, it hears nothing.

*Bytes of an ATR.* A byte of the card is what its role lets it announce: the
interface bytes `y` and the low half `n`. The parser does not see the role, only
its own state. `Atr` is the grammar of ISO 7816-3 section 8.2, written without
the parser. `inverse` is the driver's setting, `reader.convert` the FSM's.

### What is abstracted, and assumed

- In `CcidSlot`, bytes are abstracted to what the FSM does with them: TS good or
  bad, an ATR byte that is or is not the last, each kind of procedure byte. The
  bytes themselves are in `TpduTransfer` and `AtrParser`. Baud rates are left out.
- A received byte is heard only while nothing is transmitted: the receive
  interrupt of the driver discards the echo of what the slot sends.
- A card that is out of the slot, or has no power, sends nothing.
- The host never uses a `bSeq` for two outstanding messages. (CCID asks for
  it; the firmware does not rely on it, but "the answer to a message" would
  have no meaning without it.)
- `CcidSlot` has one slot. That the others, which share its queues and its main
  loop, do not break what it promises is what `CcidDevice` checks.
- The PPS FSM is not started in the shipped build
  (`FAKE_CCID_SETPARAMETERS`, `ccid_slot_fsm.c:38`).

- In `UsbQueues` buffers are counted, not identified, since `msgb_alloc`
  makes them all alike; a message is known by what it says. The one identity that
  matters to the lists, whether the message in the main loop's hand and the one an
  interrupt frees are the same, is kept (`freed`). What bytes a buffer holds is
  not: a refused or interrupted transfer may leave those of another message, and
  a notification submitted from a buffer that has been freed under the main loop's
  hand, and taken by another message since, says something else in the code. The call into the driver after the critical section of a submit
  routine is one step, and so is the read of the insertion pins.
- A notification is abstracted to the new mask, one bit per slot.
- In `CcidDevice` the pool of OUT buffers (`main.c`, 716-729) is left to
  `UsbQueues`: a message that arrives allocates a buffer, an answer that is
  collected frees one. The fields of a message beyond slot, `bSeq` and type are a
  choice between the outcomes its handler has. `HeedsUnknown` says whether the
  host believes the status in an answer to an unknown message type.
- In `TpduTransfer` the host's body has the P3 bytes its header announces.
- In `AtrParser` TS is one of the four values the FSM knows. The value of TCK is
  not computed, as the code only logs a wrong one.
- The host gives up a session with the reset or SetConfiguration that ends it:
  it expects no answer to its commands and knows nothing of the cards.

### Hazards

`Env` is the set of misbehaviours a run admits beyond the ordinary ones (a
silent card, removal at any time, hardware errors in an exchange, timeouts,
a wrong TS):

| Hazard | Meaning |
|---|---|
| `bad_procedure_byte` | the card answers a header with a byte that is no procedure byte |
| `idle_hw_error` | parity error, framing error or collision while no exchange runs |
| `preempted_reset` | a UART interrupt between a failure report and the RESET after it |

They are apart because the code does not withstand them: each lets a run end in
a busy slot that nothing wakes (`BusyHasWaker`) or in a UART that stays off
(`UartReenabled`). The invariants of `slot_hazards`, and the theorems of
`CcidSlotProofs`, hold with all three; `slot_core` shows the rest with none of them.
`CcidExchangeProofs` admits `bad_procedure_byte` where it does no harm: it costs the
answer of the command it hits, but breaks no safety property other than
`BusyHasWaker`. For `bad_procedure_byte`, which a card needs no race
for, section 4 has a run.

`UsbQueues` has two such sets. `Env` admits `second_reset`, a bus reset or
SetConfiguration(0) while `ccid_eps_enable` waits for the configuration after
an earlier one, and `reconfigure`, SetConfiguration(1) of a configured device.
`Haltable` is the set of endpoints the host halts and clears; the interrupt
endpoint in `usb_halt` and in `usb_double_free`. Such a halt, too, the code does not
withstand: it may make a buffer free twice. `usb_double_free` shows that, and
`usb_halt` that there is no other harm in it. `usb_second_reset` admits the first of the two in `Env`;
no run admits the second, or halts the OUT endpoint: a second configuration
breaks the same assertion, and a stalled OUT endpoint keeps a transfer the queues
have already given up.

## 3. Runs that pass

| Run | Configuration | Shows |
|---|---|---|
| `slot_core` | `Env = {}` | `TypeOK`, `AnswerMatches`, `BusyHasWaker`, `ReadyWhenPowered`, `EventKept`, refinement of `CcidExchange`, and the liveness properties `EveryCommandAnswered` and `UartReenabled` |
| `slot_hazards` | all hazards | `MailboxSafe`, `IdleIsQuiet`, `UartMatchesFsm`, `NoAssert` |
| `usb_core` | `Env = {}`, nothing halted | `TypeOK`, `OneOwner`, `NoAssert`, `SessionKept`, `PoolBounded`, `ViewCurrent`, and the liveness properties `Listening`, `CommandsAnswered` and `HostLearns` |
| `usb_halt` | the interrupt endpoint is halted | `NoAssert`, and until a buffer is freed twice `SessionKept`, `Listening` and `CommandsAnswered` (`KeptUntilTwice`, `ListeningUntilTwice`, `AnsweredUntilTwice`) |
| `ccid_device` | two slots, `HeedsUnknown = FALSE` | `TypeOK`, `StatusCurrent`, `HeapAccounted`, `SlotsImplementExchange` (the refinement, for each slot) and `EveryMessageAnswered` |
| `tpdu_transfer` | a card that may ask for single bytes, the last one included | `TypeOK`, `CardGetsBody`, `HostGetsAnswer`, `TakesTurns` and `EveryTransferEnds` |
| `atr_parser` | a buffer that some ATRs do not fit | `TypeOK`, `AtrFaithful`, `ConventionFollowed`, `EndsWithCard` |

*Bounds of the slot.* Two `bSeq` values and two outstanding messages (`MaxOpen`): one
command in progress and one that meets it, or the message after it, which is
all the mailbox, `ss->seq` and `cmd_busy` can confuse. Bodies of 0, 1 and 2
bytes (`MaxBody`): none, the last of a single-byte transfer, and one before the
last. The other variables are finite in the code. `MaxOpen` is a bound on the
host, in the guard of `Submit`; a longer queue changes nothing for the slot,
which sees only its head. The proofs need none of these bounds.

*Bounds of the queues.* Two commands: one in progress and one queued, or two
answers queued behind each other. A pool of two buffers (16 in the firmware),
so that it runs empty, and is topped up and trimmed. One slot with a card and at
most two notifications in the list (`MaxNotify`, in the guard of `MoveCard`):
one at the endpoint and two behind it. `usb_halt` has one command and one
notification. Resets, configurations and halts are not bounded.

*Bounds of the message layer.* Two slots, so that events, answers and refusals of
one meet commands of the other; two messages or answers under way (`MaxOpen`),
of two `bSeq` values; one lost buffer (`MaxLost`), as the second is lost like the
first. The theorems need none of these bounds.

*Bounds of the bytes.* `Full = 6` stands for the 256 bytes that P3 = 0 asks for,
so P3 is 0 (all), 1 (a single byte) or more, and bytes may be taken alone and
together in any order. `Ways` is what the card does of the standard: `tpdu_transfer`
leaves out the mixture that `tpdu_mixed` shows to fail. ATRs have up to two TD
and two historical bytes, interface bytes none, TA, or TB with TC, protocols 0, 1
and 15; `Cap = 9` (33 in the firmware) is shorter than the longest of them. Cards
follow each other without end, in either convention.

*Fairness of the slot* (`Fairness` of `CcidSlot`):
- weak, of the main loop: `main()` loops for ever and no step of it waits;
- weak, of TX_COMPLETE: the SERCOM shifts out what it holds without anybody's
  help, as long as it is enabled;
- strong, of the clock passing the deadline, and of the main loop seeing that
  it has. Each byte of the card moves the deadline, so weak fairness would let
  a card that sends bytes for ever keep any command open. That is so in the
  firmware, too: ISO 7816-3 lets a card ask for more time without end with NULL
  procedure bytes. Strong fairness says that a card does not do so for ever.

Nothing is assumed of the host (it need not collect answers), of the card (it
need not answer) or of removals.

*Fairness of the queues* (`Fairness` of `UsbQueues`):
- weak, of the main loop, as above; in `ccid_eps_enable` it does wait, and then
  no fairness helps it but the host's;
- strong, of `HandleEvents`: a command in progress ends, which is what
  `EveryCommandAnswered` says of a slot;
- weak, of SetConfiguration: an unconfigured device is configured in the end;
- strong, of collecting answers and polling for notifications: a host that
  does neither gets nothing from the reader, and it keeps polling between resets.

*Fairness of the message layer*: weak, of the main loop and of `Report`: an
exchange ends, by `EveryCommandAnswered` of `slot_core`. The host need not
collect its answers.

*Fairness of the bytes*: weak, of the end of a transmission, of the wait time
when the card has nothing to say, and of the main loop's steps; strong, of a byte
of the card that is no NULL: a card may fall silent, but may not ask for more
time for ever.

The liveness properties say what happens in a session that the host lets live;
`HostLearns` says it of the cards once they and the session have come to rest.

Deadlock is checked in every run but `usb_halt`, which ends where a buffer is freed
twice.

## 4. Runs that show a disagreement

| Run | Property | The code |
|---|---|---|
| `bad_procedure_byte` | `BusyHasWaker` | the failure report of the TPDU FSM is masked out in IN_TPDU; the slot stays busy until the card is removed |
| `usb_second_reset` | `NoAssert` of `UsbQueues` | a second bus reset while `ccid_eps_enable` waits makes the next turn flush `in_progress` of armed endpoints |
| `tpdu_mixed` | `CardGetsBody` | a card that took the first byte of a body alone and then asks for all the others gets the body from its first byte |
| `tpdu_status` | `StatusIsHeard` | after the last byte of a body, taken alone, the change from TX_SINGLE to SW1 is refused by the mask; the status is dropped and the exchange times out |
| `usb_double_free` | `FreedOnce` | a STALL between the critical section of `submit_next_irq` and the driver's refusal: interrupt and main loop put one `msgb` into `free_q`, and `llist_count_at` hangs |

`PROJECT.json` quotes, for each, the line of the repository that says otherwise.

Others are part of the models without a run of their own; a property names, or an
assumption excludes, each of them:
- The buffer of an XfrBlock rejected for its length, level parameter or an unpowered
  card is never freed (`ccid_device.c:491`), although the handler has taken it over
  (709-711): `lost` counts them, and `HeapAccounted` says that there are no others.
- The answer to a message of unknown type reports NO_ICC for a slot with a card
  (`ccid_device.c:843`). A host that believes it (`HeedsUnknown = TRUE`) is wrong about
  the slot, and `StatusCurrent` does not hold.
- A deadline that has passed is read before the byte that completes the exchange
  moves it (`cuart.c:85`), and `WTIME_EXP` is dispatched after it: the main FSM, in
  WAIT_TPDU again, reports a failure over the success that nobody has answered yet
  (`iso7816_fsm.c:498`). The command has been carried out and the host is told that
  it failed, once. `EventKept` exempts exactly that.
- With `preempted_reset` an interrupt between a failure report and the change to
  RESET may overwrite the report. `MailboxSafe` leaves that window out, and
  `EventKept` is checked and proved without the hazard.

## 5. Proofs

`CcidSlotProofs`, for every value of the constants, all hazards included:

| Theorem | States |
|---|---|
| `TypeCorrect` | `Spec => []TypeOK` |
| `MailboxIsSafe` | `Spec => []MailboxSafe` |
| `UartFollowsFsm` | `Spec => []UartMatchesFsm` |
| `NoAssertFails` | `Spec => []NoAssert` |
| `NothingArmedWhenIdle` | `Spec => []IdleIsQuiet` |

The inductive invariant `IInv` is `TypeOK` and the five properties with what
they lack to be inductive: the children are at rest when the main FSM is not in
their state (`Children`); a transmission is only started with nothing in the
descriptor (`ReadyToSend`); outside an exchange the UART has no deadline and
no hint, except for the resets still to come (`Quiet`, `QuietUart`); `busy`, an
event and a state other than RESET and WAIT_TPDU each imply a command in
progress (`Idle`). The mailbox argument, for instance, is that an event is only
written together with a change to RESET or WAIT_TPDU, in which no UART event
reports anything, and that no command is accepted before the event has been
answered, because `busy` is only cleared by the answer or by a removal, and
after a removal `present` keeps commands out until the mailbox has been read. The
report of a failure is written before that change, in the window `Reporting`:
`MailboxSafe` does not speak of it, and with `preempted_reset` an interrupt there
does overwrite the event. Without that hazard nothing does, which is `EventKept`.

`CcidExchangeProofs`, with the assumption `Timely`, that `Env` has no other hazard than
`bad_procedure_byte`; `BusyIsWoken` assumes that it has not that one either:

| Theorem | States |
|---|---|
| `AnswersMatch` | `Spec => []AnswerMatches` |
| `BusyIsWoken` | `Spec => []BusyHasWaker`, if `Env = {}` |
| `PoweredIsReady` | `Spec => []ReadyWhenPowered` |
| `EventIsKept` | `Spec => EventKept` |
| `SlotImplementsExchange` | `Spec => Exchange!Spec` |

`CoreInv` adds to `IInv`: an event belongs to a command of its kind and `seq`
is that command's (`Purpose`); a command in progress has an exchange in the
FSM, an event, or the routine that is about to report it (`InProgress`);
`powered` means WAIT_TPDU with the UART on, outside commands (`Powered`); in
every state of an exchange the wait time or a transmission is running
(`Armed`; in IN_TPDU only if the card keeps to the protocol). Each of the two
hazards of the interrupts breaks one of these conjuncts, and TLC finds each
of the theorems violated with either; a wrong procedure byte breaks the last part
of `Armed` alone, hence only `BusyIsWoken` excludes it (`bad_procedure_byte`). The refinement then follows action by action:
each step of `CcidSlot` is a step of `CcidExchange` or leaves its variables
alone. `EventIsKept` goes through the actions, too: whatever writes to the mailbox
does so from a state of an exchange, where `CoreInv` has it empty, and only the
expiry of a stale deadline finds the main FSM in WAIT_TPDU with an event pending.
That this event is then no failed ATR needs one more invariant, `AtrFailed`: after
that the main FSM is in RESET, where an expiry reports nothing.

`CcidDeviceProofs`, for any number of slots and messages:

| Theorem | States |
|---|---|
| `TypeCorrect` | `Spec => []TypeOK` |
| `BuffersAccounted` | `Spec => []HeapAccounted` |
| `StatusIsCurrent` | `Spec => []StatusCurrent`, if `~HeedsUnknown` |
| `EverySlotImplementsExchange` | `Spec => SlotsImplementExchange`: the refinement of `CcidExchange`, for each slot |

`HeapAccounted` is not inductive alone: that `heap` is a number, and that the
queues are sequences, of which `Append` and `Tail` change the length by one, is
`TypeOK`; the two together are the inductive invariant. `StatusCurrent` is
inductive under `TypeOK`: each handler that changes `present` or `powered` of a slot
that is not left busy tells the host in the same step what it leaves, or marks the
view `unsure`. The assumption cannot be dropped (section 4).

The refinement needs an invariant of its own, `EInv`: a slot has a command in
progress exactly while its exchange runs or the event that ends it waits, never
both; the slot's `seq` is that command's; and a slot whose command is in progress is
busy, except after a removal, when its turn in the round of events is still to come.
The exception is what makes it inductive: `CardDetect` clears `busy` before the
command is answered, and only because every event is handled before the next
message is looked at does no handler find such a slot. What `CcidExchange` sees
of a slot is `OfSlot` of the two queues, a recursive function; lemmas on what it
makes of `Append`, `Head` and `Tail` (by induction over the queue, see
`DataInduction`) show that a step of one slot is a step of its `CcidExchange` and
nothing to the others'. The invariant is checked by TLC with the constants of
`ccid_device` as well.

`UsbQueuesProofs`, for any pool, commands and slots, with the assumption `Mild`:
`Env = {}` (neither `second_reset` nor `reconfigure`) and no endpoint halted but the
interrupt endpoint:

| Theorem | States |
|---|---|
| `TypeCorrect` | `Spec => []TypeOK` |
| `NoAssertFails` | `Spec => []NoAssert` |
| `SessionKeptThatLong` | `Spec => []KeptUntilTwice` |
| `SessionIsKept` | `Spec => []SessionKept`, if nothing is halted |
| `FreedOnlyOnce` | `Spec => []FreedOnce`, if nothing is halted |
| `BuffersOwnedOnce` | `Spec => []OneOwner`, if nothing is halted |
| `ViewIsCurrent` | `Spec => []ViewCurrent`, if nothing is halted |

The model ends where a buffer has been freed twice, so with a halt the first three
speak of the time until then; `FreedOnlyOnce` is why the others speak of all time.

The conjuncts of the inductive invariant: the class driver's flag follows the
configuration and the endpoints are open exactly in a session (`SessionState`);
between the flush and `ccid_eps_enable` nothing is left (`Emptied`); at an endpoint
that is never halted what is armed is in progress (`Sound`) and what is in progress
is armed or in the main loop's hand (`InHand`), which is why a completion always
finds its message; no command is in two places (`OncePlaced`), so taking it out of
one takes it out of `owed` (`Kept`); and the last notification queued, in progress
or seen is the mask (`Seen`). `FreedInv` says that with nothing halted `freed` stays
0: what a completion or a reset recycles is armed, and what is in the main loop's
hand is not armed yet. First come lemmas on the operators of the
record `usb`, then a lemma for each action.

`TpduTransferProofs`, for every `Full`, with the assumption `Unmixed`, that the card
does not ask for one byte first and for the others together later:

| Theorem | States |
|---|---|
| `TypeCorrect` | `Spec => []TypeOK` |
| `BodyIsDelivered` | `Spec => []CardGetsBody` |
| `AnswerIsWhole` | `Spec => []HostGetsAnswer` |
| `TurnsAreTaken` | `Spec => []TakesTurns` |
| `EveryStatusIsHeard` | `Spec => []StatusIsHeard`, if `NoneAlone`: no card asks for the last byte of a body alone |

The invariant has a conjunct for each state of the reader (`Phase`), which says what
the card is doing then and what the buffers hold, and one on the data (`Data`): what
the card has taken is the body up to `done`. With threshold 1 and an empty receive
buffer each byte is reported alone (`HeardAlone`); in RX_REMAINING the buffer holds
what the card has sent so far, and the threshold is the whole, so the last byte and
no other completes it. An exchange that is cut off may leave bytes in the buffer,
but only in RESET, and the way out of RESET empties it. Without `Unmixed` the
conjunct `TxRemaining` fails, and with it the theorem (`tpdu_mixed`).

`UsbPoolProofs`, for any finite set of commands and any size of the pool, with
the assumption `Mild` and no endpoint halted:

| Theorem | States |
|---|---|
| `PoolStaysBounded` | `Spec => []PoolBounded` |

`PoolBounded` is about the sum of all buffers, wherever they are. A first group of
lemmas says how each operator of `usb` changes the sum: recycling, flushing and
submitting move buffers, answers and notifications make them, trimming frees them.
The argument is that what is not free is at most `Most`, the commands, the
notifications of the list, and the buffers of the OUT and the interrupt endpoint
(`Crowd`), because `SessionKept` has a command in one place only. The main loop
counts `free_q` outside a critical section and corrects later; an interrupt may
recycle a buffer in between. So the count is never more than the buffers there
are, and these are never more than the count and `Most`: the conjunct of `PoolInv`
for `pc = "adjust"`. After the correction there are `NumOutBuf + Most` at most, and
one more for the notification of the next turn.

`AtrParserProofs`, for every `Cap` and every bound on the ATRs:

| Theorem | States |
|---|---|
| `AtrTypeCorrect` | `Spec => []TypeOK` |
| `AtrStoredFaithfully` | `Spec => []AtrFaithful` |
| `UartFollowsConvention` | `Spec => []ConventionFollowed` |
| `ParserEndsWithCard` | `Spec => EndsWithCard` |

The parser has no plan of the ATR, only a state, the last `y`, a count of
historical bytes and the protocols seen. The invariant `AtrInv` says that they are
enough: in each state, what the parser `Expected` is the sequence the card has left to
send. A lemma for each state of the FSM shows that the next byte of that sequence
leads to a state that expects the rest of it, skipped interface bytes included, and
that it reports the end exactly when nothing is left. The sequence is `Atr` of the
model, the grammar as a concatenation over groups; that it can be taken apart group by
group (`FlattenSuffixes`, `FromUnfolds`) is an induction over the groups. The run
`atr_parser` is a finite instance of the same statement, and TLC checks `AtrInv`
on it, too.

`DataInduction` has what these proofs need of induction. The induction theorems of the
library take an operator as a parameter, which the provers cannot instantiate; with
a set in its place, induction over `0..n` follows from the least element of its
complement (`SetInduction`), and from that the existence of functions defined by
recursion over an interval (`FiniteRecursion`). It reaches functions written as
`f[i \in S] == ...` and `FlattenSeq`, but no RECURSIVE operator; the modules with
theorems have none.

*Only model-checked*: the liveness properties (`EveryCommandAnswered`, `UartReenabled`,
`Listening`, `CommandsAnswered`, `HostLearns`, `ListeningUntilTwice`,
`AnsweredUntilTwice`, `EveryMessageAnswered`, `EveryTransferEnds`). They rest on fairness, hence on ENABLED, which the provers do
not reason about. Every safety property of a passing run is a theorem. Of the queues,
`NoAssert` and `KeptUntilTwice` are theorems for both passing runs; the other theorems of
the queues, `TypeCorrect` aside, assume, as `usb_core` does, that nothing is halted.

## 6. Not modelled

- What a USB reset does to the slots. `reset_all_stuff_irq` (`main.c:537`) switches off
  the SERCOMs of all slots and SysTick in the interrupt, and `reset_all_stuff_non_irq`
  (550) answers the pending events and takes the cards for removed in the main loop.
  `UsbQueues` has what reaches the queues of it: the answers (`AnsweredByReset`) and the
  flush after them (`Flushed`). `CcidSlot` and `CcidDevice` have no such action, so what
  they show holds between two USB resets: an exchange cut off by one, with the UART
  disabled under the FSM, is outside of them.

- PPS: dead code in the shipped build. `ccid_slot_fsm.c:38` defines
  `FAKE_CCID_SETPARAMETERS`, and the only dispatch of `XCEIVE_PPS_CMD` (line 446) is
  compiled out. Whoever turns it on again should look at the mask of `TX_PPS_REQ`
  (`iso7816_fsm.c:1177`) and the table lookups with the card's F and D first.
- The ISO 7816-3 tables: constants and lookups without state.
- The interface to the card (NCN8025, I2C): register writes from the main loop
  only, one at a time, whose failure is asserted on. Its effect, power and reset
  of the card, is part of `CardUart` and `Iso7816Fsm`.
- The ring buffer: vendored. For the card UARTs it is filled and emptied in the
  same interrupt, and is the sequence `reader.ring` in `TpduTransfer`; the debug
  UART, which would use it concurrently, is not in the default build.
- The control endpoint, enumeration and descriptors: the USB stack is Atmel's;
  what of it reaches the reader (reset, configuration, halt, clearing) is in
  `UsbQueues`.
- Console, CDC, DFU, start-up code, talloc, logging: not part of the reader's
  logic, generated, or third party. The headers of `hri/`, `config/` and CMSIS, which
  make up nearly all lines of the repository, are register definitions and
  accessors without behaviour of their own.
- The host variants, the simulated slot and the test tools.

## 7. What is left

- That `CcidSlot` implements a slot of `CcidDevice`: the two share the abstract
  specification `CcidExchange`, but that an exchange below a slot reports once, and
  never while the slot is idle, is a statement of `CcidSlotProofs` which
  `CcidDevice` takes over in words. The same holds of the slots in `UsbQueues`.
- A model of PPS, if the parameters the host sets are ever negotiated with the card.
- The class requests on the control pipe (ABORT, GET_CLOCK_FREQUENCIES), once the
  firmware gives ABORT an effect; today they change no state.
