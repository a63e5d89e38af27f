# Bluehack: specifications and proofs

Bluehack turns a HackRF One into a Bluetooth LE sniffer. The firmware
demodulates on the device, in the gaps between two sample interrupts, and follows
connections over their hop sequence on its own; the host only selects a mode and
prints what arrives. This directory holds TLA+ modules of the parts where several
contexts work on the same data, the TLC configurations that check them on small
instances, and proofs, checked by TLAPS, of the properties that matter most.
Paths below are relative to `src/firmware/hackrf_usb/` unless they say otherwise.

## 1. Inventory

### Contexts

| context | code | runs |
|---|---|---|
| SGPIO interrupt | `sgpio_isr.c` | every 8 bytes of samples (four I/Q pairs), above everything else |
| USB interrupt | `../common/usb.c` `usb0_isr`, and every vendor request | at any point of main; itself interrupted by the SGPIO interrupt |
| main | `hackrf_usb.c`, `bluehack.c` | the loop that demodulates, queues packets and hops |
| device controller | hardware | works on primed transfer descriptors at any time |
| host transfer thread | `src/host/libhackrf/src/hackrf.c` 1423 | libusb's event loop, calls `rx_callback` |
| host packet cycler | `bluehack.py` 249, `libhackrf_wrapper.c` 255 | a Python thread |
| host main thread, signals | `bluehack.py` 270, `libhackrf_wrapper.c` 41 | console input, Ctrl + c |

`nvic_set_priority(NVIC_USB0_IRQ, 0xFF)` gives USB the lowest priority; nothing
disables interrupts except `usb_queue.c` around its list operations.

### Components, their state and what makes them correct

**Sample ring** (`sgpio_isr.c`, `usb_bulk_buffer.*`, `hackrf_usb.c` 220-295,
`usb_api_btle.c` 66-69). State: the 32768-byte ring `usb_bulk_buffer`, the 64-bit
positions `sample_pos_write` and `sample_pos_read`, and
`sgpio_callback_finished`. The interrupt writes a block unless the ring is full;
on noise it keeps the position, or skips the end of the ring. Main takes the
window between the positions, demodulates it in place and advances the read
position. `reset_counter`, called by requests and by main's own hops, moves both
positions to the next lap. Correct means: the window main reads is not written
meanwhile, its bytes are of this lap, the two sides never wait for each other, and
a packet is reported with the channel its samples came from. Hard: 64-bit
positions loaded and stored in two instructions by three contexts without a lock.

**Demodulated packets and bulk transfers** (`hackrf_usb.c` 163-170, 272-334,
`../common/usb_queue.c`, `../common/usb.c`, `usb_endpoint.c`). State: 100
`DEMOD_INFO` records with `is_used`, the index `demod_info_idx`, the endpoint's
free list and active list of transfers (one transfer for bulk in), the
controller's primed descriptors. Main takes a record, fills it and queues a
transfer; the completion interrupt calls back and frees. Mode requests disable the
endpoint, which flushes queue and controller; SET_CONFIGURATION and bus reset
change the mode, a bus reset flushes the controller only. Correct means: no
transfer is lost or used twice, the controller never works on a freed one, no
record is rewritten while it is queued, packets arrive once and in order, and
main's waits end.

**BTLE session** (`usb_api_btle.c`, `bluehack.c` 43-63 and 291-408, `bluehack.h`).
State: `btle_config_global` (mode, follow state, access address, current channel,
planned hop, hop sequence and index), `_transceiver_mode`, and the channel the
radio is tuned to. Requests select mode and channel; main hops on the advertising
channels until the device looked for is heard, takes over the parameters of a
CONNECT_REQ and then hops along the connection. Correct means: radio, index and
plan agree, the sniffer stays on the channel the host selected until it follows,
it can hear a CONNECT_REQ whenever it waits for one, and it leaves the advertising
channels only along the map of the connection it follows.

**Channel map** (`bluehack.c` 248-289): the hop sequence of a connection, from the
used channels of its CONNECT_REQ.

**Host wrapper and scanner** (`src/host/hackrf-tools/src/libhackrf_wrapper.c`,
`bluehack.py`). State: a ring of 1024 packets with two counters, the mutex
`lock_packet_read` used as a binary semaphore, `do_exit`, `is_running`. Correct
means: packets are handed over whole and in order, no wake-up is lost, the program
ends when the user ends it.

**Host streaming** (`src/host/libhackrf/src/hackrf.c` 243-262, 1423-1561,
1991-2061, and `start`, `stop` and `close_board` of `libhackrf_wrapper.c`). State: 64
libusb transfers, each idle, submitted or ended and not yet reported; the transfer
thread; the flags `streaming`, `transfer_thread_started` and `do_exit`. A start
asks the device, resets the flags, submits all transfers and creates the thread; a
stop asks the device, sets the exit flag, joins the thread and cancels the
transfers. Correct means: no transfer is submitted twice, nothing of an old session
disturbs the next one, every call returns, and library and device agree on whether
a session runs. Hard: transfers are cancelled after the thread that handles their
end has ended, so that their reports come in the next control transfer; programs
are killed and started again.

**USB device core** (`../common/usb.c` 190-640, `usb_request.c`,
`usb_standard_request.c`). State: the active transfers of both control endpoints, the
SETUP packet read last, the controller's ENDPTSETUPSTAT and ENDPTCOMPLETE. Each
handler is called at the stages SETUP, DATA and STATUS, schedules transfers, acts or
refuses. Correct means: a request is carried out once and on its own data, and the
queues are empty when it is over. Hard: the interrupt reads SETUP packets before
finished transfers, and takes the stage of a finished transfer from the SETUP packet
read last.

**Radio and tuning** (`../common/tuning.c` 54-113, `max2837.c`, `rffc5071.c`,
`rf_path.c`, the antenna and amplifier requests of `usb_api_transceiver.c`). State:
the registers of MAX2837 and RFFC5072, their shadow copies with dirty bits, the
RF switches and `rf_path.switchctrl`. `set_freq` puts the radio into STANDBY, sets the
path, writes integer and fraction of the divider, and restores the mode it has
read before. Correct means: after a hop oscillator, shadow registers and switches agree,
a session receives, and the host's settings survive. Hard: `set_freq` is called by
main and by requests, which interrupt main between any two register accesses.

**Not modelled**: SGPIO and CPLD set-up, clocks, gains, buses, flash and board
support, the content of the stateless register, flash and board requests, the stock
HackRF tools, vendored libraries, schematics and documents. Section 6 says why.

### Interaction

The SGPIO interrupt and main share the ring; main and the USB interrupt share
`btle_config_global` and the transfer queue; main and the completion interrupt
share the records; device and host share the bulk pipe and the mode and channel
requests; main and the USB interrupt share the radio, its shadow registers and the SPI
bus; on the host, the threads share the packet ring, the transfers and the flags.

## 2. Modules and the order they were built in

| module | extends or uses | stands for |
|---|---|---|
| `SampleRing` | | SGPIO interrupt, main and requests on the sample ring |
| `PacketPath` | instantiates `PacketPipe` | records, transfer queue, controller, flushes |
| `PacketPipe` | | what that path promises: the abstract specification |
| `ChannelMap`, `BtleSession`, `MCBtleSession` | one extends the other | hop sequence; mode, hops and requests; the maps for TLC |
| `HostSession` | | callback, cycler, main thread and signal of the scanner |
| `HostStreaming` | | libhackrf's calls, transfer thread, kernel, kill and restart |
| `ControlEndpoint`, `MCControlEndpoint` | one extends the other | stages and overlaps of control transfers; the instance for TLC |
| `RadioPath` | | `set_freq` and the settings, register by register |
| `SampleRingProofs`, `PacketPathProofs`, `PacketPipeProofs`, `BtleSessionProofs`, `ControlEndpointProofs`, `RadioPathProofs`, `HostSessionProofs`, `HostStreamingProofs` | the module named, TLAPS | theorems and proofs |

The order was from the samples outwards: ring, packets, session, host, then the
control transfers that start a session, the library that issues them and the radio
behind `set_channel`. Each module states its own view of shared variables such as
`transceiver_mode`; what one takes from another is written in its head: the radio
channel is one step in `BtleSession` and some twenty in `RadioPath`, a mode request
two steps in `BtleSession` and stages in `ControlEndpoint`.

What could follow: a composition of `PacketPath` and `HostSession` against the same
`PacketPipe`.

## 3. Modules and the code

**SampleRing.** Positions, ring contents and main's local variables under the
code's names. Each byte of the ring (`mem`) is abstracted to the position and the
channel it was received at. `SgpioIsr` is the whole interrupt handler: drop, store
or noise. Main is cut into `MainLoop` ... `MainUpdate` at every access of shared
data. `reset_counter`, `set_channel` and `set_btle_transfer_mode` are lists of
operations (`todo`) that main or the USB interrupt carries out one at a time
through registers (`reg`), so that the SGPIO interrupt can fall between the two
volatile loads of a position and between a load and its store. A USB request
interrupts main at any of these points and main continues when it is done.
The DATA stage of a follow request tunes to the channel selected at that time
(`retune`). The four loads of the check (`hackrf_usb.c` 242-243) are one step, and a
64-bit load or store is one access: what a torn one adds is a carry between the words,
once in 2^32 bytes. `demod_buffer` is its outcome: no packet, a packet of any length in the window, or
too few samples. `moved`, `report`, `blocks` and `resets` are ghosts: whether a
request has moved the positions since main checked them, the channel and samples
of the packet last reported, and the two bounded counters.

**PacketPath.** Records, free list, active list, transfer descriptors (active or
done, and the record they point at), the controller's primed list and pending
completion. `MainAllocate` and `MainEnqueue` are separate, since a request may
flush in between; queueing is one step, as the code disables interrupts, and so is a
flush of queue and controller.
Completion is taken head by head (`Retire`) inside the interrupt. The mask
`DEMOD_INFO_CNT - 1` is applied bit by bit, without the Bitwise module, so that
proofs can be written about it. `packets` numbers what main demodulates,
`delivered` is what the host has received. `Transmit` is the controller: external.

**PacketPipe.** The promise of that path, without records, queue or controller:
packets are accepted under increasing numbers, the oldest one pending is the next
delivered, a request may discard pending packets, the oldest first. `PacketPath`
implements it (`ImplementsPipe`) under the mapping `accepted <- packets`, `pending <-
Pending`, `delivered` and `requests` as they are, where `Pending` are the packets of the
records that a primed descriptor or main's program counter still stands for.

**ChannelMap.** `GetChannels` follows the loop of `get_channels`: a scan over the
channels with a queue of unused ones, then the ones left over modulo the number of
used channels. The array of pointers is the sorted sequence of used channels.

**BtleSession.** `btle_config_global` under the code's names. A packet is reduced
to what `update_btle_state` tests: is it a CONNECT_REQ, an ADV_IND, does the
address match, is it plausible, which map and increment it asks for. Requests:
`ModeFixed`, `ModeFollow` and `ModeFollowData` (SETUP and DATA stage),
`ModeRefused`, `ModeOff`, `ModeOffAgain`, `Channel`, `Configure`. The STATUS stage
assigns the mode the SETUP stage has assigned and is left out, as are the noisegate
and requests the host abandons between stages. Main is cut where a request can see
or undo what it has done: at the read of the follow state, between the look at the
planned hop and the hop, before and after `current_channel` is assigned and before the
radio is tuned; stores that follow each other without a read in between are one step.
`next_channel_trigger` is not volatile: at the hop (`MainDue`) it is read again, or
kept in a register, as the compiler likes. Read again after a MODE_OFF it is -1, which
`set_channel` takes as 255 (`Byte`) and `get_freq_by_channel` as 37 (`Heard`). When a
hop is due (`sample_counter_rx` against `sample_pos_store[0]`) is left open.
The access address is either the advertising one or a connection's. `session`,
`requested`, `map`, `deaf` and `disturbed` are ghosts: the mode the host was let start,
the channel it selected, the used channels of the CONNECT_REQ accepted last, whether a
request has left main with an address that is not that of what it listens for, and
whether a request has come that main cannot react to in time: a mode request that
changes the mode of a running session, SET_CONFIGURATION, a channel selected once the
session does not simply listen on one, and MODE_OFF while main is past its wait for
samples, until the next MODE_OFF that finds it waiting.

**HostSession.** One program counter per thread, one step per access of shared
data. The mutex is a flag: `Lock` waits for it to be free, everybody unlocks,
whether they have locked it or not, which is what the default mutex of glibc does.
Packets are numbers in the order of arrival, 0 an empty slot. The signal handler
is one step at any time; input comes at any time or never. Callbacks may still come
between the exit request and the end of the transfer thread. Every packet has a length:
the device sends whole `DEMOD_INFO` records, so that the warning about an empty
transfer in `get_next_packet` is not met that way.

**HostStreaming.** A call is the list of its steps (`todo`): `StartSteps`,
`StopSteps` and `CloseSteps` are the sequences of `hackrf_set_btle_mode` and
`close_board`, the refusals included. A control transfer is submitted and awaited;
until its answer is reported the calling thread handles events itself, so that
packets and cancelled transfers are called back there as well. The kernel
(`submitted`, `ended`) reports in the order in which transfers end and is external, as
is `Serve`, the device, reduced to its refusals. `EventsFail` is the error of
`libusb_handle_events_timeout` that ends the thread without the exit flag
(`hackrf.c` 1433). `Kill` is a program that is killed, or leaves without closing.
Submitting idle transfers in `prepare_transfers` is assumed to succeed.

**ControlEndpoint.** A request is reduced to what its handler schedules and where it
acts: six shapes, listed in the module's head with the handlers in "map", and the
four mode requests, which also depend on whether the session runs. `dynamic` is the start
of the dynamic mode with a length other than six, which schedules its acknowledgement and
is stalled afterwards (`usb_api_btle.c` 121-130; `Refuse`, since the host may come
between the two; length 0, which has no data, is left out). The host library always
sends six bytes (`hackrf.c` 2016-2027), other hosts need not. The interrupt is cut
between SETUP and transfers and between the two endpoints, since host and controller go on
meanwhile. A SETUP packet comes at any time after the end of the request before, whether
its completions have been seen or not, or on top of it: libhackrf has no timeout
for control transfers, but a program that is killed and the kernel's own requests
abandon them. It may or may not make the controller drop what is primed, which
then stays in its queue. While it waits, the controller keeps the stall bits clear
(external). `CanSchedule` is the wait with interrupts disabled at `usb.c` 213: when it
is false the interrupt never goes on, and `RequestsEnd` fails. `upset` is a ghost: from
then on a completion may be taken for another request's. Three things set it, and each
is an event of the run, not a restriction of it: the interrupt has acted upon a
completion that was an earlier request's (`Mistaken`), a request was abandoned, or the
one after a refused `dynamic` has come.

**RadioPath.** Both contexts share `radio`: registers, shadow copies, dirty bits, pins,
`switchctrl`, mode. Main's hop is a list of steps, cut at every register access, with
its locals (`prior`, `ctrl`, `value`, `loaded`) apart; a request carries out the same
operations in one go, since nothing but the SGPIO interrupt interrupts it. The
divider is computed as the code does, digit by digit, twenty times. A
transfer of main that a request hits may be lost; the request's own arrive. All
Bluetooth channels lie where the mixer is bypassed, so band, filter and `q_invert` never
change. `disturbed`, `crossed`, `wanted`, `asked` and `fate` are ghosts. `asked` is what
the host has asked for last and nothing else touches it; `fate` says, for antenna power
and amplifier each, what has become of it: it is `kept`, was never set (`unset`), was put
off by a stop (`stopped`), or its request or the stop fell between main's load and
store of `switchctrl` (`torn`). `crossed` is decided anew at each start: main was within
a `set_freq` that had found the device in STANDBY (`tuning.c` 66-108).

## 4. Runs

Deadlock is not checked: every module stops at its bounds, and a device
without a session or a program that has ended really does nothing more.

| run | result | what it shows |
|---|---|---|
| `ring_follow` | pass | one follow session with main's own hops against the interrupt, access by access: windows are fresh, reader and writer stay within a lap, neither waits for the other |
| `ring_requests` | pass | requests at any point of an iteration: windows are kept, each request costs at most two laps of old samples |
| `ring_tag` | violation | old samples reported with the new channel |
| `path_session` | pass | pool, queue and controller with flushes anywhere: conservation, ownership, order, the refinement of the abstract pipe, and delivery while the host does not end the session |
| `path_leak` | violation | a record leaked by a flush stops main for good |
| `session_requests` | pass | three requests of any kind anywhere in main's iteration, connections of two maps: radio, index and plan agree, main listens with the right address but for three named causes, the radio reaches data channels only on the map, a DYNAMIC session keeps its address |
| `host_session` | pass | slots handed over whole, packets in order, no lost wake-up, Ctrl + c with a key ends the program |
| `control_requests` | pass | three requests of ten kinds at any moment after, or on top of, each other: until they are upset, each is carried out once, on its own data, and the queues are empty when it is over |
| `control_late` | violation | a session starts on data that has not arrived |
| `streaming_calls` | pass | six calls, kills, resubmissions and event loops that fail: what a stop leaves in flight or in the exit flag never reaches the next session, every call returns |
| `streaming_restart` | violation | a program started after a killed one is told "already stopped" while the device streams |
| `radio_requests` | pass | four requests anywhere in main's hops: the next undisturbed hop puts oscillator, shadow registers and switches right, the session receives, settings are as asked last or off since a stop |

### Bounds, and why they are enough

- Ring: 12 bytes in blocks of 2 (8 and 2 for requests) with packets of 3 to 4
  bytes and a look-ahead of 4. What matters is the order of ring, block, minimum,
  maximum and look-ahead, that a ring holds several windows, and that the runs
  cover more than one lap: `MaxBlocks` of 9 is one lap and a half, 5 of the
  smaller ring is one and a quarter. `MaxResets = 2` is the start and one hop or
  request, the least that can go wrong; the proofs cover all other sizes and
  any number of hops and requests. Channels do not influence positions, so runs about positions use one.
- Packet path: two records and two transfers, so that main waits for records;
  six packets and four requests, enough to stop and restart a session twice. The
  firmware's own sizes, 100 records and one transfer, are those of `path_leak`.
- Session: four data channels with the maps {1, 3} and {0, 3}, in which a channel
  of one map is unused in the other and both ways of replacing an unused channel
  occur; the 8-bit packet counter wraps at 3 or 4. Three requests reach every
  start, stop and change in the middle of main's iteration, and a second session after
  the first.
- Host: a ring of two slots and five packets, so that it is full twice over. Every
  order of threads, signal and input is explored; `SlotHandedOver` and
  `PrintedInOrder` are proved for every size.
- Streaming: three transfers, so that one is first, one last and one between when a
  submission fails or a session ends; six calls are two complete sessions and what
  closes them, or three refused ones; four packets, two failures and two kills put
  each of them before and after a restart.
- Control: a request and the one after it are all that can meet, since a SETUP
  replaces the one before; a third lets leftovers of that pair meet another. Three
  transfers per endpoint instead of the firmware's eight hold what three requests can
  leave finished and unseen at once. With two, `RequestsEnd` fails although nothing is
  upset: three requests served within one pass of the interrupt fill the pool, and the
  third waits at `usb.c` 213 for what only the pass itself could free. The firmware
  would need as many requests within one pass as its pool has transfers. That no
  transfer is left when the requests are over is `PoolsRefill`, proved for every pool and
  number of requests; no run exhausts the pool by long use.
- Radio: two channels with different integer and fraction, four requests: off, start
  and two more inside one hop. The real divider is computed for both channels.

### Fairness

`PacketPath` assumes weak fairness of main, of the controller and of the completion
interrupt: main is a loop that nothing else blocks, the controller sends whatever
is primed while the host reads, and a pending interrupt is taken. Requests and
packets need not come. `HostSession` assumes weak fairness of each thread between
its events (a mutex that is free is taken by the only thread that waits for it) and
that the transfer thread's wait ends, which libusb's timeout of 180 seconds
guarantees. No packet, line of input or signal has to come; `BothEnd` is about
sessions in which a signal and a key do. `HostStreaming` assumes weak fairness of
the steps of a call, of the device's answer to a control request, of each event
handler and of the timeout; packets, failures, kills and calls need not come.
`ControlEndpoint` assumes that the host goes on with a request it has begun and that
the USB interrupt is served; no request has to come. The other modules check safety
only.

### Findings

Each violated run is a disagreement between the code and its own documentation:

- `ring_tag`: `reset_counter` does not empty the ring, and equal indexes are taken
  for a full one (`hackrf_usb.c` 249-259).
- `path_leak`: `usb_queue_flush_queue` frees transfers without their callbacks.
- `streaming_restart`: `hackrf_set_btle_mode` takes its own missing thread for a stopped
  device (`src/host/libhackrf/src/hackrf.c` 2006).
- `control_late`: "response arrived, now we can activate streaming" (`usb_api_btle.c`
  137). When the end of a read and the SETUP of a follow mode are found by the same
  interrupt, the end is taken for the DATA stage of the mode request (`usb.c` 623,
  `usb_request.c` 72), and the session starts on an address that has not arrived.

Two more have a document against them and no run of their own:

- "channel was manually set -> reset state" (`usb_api_btle.c` 167): the access address of
  the connection followed before is not reset, so that no CONNECT_REQ is heard.
  `ListeningHears` names this as one of three exceptions, and it is proved that there
  are no others.
- "Press [some key] + Enter or Ctrl + c to exit" (`bluehack.py` 336; line 330 says "Ctrl+c
  and Enter"): a key alone does not
  end the program when no packet comes, as the cycler waits again inside
  `get_next_packet` (317), and Ctrl + c while the cycler prints leaves it running until
  a key is pressed (`libhackrf_wrapper.c` 264). `BothEnd` is about sessions with both.

Seen on the way, without a document that says otherwise:

- Ring: a reset lost in `sample_pos_read += bytesread` (`hackrf_usb.c` 287) together
  with a write position reset to no lap boundary leaves a full ring in which both
  sides wait. This is why `NoStall` is checked, and proved, for sessions the host
  leaves alone.
- Packets: the index mask 99 visits four of the hundred records (`hackrf_usb.c` 164).
- Session: a refused mode request has already changed `btle_mode`
  (`usb_api_btle.c` 82); a channel request resets `follow_state` but leaves the access
  address of the connection followed before, and a planned hop survives it (169);
  one inside main's `set_channel` leaves the radio on main's channel (153). An
  implausible CONNECT_REQ ends the hopping of a DYNAMIC session (`bluehack.c` 302).
  SET_CONFIGURATION leaves the stream running (`hackrf_usb.c` 125), and main stays in
  its wait for samples after MODE_OFF (222) until the next session wakes it. A MODE_OFF
  between main's look at the planned hop and the hop (226, 231) makes it hop to channel
  255, which the radio takes for 37, and a DYNAMIC session started then plans no hop.
- The hop time is computed in single precision (`bluehack.c` 386); unused channels are
  replaced in the order of the scan, not by their number modulo the used ones (269).
- Library: were the device told last, as `hackrf_stop_tx` does, a restarted session
  would submit a transfer that has completed and is not yet reported; the order in
  `hackrf_set_btle_mode` is what makes `SubmittedIdle` true. A submission that fails in
  `prepare_transfers` leaves the device on and earlier transfers in flight, with
  no thread; `streaming_calls` assumes it does not happen.
- Control transfers: the completion of a read that is taken for the DATA stage of a
  MODE_OFF starts the session again. A request that is abandoned between two stages
  leaves a dropped transfer at the head of its queue for ever: the pool of eight
  shrinks, and the wait at `usb.c` 213 may not end. A DYNAMIC request whose length is
  not six is acknowledged before it is stalled (`usb_api_btle.c` 122, 130); the
  acknowledgement stays and serves a later request. `upset` says where each begins.
- Radio: a request between the last commits of main's hop leaves the trigger register
  as the request wrote it and integer and fraction as main did until the next hop
  (`max2837.c` 245-254); a start between main's look at the mode and the end of its
  hop leaves the session in STANDBY (`tuning.c` 66, 108; excluded by `crossed`); an
  antenna or amplifier request between load and store of `switchctrl` is lost
  (`rf_path.c` 293; fate `torn`). A stop puts antenna power and amplifier off, and the
  next start does not restore them (`rf_path.c` 269-274; fate `stopped`): the host has
  to ask again. `rf_path.switchctrl` starts as 0 although the pins are set up safe, so
  that the first tuning powers the receive amplifier unless the host has set it before,
  as the scanner always does (fate `unset`). Inside a hop that a request disturbs, pins
  and registers may be mixed; what is checked is that the next hop mends them, and,
  within 50 kHz, not all of the divider: FRAC_LO is worth at most 29 kHz. `usb_run` comes
  before `rf_path_init` (`hackrf_usb.c` 197).

## 5. Proofs

Checked by TLAPS for every value of the constants that satisfies the assumptions
named in the modules (`SampleRing`: the ring holds whole blocks and several
packets; `PacketPath`: at least one record, a finite set of transfers, `None` not
among them; `BtleSession`: at most 37 data channels; `ControlEndpoint`: at least one
transfer in a pool; `HostSession`: at least one slot).

`SampleRingProofs`. `TypeCorrect` and `WindowIsKept`: no interrupt writes into the
window main demodulates, unless a request has moved the positions since main
checked them. `WindowKept` is a property of steps, and `TypeOK` alone does not
imply it: what keeps the window is that from the check to the end of demodulation
the bytes from the read index on belong to positions between `sample_pos_read` and
the write position *at the time of the check*, and that the interrupt stops within
a lap of `sample_pos_read`. The inductive invariant `IInv` is
`TypeOK /\ WindowInv`; `WindowInv` states this at each of main's program counters
from the index computation on. The arithmetic (two positions less than a lap apart
have different indexes, a block does not wrap) is in the lemmas `LapAndOffset` and
`Apart`, proved from the division theorem.

In the same module `ReadsFollowWrites` (`ReadFollowsWrite`) and `ReadsFresh`
(`FreshOrTail`), for the time in which only the request that starts a session has reset
the positions. `FirstInv` adds two things to `IInv`. `Before` follows the starting
request through `reset_counter` access by access: the interrupt is still off, so no
access is torn, both positions stay at the start of a lap, and when the interrupt is
enabled they are equal. `Session` says that every position between the two was stored
in its lap or lies in the tail, that the write position is a whole number of blocks
(a block never wraps), and what main has chosen: that a window ends with the ring
whenever main skips after it is what keeps that skip behind the write position. The
second reset of the positions, by a hop or a request, ends the hypothesis, and
`LagPerRequest` and `NoStall` say what holds from then on.

`LagsByRequests` (`LagPerRequest`) has no hypothesis: any requests and hops, any
number of them, interrupting each other between any two accesses. The property speaks
of states at rest and is far from inductive: what counts are the values the contexts
have loaded and will still compute a position from. `WritesAhead` therefore bounds
every value the write position may become (`Written`) by every value the read
position may (`ReadFrom`): two laps for each request, less one for each reset of the
write position still to come (`StoresW`). Each reset adds at most one lap (`SkipIs`)
and takes one off what is to come; the interrupt stops within two laps of the read
position, and `MainBehind` says that what main holds of it is behind by no more than the
resets of the read position that have been made. That a list never has more resets
of the write position left than of the read position, and none once the interrupt is
enabled, is `Straight`, kept by dropping the first access (`StraightTail`); that the
first request's resets are over by then is `Paid`.

`NeitherWaits` (`NoStall`) has two hypotheses: `OnlyStarts`, that the host only starts
sessions (section 4 has the request that breaks it otherwise), and `Roomy`, that packet,
look-ahead and a block are less than a lap; in the firmware they are 1920, 512 and 8 of
32768 bytes. The difficulty is main's own hop, whose resets the interrupt tears: after
its first reset the write position may be anywhere. `HopNears` says why the second one
mends that. It finds the read position at the start of a lap; what main has loaded of
the write position was either not moved since or lay before the end of that lap
(`Loaded`), and whichever of the two loads the skip is added to, it ends less than a lap
past the read position or at the start of a lap (`SkipNears`). From there the
interrupt and main's own steps keep it so (`Near`), and in a full ring main then has
either a window to the end of the ring or one of nearly a lap.

`PacketPathProofs`. `TypeCorrect`, `TransfersConserved`, `ControllerOwnsActive` and
`RecordsStable`. The inductive invariant is
`TypeOK /\ Conservation /\ HardwareOwnsActive /\ Ownership`. `Conservation` needs
nothing else; `HardwareOwnsActive` needs it to know that a transfer main fills is
not primed; `BufferStable` is not inductive: `Ownership` says which record each
queued transfer and main's program counter stand for, and that such a record is
marked as used, so that the wait at `hackrf_usb.c` 273 excludes it. That the masked
index stays a record is the lemma `NextInfoType`.

`PacketPipeProofs`. `PipeInOrder` is about the abstract pipe: what is delivered is
increasing and older than what is pending. `PathImplementsPipe`, in
`PacketPathProofs`, is the refinement: initial states map to initial states, and every
step of the packet path is a step of the pipe or a stutter. It rests on the invariant
above and on one more, that the packets of the records in the queue, in
the order of the queue, are increasing and older than the one main holds: without
it, what the controller sends next need not be the oldest pending packet. `PathInOrder`
(`DeliveredInOrder`) is then the pipe's theorem through the refinement.

`BtleSessionProofs`, in two parts.

- *Any requests at any time.* `DynamicKnowsAddress` needs nothing but the code.
  `HearsConnections` (`ListeningHears`) rests on `HearInv`, which says which address main
  has at each of its steps while it takes a connection over; `deaf` is set exactly where
  a request parts address and follow state.
  `TypeCorrect` and `StaysOnMap` (`OnMap`) have the hypothesis `UsedOnly`: the sequence
  `get_channels` computes for a map of the instance visits only channels of that map.
  `get_channels` is a loop over the channels, so proving `UsedOnly` would need
  induction over data; `MCBtleSession` assumes it as `AllMapsUsedOnly`, which TLC
  evaluates for all fifteen maps of the instance. `OnMap` speaks of the states in
  which main is at rest; the invariant `MapInv` says what main may hold in between:
  an argument of `set_channel`, a current channel, a planned hop and a sequence, all
  from the advertising channels, the selected ones or the map, or the 255 of a hop that
  MODE_OFF has taken the plan from, whatever a request changes meanwhile.
- *What `disturbed` excludes.* `HopsAgree`, `StaysOnAdvertising` and `StaysWhereSelected`
  hold for any requests until one comes that main cannot react to in time, and again
  from the next MODE_OFF that finds main waiting. Their invariant is `StartInv`: `BaseInv`
  (which request may await its DATA stage, where main may be) always, and unless
  `disturbed` also `CalmInv`, which states at each of main's program counters how far
  index, current channel, plan and radio are apart, and what a session that does not
  follow yet listens to.

`RadioPathProofs`. `TypeCorrect`, `TunedCorrectly` (`OnChannel`), `PathCorrect`
(`PathAgrees`), `SessionListens` (`SessionReceives`) and `SettingsSurvive`
(`SettingsKept`), for every set of Bluetooth channels and any number of requests at any
step of a hop. All five properties are about the time between hops and say nothing of
the states in between; the invariant `IInv` does. It says that main is idle or at one
of the 18 steps of a hop, possibly inside a commit (`At`), and lists what the steps
before have put right (`Mended`): a shadow register holds the hop's value and the chip
has it or will get it (`Sent`), a group of pins is driven from `switchctrl`, and once
FRAC_LO has been sent with INT and FRAC_HI clean, the oscillator is tuned to all three.
Each step adds its line and keeps the others; none of it depends on the state in which
the hop found the radio, which is why it does not matter what a request did to the
hop before. A request carries out whole operations, and the lemmas named after them
(`SetFreqResult`, `DirectionRxResult`, ...) say what they leave right; in the midst
of a hop it sets `disturbed`, and all that is kept is what does not depend on `Mended`:
the mode main will restore (`prior`), and that `switchctrl` holds what the host has
asked for, or what its fate says has become of it (`Kept`), be it in main's copy
(`loaded`). That the divider tunes within
50 kHz is `DividerNear`, for all forty channels: one digit keeps the error below what is
left of the interval (`DigitAccurate`), and the twenty digits are composed by hand
(`FiveDigits`), not by induction.

`ControlEndpointProofs`. `TypeCorrect` holds for every host, whatever it abandons.
`ActedOnce` (`CarriedOutOnce`), `DataFirst` (`DataArrived`), `OwnServed` (`OwnTransfers`) and
`PoolsWhole` (`PoolsRefill`) speak of the time until requests are `upset`, and have no
hypothesis about the host, the requests or when they come. `upset` is set by a request
that is abandoned, by the one that follows a refused start of the dynamic mode, and when
the interrupt takes a completion for another request's and its handler does something;
a late completion with which it does nothing is part of the claim. The invariant is
`upset \/ IInv`, and what the four properties do not say, and `IInv` does, is what the
queues hold in between. In each queue there is at most one
finished transfer of the request before (`left`), then at most one of the request read last
(`own`: none, primed, done, or handled and not yet given back). `Position` is a table:
for each way a request may go (`Roles`) the phases of the host with the `own` transfers,
whether it has been carried out and whether
the endpoints are stalled; for the refused start of the dynamic mode that includes its
acknowledgement, primed when the request is over. `Completions` says that the
controller's flags are exactly the finished transfers the interrupt has not seen. A SETUP
packet keeps both; reading it
turns what was `own` into `left`; a completion is then either one in which the handler
does nothing (`CalmCompletion`), or its stage is the one the request has come to
(`DataCompletion`): `SeenStep` shows that anything else sets `upset`. That the pool
matters nowhere but in `TypeCorrect` is no accident: a full pool makes the interrupt
wait for ever, which is a question of liveness.

`HostSessionProofs`. `TypeCorrect`, `SlotsHandedOver` and `PrintsInOrder`, for every
size of the ring. `IInv` is `TypeOK /\ RingInv`: the slots from the read counter to the
write counter hold packets, in the order they arrived, all newer than what has
been printed, and the rest are empty. The code's own test for a full ring lets one
packet too many pass; that a written slot is empty follows from its length check,
and that the counters are never further apart than the ring is long from both.

`HostStreamingProofs`. `SubmitsIdle` (`SubmittedIdle`), `SessionsRun` (`SessionRuns`) and
`TypeCorrect`, for every number of transfers, calls, kills and failures. A stop cancels
transfers after the thread that would see them is gone, and nobody waits for their
reports; the proof says why the next session is safe all the same. Two orders carry
it: the device is switched off before anything is cancelled, so that nothing
completes, and is submitted again, afterwards; and the kernel reports in the order
transfers ended, so that the answer to the next request is reported after all of
them. `Between` is that argument as an invariant: between sessions nothing is
submitted, no report says completed, and an answer is the last report. `Told` says what
the device knows at each step of a call, `Begins` and `Runs` where the transfers are
when a session is started and while it runs. The rests of calls are named one by one
(`Off4`, `Join11`, ...), so that each step of a call leads from one kind to the next.
With the device told last, as `hackrf_stop_tx` does, `SubmittedIdle` fails: it is the
mutant of that property.

Only model-checked: liveness and everything that depends on fairness; what the
recursive functions of `ChannelMap` compute, which would need induction over data.

## 6. Not modelled

- Bit arithmetic of demodulation and de-whitening: no state beyond the window it reads.
- The time of a planned hop: floating point; hops are due or not due at any time.
- Gains, transmitting, bands outside 2.4 GHz, clock generation, SGPIO and CPLD set-up:
  register writes that a sniffing session makes once or never. The CPLD update,
  the sweep mode and the stock streaming loops are not reached in this firmware.
- A register garbled by a request inside main's open SPI transfer: that transfer is
  lost or arrives.
- A bus reset between a flush and a prime, and requests without end: see section 4.
- Contents of descriptors, flash, board and register requests: stateless; their use
  of the control endpoint is in `ControlEndpoint`.
- The stock HackRF command line tools and everything vendored (`libopencm3`,
  `xapp058`): not code of this project, and most of the repository's lines.
