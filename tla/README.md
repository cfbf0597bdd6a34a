# Verification of the GPRS meter module firmware

The repository is the firmware of a GPRS module that sits beside an electricity
meter: an LPC2132 that talks to the meter over UART0 (IEC 62056-21 mode C), to a
GSM modem over UART1 (AT commands), through the modem to a data server (frames
`68 ... 16`), and that stores one record of readings per hour in its own flash.
All code is in `src/GPRS-OFFICIAL-V1.0/source/`; file names below are relative
to it.

The program is one endless loop in `main()` and five interrupt handlers. There
is no operating system: everything that can interleave is the loop against the
interrupts, and everything that can fail is the modem, the network, the server,
the meter, the supply and the flash.

## Inventory

| Component | State | Operations | Hard behaviour |
|---|---|---|---|
| Connection supervisor: `main.c`, `gprs_com.c`, Timer0 in `LPC213x_isr.c` | `system_flag`, `temp_var`, `counter_reset_gprs`, `program_counter` | recovery loop, `prepare_config_mudule`, `send_command_to_server`, `get_command_from_server`, `send_data_to_server`, `myTimer0_ISR` | flags shared with an interrupt by load/modify/store; sockets that die unnoticed; retries; fail-over to a second address |
| Hourly freeze: `save_flash.c`, `rtc.c` | four blocks of 24 flash pages, `counter_minute`, static `mode`, `my_bl_data` | `check_int_min`, `check_sector_current`, `prepare_freeze_frame`, `freeze_frame`, `read_freeze_frame`, `RTCHandler` | restarts between two steps, hours missed, the hour changing inside a freeze, a ring of blocks found by day of month |
| Modem channel: `gprs_com.c` 40-98, UART1 in `LPC213x_isr.c` | `uart1_rx` (state, flags, buffers) | `prepare_command_gprs`, `wait_response_command_gprs`, `myUart1_ISR` | time-outs racing late answers, unsolicited lines, a state that outlives its command |
| Announcements: `gprs_com.c` 284-340, UART1 | `unread`, `CHECKING_NEW_COMMAND` | `get_command_from_server`, `myUart1_ISR` | lost increments, a reset that drops notifications, eight-bit wrap |
| Meter link: `read_para.c`, UART0 in `LPC213x_isr.c` | `check_frame`, `start_frame`, `stop_frame`, `buffer_PLC`, static `start_OK` and `index` | `sign_in`, `return_data`, `load_data_meter`, `read_para`, `set_time_from_rtc`, `myUart0_ISR` | late and cut frames, an endless retry that only the watchdog ends, reads that fail and leave old data in place |
| Server frames: `gprs_com.c` 342-478, `read_para.c` | `buf_send_server`, `commands`, `config_network` | `check_data_rx_server`, `process_server_*`, `write_data_metter`, `caculate_checksum` | damaged bytes, a clock that ticks while it is set or read, lists of commands whose fields differ in length |
| Flash driver: `iap.c` | `VICIntEnable` and its saved copy, flash, what the ROM has prepared | `iap_Write`, `iap_Erase_sector`, `iap_Erase` | early returns with interrupts masked, commands refused or cut short, results that the callers drop |
| Delays, watchdog: `delay.c`, `wdt.c` | `timer_delay` | `delay_n50ms`, `delay_nsecond`, `clear_watchdog` | a loop that starves the watchdog |
| Set-up: `init_system.c`, `gpio.c`, `uart0.c`, `uart1.c`, `Startup.s`, tables in `variable.c` | registers | straight-line | none |

How they interact: `main()` calls `read_para()` (meter), `prepare_config_mudule()`
and `send_*` (modem), `get_command_from_server()` (modem, then meter or flash,
then modem again) and `check_int_min()` (meter, flash), one after the other.
The interrupts write `system_flag` (Timer0, UART1), `program_counter` (Timer0),
`uart1_rx` (UART1), `buffer_PLC` and `check_frame` (UART0) and
`rtc_flag.counter_minute` (RTC); the loop reads them, clears them, and rewrites
whole words of them.

What would make each component correct:

* supervisor: never past the recovery loop without an opened socket; a login
  belongs to the present socket; a dead socket is noticed; either address is
  reached in the end; heartbeats only while logged in;
* freeze log: one block per day; today's records stay readable; flash is
  programmed once between erases; no hour is forgotten;
* modem channel: a command is reported successful only if the modem accepted it;
* announcements: every frame the modem holds is fetched in the end, but for as many
  as announcements were lost in one of few named ways;
* meter link: a value is stored under the name it was asked for;
* frames: whole frames are accepted and damaged ones are not; every command in a
  list is tried; answers have the length they announce;
* flash driver: a positive result is true of flash, no other page changes, and
  interrupts are given back.

## Modules

| Module | Models | Checked by | Proved in |
|---|---|---|---|
| `LinkSupervisor` | `main()`'s loop, socket and session part of `gprs_com.c`, Timer0 | `LinkSafety`, `LinkLive` (module `MCLinkSupervisor`) | `LinkSupervisorProofs` |
| `FreezeLog` | `save_flash.c`, the hour interrupt, restarts, clocks set by the server | `Freeze`, `FreezeNoData` (module `MCFreezeLog`) | `FreezeLogProofs` |
| `CommandChannel` | what the rest of the firmware may rely on when it talks to the modem (abstract) | through `ModemChannel` | |
| `ModemChannel` | `gprs_com.c` 12-98, the receiver in `myUart1_ISR`, the modem (external) | `ModemSafety`, `ModemSendOk` (module `MCModemChannel`) | `ModemChannelProofs` |
| `MeterLink` | sessions with the meter in `read_para.c` and `save_flash.c`, UART0 receiver, watchdog, the meter (external) | `MeterSafety`, `MeterEnds`, `MeterForeign` (module `MCMeterLink`) | `MeterLinkProofs` |
| `NotifyFetch` | `get_command_from_server()`, the announcement detector in `myUart1_ISR`, the frames in the modem (external) | `Fetch` (module `MCNotifyFetch`) | `NotifyFetchProofs` |
| `FlashStore` | what callers of the flash driver may rely on (abstract) | through `IapDriver` | |
| `IapDriver` | `iap.c`, the ROM's commands and the interrupts (external) | `Iap` (module `MCIapDriver`) | `IapDriverProofs` |
| `ServerFrame` | a frame byte by byte, `check_data_rx_server()`, `caculate_checksum()` | through `ServerRequests` | `ServerFrameProofs` |
| `ServerRequests` | the dispatch of `process_data_rx_from_server()`, the `process_server_*()` handlers, `write_data_metter()`, `read_data_meter()`, the layout of the hourly record | `Requests` (module `MCServerRequests`) | `ServerRequestsProofs` |

How the modules fit together: `ModemChannel` says which late successes
`LinkSupervisor` must expect of an open or a send; `NotifyFetch` takes over where
`LinkSupervisor` only says what a pass of `get_command_from_server()` found, and
hands its frames to `ServerRequests`; `ServerRequests` leaves the dialogue of a
reading or a write to `MeterLink`, and its clock is what `SetClock` of `FreezeLog`
sets; `FreezeLog` writes pages through calls that `IapDriver` models one step at a
time.

### LinkSupervisor

`pc` names the next statement of the loop, `ret` where the call in progress
returns to. The statements that touch what the Timer0 interrupt also touches are
actions of their own; a statement that loads, changes and stores the flag word
(set `Rewrites`) may be hit by a tick in the middle, which is `Tick(FALSE)`: the
timers advance, the flags the tick raised are overwritten by the store. The five
stores of `case COMMAND_LOGIN` are five actions (`ClearWait` to
`ClearSendSocket`); between two of them, microseconds apart, at most one tick
falls (`Adjacent`, `ticked`), because ticks are 50 ms apart.

Everything the modem may answer is an alternative: `OpenOk`, `OpenFail`,
`OpenLate`, `SendOk`, `SendFail`, `SendLate`. The `Late` ones are the answers to
an earlier command that timed out and that the program takes for the present
one. `reach` is the set of addresses the network lets through now, `link`
whether the modem holds a live socket, `accept` the server's answer to a login
on its way. What a pass of `get_command_from_server()` finds is one of
`FetchNothing`, `FetchLogin`, `FetchSocket`, `FetchRequest`. `SEND_LOGIN` and
`SOCKET_OK` are left out because no statement reads them, `timer_delay` because
delays are abstract; the other bits of the word play no part here. A reset
(watchdog or supply) has no action of its own: its result is `Init`, and no
state of this module survives it. `accepted`, `lost` and `ticked` are history.

### FreezeLog

Page `p` is flash address `0x1000 + 256 * p`; the four blocks start at pages
`First(0..3)` (`day_sector`, with `Hours` pages per block instead of 24). A page
is blank, a header page (`0x00` in byte 5) or a record (`0xC3`), with its stamp;
the readings themselves are not told apart. `CheckIntMin`, `CheckSector`,
`Prepare`, `Place` and `Write` are the five parts of a freeze between which the
clock may move or the power may fail: `Place` holds the erase of the next half.
`Hour` advances the RTC, which also counts while the module is off; `SetClock`
is the server setting it, between two freezes, to any hour of any day, without
an hour interrupt; `Fail` clears what C start-up code clears, `mode` among it.
`rolled`, `frozen` and the counters of disturbances are history; `Faults` bounds
how many disturbances of all kinds one behaviour has. The stamp of a record is taken
in `Prepare` and its page chosen in `Place`: `FiledByHour` says how far apart the two
may lie, which is one hour, after a freeze that ran over.

### ModemChannel

The loop is `pc`: "idle" between commands, "prepared" when
`prepare_command_gprs()` has cleared the flags, "waiting" when the receiver
state is set and the command printed. The two steps are separate because the
interrupt may receive between them while the receiver is still in the state the
last command left. `Following` is the order in which `main()`,
`prepare_config_mudule()` and the service loop issue commands; the status
queries (`AT%ETCPIP?`, `AT+COPS?`) are "config" commands, for they too wait for
`OK` and may time out. `Return` is a poll that finds a flag, `TimeOut` the end
of the polls; the callers of "start" and "fetch" look at the buffer when their
delay is over, whatever it holds by then. `Rest` is a pass of
`get_command_from_server()` that has nothing to fetch, which puts the receiver to
rest.

The line carries words framed by line feeds; the interrupt's per-character
automaton is translated word by word (`RxWait`, `RxData`, `RxSend`, `RxStart`),
`line` and `data` are the sets of words in the two buffers. `RxSend` decides on
single letters, so what it does with each word is worked out from the word's
letters; of data, notes and the start-up message only is assumed that they hold
no `K`: `RxSend` may be armed or refused by any of them. That a line feed opens
an answer by overwriting the buffer from its start is `line = {}`. The
notification half of the interrupt (`unread`) is left to `NotifyFetch`;
`UART_CHECK_PARA` is left out because no caller selects it.

The modem (external) answers commands in order, may ignore one, may speak by
itself (`Note`), and the receiver may drop a word (`Lose`). Switching the modem
off and on ("start") cuts off everything it owed. `granted`, `owing` and `quiet`
are history.

`CommandChannel` is the promise: a success uses up one acceptance the modem
really gave. `ModemChannel` implements it with `busy` = waiting, `asked` = the
commands the modem has still to answer, and `credit` = the affirmative words on
the wire plus one if the receiver holds an acceptance no verdict has used
(`Promised`). It does not promise whose acceptance it was: see Findings.

### MeterLink

A session is a dialogue: three requests of `sign_in()`, then one per code
(`Script`). `Begin` starts one of the five kinds, `at` is the request whose
answer is awaited. `Seen` is a poll that finds `check_frame`, `TimeOut` the end
of the polls; each does what the caller does with the outcome and then resets
the receiver and sends the next request (`Request`). `sign_in()` repeats its
first request for ever; `read_para()`, `set_time_from_rtc()` and the freeze
ignore its result, the two server commands do not (`Leave`).
`set_time_from_rtc()` gives up at the first read that fails, and sets the clock
from an uninitialised array ("junk") when the text has no parentheses.
`data_PLC` is the scratch string of `read_para()`, whose fields are formed from
it whether the read succeeded or not. In a freeze the `code` of an entry of
`reply` is history: the record only lists the values, so that a gap moves all
that follow.

The receiver is `rx`: `started` is `start_OK` and `beyond` says that `index` is
not 0, both static in the interrupt and untouched by `clear_para()`; `head` says
that `buffer_PLC[0]` is not 0, for the buffer is cleared but a frame under way
goes on at its old index, and `strlen()` then finds it empty. `text` is the
first complete "code(value)". A character takes eight milliseconds and the loop
polls every one, so `Receive` waits while `check_frame` has not been seen. The
check character after `ETX` may have any value: it may look like the start of
the next answer ("BCC" in `Receive`). `Disturb` loses one character, spoils the
text, loses its closing parenthesis, or cuts off the rest.

The meter (external) answers in order, late or never, and holds `Pending`
requests. `wdt` counts the seconds since the watchdog was fed: nothing below
`sign_in()` feeds it. `Reset` clears what C start-up code clears. `signed`,
`mistaken`, `clean`, `prompt` and `old` are history.

### NotifyFetch

The modem announces a frame with a line that starts `%IPDATA`; the interrupt
counts announcements in the eight bits of `unread` (`Width` values here), and
the loop asks for one frame per count with `AT%IPDR`. `unread--` and `unread++`
of the loop are each a load and a store (`Load`/`Store`, `Again`/`Bump`),
because the interrupt may count between them; so is any write to the flag word,
of which `CHECKING_NEW_COMMAND` is a bit (`Rewrite`/`Rewritten`). `Serve` stands
for the rest of the loop. An announcement is two steps, its `%` (`NoticeBegins`)
and its `A` with the line feed that ends it (`NoticeEnds`), which also ends the
reception of an answer that is being waited for.

`After` is what the loop does with what it received: an error empties the count,
a frame that is cut short or a `SYN_TIME` that is rejected counts it up again, the
rest serves the frame. The modem (external) holds frames, hands each out once,
and may announce falsely, late, or not at all; an answer may be late or spoilt,
and a close of the socket may take the frames away. `lost` and `late` are history:
`lost` counts announcements that the program or the line loses, one by one, and no
step forgives one. They are: an announcement whose `%` was forgotten by a rewritten
flag word (`NoticeEnds`) or that was not understood (`NoticeLost`); those counted
between a load of `unread` and its store (`Overtaken`, in `Store` and `Bump`); those
`unread` held when it wrapped (`NoticeEnds`, `FalseNotice`, `Bump`); and at
`unread = 0` (`Zero`) those counted since the modem, when it answered with the error,
had no frame. `late` counts the latter, from the last `AT%IPDR` that found the modem
empty, or the last `Zero`, on.

`Covered` says that no more frames than that are left without an announcement, with
no exception: the code does leave a frame behind when an announcement arrives between
the modem's `ERROR` and `gprs_com.c:300`, and every such frame is on the account.

### FlashStore and IapDriver

A page is what one `iap_Write()` programs, and its content the set of bits that
are 1. `FlashStore` is what `FreezeLog` relies on: one job at a time, other
pages are left alone, programming only clears bits and erasing only sets them, 0
is the answer only when flash holds what was asked for and 1 only when there was
nothing to erase; a power failure leaves the pages of the job anywhere on the
way.

`IapDriver` has one action per step of the three functions: `Begin` (save
`VICIntEnable`), `Mask`, `Check` (blank check), `Prepare`, `Change`, `Verify`,
each with its early returns, of which every one sets `VICIntEnable` again
(`Return`). The ROM (external) may refuse to prepare, refuse to change, or stop
half way and report either success or failure (`Fault`). Interrupts come at any
time (`Raise`) and are handled when they are enabled (`Handle`); a handler that
is due runs before the next instruction of the loop (`NotInterrupted`).
Addresses behind the flash and empty ranges of sectors are calls too.

### ServerFrame and ServerRequests

`ServerFrame` is the only place where bytes count: `Frame` builds, `Accepted`
judges as `check_data_rx_server()` does, with the checksum where the announced
length puts it. `ServerRequests` lets one byte of a frame be damaged
(`Receive`), judges it (`Check`), and runs the handler of its control code.

Setting the clock is one step per register (`SetRegister`), reading it one step
per digit (`LoadDigit`), since each register is loaded once for its tens and
once for its units; the clock may tick in between. Of the texts that are passed
to and from the meter only their lengths matter: `WriteData` is the loop of
`write_data_metter()` up to the next code, which it finds by looking at every
position behind the field before; `Collect` and `FreezeReads` are
`read_data_meter()`, for a direct reading and for the hourly record. A reading
may fail, come short, or hold a character that is no hexadecimal digit. Where
`write_data()` copies an access point name of 32 characters into arrays of 20
the behaviour is undefined: `ApnOverrun` says that the module may stop there
until the watchdog restarts it. `damaged`, `foreign`, `gap`, `tried`, `due` and
`ticked` are history.

## Runs

| Run | Bounds | Shows |
|---|---|---|
| `link_safety` | retry 2 ticks, heartbeat 4, address 1, one late answer | types and counters, sends only on an opened socket, login belongs to the socket, heartbeat waits for the login; a dead socket is noticed, whatever the network does |
| `link_live` | retry 2, heartbeat 3, only address 2 ever answers, one late answer | it is reached; on a stable socket the module logs in again and again |
| `freeze` | days of 3 hours, months of 5 days, 2 months, up to two of: a restart, 2 missed hours, a freeze over the end of an hour, a clock set by the server | types, one block per day, no hour forgotten, records filed under their hour, no page programmed twice; without a disturbance every hour of today is readable |
| `freeze_no_data` | days of 3 hours, months of 6 days, one missed hour | **violated**: see Findings |
| `modem_safety` | 6 commands, one unsolicited line, one lost word | types, a success without an earlier answer outstanding is real, a prompt answer is seen, `CommandChannel` is implemented |
| `modem_send_ok` | 5 commands, a quiet line | **violated**: see Findings |
| `meter_safety` | 3 sessions, 3 time-outs, one disturbance, 2 requests pending, watchdog after 3 s, 2 codes to read and to write | types, an undisturbed session stores everything under its own name, losses never mislabel, a handshake shuts out earlier answers, the others are used in order |
| `meter_ends` | 3 sessions, every request may time out, watchdog after 2 s | every session ends |
| `meter_foreign` | the first session, one time-out | **violated**: see Findings |
| `fetch` | 4 frames, `unread` of 3 values, 2 faults | types, no more frames without an announcement than announcements were lost in the named ways, all others are fetched, the polling comes to rest, every request uses up some of what can still be asked |
| `iap` | one small sector of 2 pages and a large one of 2, two bits, two interrupts, one fault | types, interrupts masked in the driver and enabled outside, results without a fault, an interrupt is served in the end, `FlashStore` is implemented |
| `requests` | bytes of six bits, 4 payloads one of which is too long, digits to base 2, a clock of few values, lists of up to 3 commands | types, frames judged rightly, the clock set and read rightly but for named exceptions, every command tried, answers sound, the record fits |

Why the bounds are enough. The timers are compared with their periods only, so
what matters is their order and that a tick may fall anywhere; 2 is the least
retry period for which a tick between two stores does not fire it at once. The
fail-over takes three power cycles of two failed reconnects each, all within the
bounds of the code's own counters, which are not reduced. The safety properties
of `link_safety` are proved for every set of addresses, so one is enough there.
Blocks are reused when the fifth day begins and days of the month recur after
`Days` days, so five days in a month and two months let a block outlive the
month it was written in; three hours give a block a first, a last and another
page. More than two disturbances together are left to the proofs, which bound
none; `TodayKept` speaks of behaviours without any. Six commands are the least
that give a whole chain of start, configuration, open, send, fetch and send, so
that every receiver state is once left behind for every kind of command that can
follow it; one stray line and one lost word are each enough to put the framing
out of step. The first two sessions with the meter are always `read_para()` and
the clock; the third is of any kind and starts from whatever they left behind,
and a reset makes it the first again. Two codes tell a value from its neighbour;
a watchdog of 3 s lets the first request be repeated twice and still bites
inside a session. In `meter_ends` `Delays` is the product of sessions and
seconds, so that it never stops a time-out. With three values `unread` wraps
while four frames can still be outstanding, both ways. Two sectors of different
kind with two pages each tell a page from its neighbour in the sector and from
the next sector, and `Get_Sec_Num()` has its boundary between them; one fault is
one more than a call of the driver can repair. Two bits are the least for which
a page is half programmed. Bytes of six bits hold the control codes (up to 53)
and both frame bytes, brought into range; the checksum works for every width.
Fields of four lengths in lists of three give every pair of neighbours, and the
record is built from the real table of widths.

Fairness. `BoardSpec` assumes the board only: the processor keeps running
(`WF(Main)`), the timer interrupt keeps coming, and a tick that has a flag to
raise is not always hit by a rewrite (`SF` of `Tick(TRUE)`), because the
rewrites take a few instructions every few seconds. `DeadLinkDetected` needs no more.
`LiveSpec` adds the network: `SF` of `OpenOk`, `SendOk` and `FetchLogin` says
that one that is offered the chance again and again works now and then, which is
what the recovery is written for; no property asks for it in the state in which
it is needed once only. Late answers are counted and their number is bounded by
the constant `Lates` (1 in the runs). `ModemChannel` shows where they come from
and what they need: every one uses up an answer the modem owed an earlier
command. It also shows that the bound is an assumption: a command that succeeds
with an earlier answer leaves its own answer outstanding, so a shift by one may
go on until a command is refused, ignored or the modem is restarted. The
liveness results hold for networks in which it ends. `ModemChannel` and
`ServerRequests` state safety only and assume no fairness. `BoardSpec` of
`MeterLink` assumes that the processor runs (`WF(Main)`) and the watchdog counts
(`WF(Reset)`), and nothing of the meter. `NotifyFetch` assumes that the loop
runs (`WF(Main)`), that an announcement that was sent is received to its end,
and that an answer to `AT%IPDR` arrives (`WF(Deliver)`; without it the time-outs
would not be bounded by `Faults`). It asks nothing of lucky interleavings: what
an unlucky one loses is counted in `lost`. `IapDriver` assumes that the processor runs,
through the driver as through the handlers of enabled interrupts.

## Proofs

`LinkSupervisorProofs` proves `TypeOK`, `SendsOnOpenedSocket`,
`AcceptedSession` and `HeartbeatNeedsLogin` for all periods with
`2 <= LoginTicks < SocketTicks` (the code has 600 and 3000) and all sets of
addresses. The inductive invariant adds to the types: where each call may return
to (`Calls`), how many failures may be outstanding where (`Counts`), that
whenever the socket is not open `SEND_ERROR` is set or the program is between
`ClearConnect` and its end (`Sockets`), where a stale `LOGIN_OK` may still be
seen (`Sessions`), and that the heartbeat timer stays behind the retry timer
until the latter fires, through every order of ticks and stores (`Heartbeats`).
One lemma per part, one step per action.

`FreezeLogProofs` proves `TypeOK`, `DistinctDays`, `HourNotLost`, `FiledByHour` and `WriteOnce`
for every calendar and any number of restarts, missed hours, late freezes and
clocks set by the server. The strengthening says which block a running freeze
aims at (`Addresses`, `Aimed`: as long as no freeze ran over the end of its
hour, the block it will write is the only one that may carry the present day)
and that a freeze that ran over is on the books (`Rolling`). For `FiledByHour` it
follows the stamp from `Prepare` to `Place` (`Stamping`: the clock is at most one hour
ahead of it, for `Hour` strikes once in a freeze and nobody sets the clock meanwhile)
and from there to `Write` (`Filing`). It also proves
`TodayKept`, for months of four days or more, from the ages of all four blocks in
days (`Ages`): without interruption only a few combinations of ages and `mode` can
begin a day (`Dawn`) or be met during it (`Day`, `Late`). They show that blocks 0
and 1 take turns, that blocks 2 and 3 are left to grow old until the day of month
of block 2 comes again, that both are then erased before the day's first record is
written, and that no erase ever takes the block of the present day.

`ModemChannelProofs` proves `TypeOK`, `SoundVerdict` and the refinement
`Spec => EverySuccessEarned` for any number of commands, unsolicited lines and
lost words. For `SoundVerdict` the strengthening follows a command that was
issued with nothing outstanding: until the modem accepts it there is no
affirmative word on the wire and nothing in the receiver, whatever its state,
that could become a success (`Prepared`, `Waiting`, `Untouched`), and afterwards
`granted` holds (`Granted`). The refinement needs one invariant besides the types:
`SEND_OK` is raised only while a send waits (`Sending`). The rest is counting: a
framed word adds its own acceptance to the wire (`CountFramed`), receiving one
takes it off (`CountTail`), and no word that is not an acceptance makes a promise
(`NoNewPromise`); one step per action then maps it to a step of the channel.
`PromptAnswerSeen` follows the acceptance from the wire to the verdict: if nothing
else came, the receiver is as the command prepared it (`Primed`), has been opened
by the first line feed (`Opened`), has heard the answer (`Heard`) or satisfies the
caller (`Undisturbed`).

`MeterLinkProofs` proves `TypeOK`, `OwnValues`, `LossesNeverMislabel`,
`FreshSession` and `UsedInOrder` for all codes, any number of sessions, time-outs and
disturbances and any `Pending`. What is left of an answer has one of a few forms (`Shapes`).
`FreshSession`: each of the three answers of the handshake uses up one that is
still to come, for the character that completes it is also its last but for the
check character of the option message (`Aged`, `Spent`); a meter that holds
`Pending` requests owes at most `Pending + 1` answers when the session begins,
which leaves `Pending - 2`, none for two. `LossesNeverMislabel`: while no request
times out before its answer is gone, the line carries the answer to the present
request or, after a check character that passed for one, that to the password
before it (`Line`). `OwnValues` adds what the receiver makes of an undamaged answer,
a frame that the check character opened too early included (`Following`), and
how many codes have been served (`Collected`). `UsedInOrder`: during the handshake the
meter holds no other request of this session (`Own`), so that when the third answer is
seen nothing but answers of the handshake is still to come; from then on three numbers
keep the values taken, the text received, the answer on the wire and the requests in the
meter's queue apart (`Coming`), and the next request is behind them all. The property
says that the values can be assigned to requests in increasing order, so a direct
reading that names a code twice is covered too. `EveryTurnCounts` is the part of
`SessionEnds` that needs no fairness: the requests still to send and the seconds the
watchdog still allows are a natural number that every turn of the loop makes smaller
(`TurnSeen`, `TurnTimeOut`: no time-out goes back to an earlier request, and only
that of the first stays where it is) and that nothing else makes larger.

`NotifyFetchProofs` proves `TypeOK` and `Covered` for every width of `unread`,
any number of frames and any number of faults. The strengthening says that a `%`
without its `A` belongs to an announcement still counted as on its way
(`Halved`) and that the frames in the modem are at most the announcements that are
still to come, that came since it last had none, or that were lost (`ErrorsFresh`):
that is why `unread = 0` costs no frame but for those announcements that came after
the error. The rest is arithmetic: each step that loses a count adds as much to `lost`
(`Stored`, `Came`, `CameAfterError`). It also proves `AskingEnds`, the part of `Quiesces` that needs no
fairness. `Patience` weighs what can still make the loop ask: a frame that the server
has still to send or the modem to hand out, its announcement and a disturbance
weigh 6, a count 3, an answer 3 or, if it is an error, 1, and the steps between are
given what makes each of them pay for the next (`Parts`, `Spending`). The interesting
payments are those of an update that the interrupt has overtaken, which may give
back the whole width of `unread` or take it, and of a rejected frame, which counts
once more but was one frame of the modem. `Patience` is written for the proof; what
it means is that there are at most `Patience` requests from any state on.

`IapDriverProofs` proves `TypeOK`, `Masked`, `FaultlessCalls` and the refinement
`Spec => Implements` for every geometry of the flash, any set of bits and
interrupts and any number of faults. The strengthening says that a call past its
mask has saved every line in use (`Begun`) and that without a fault a page that
reaches `Verify` holds what the command makes of it (`Done`). Steps of the
driver that touch no flash map to stutters or to `Work`, each return to
`Answer`, each power failure to `PowerFails`.

`ServerFrameProofs` is about the bytes. The checksum is a fold, that is, a
recursive function chosen by `CHOOSE`: that it exists, and that it can be computed
byte by byte, is proved from the least number principle (`LeastNumber`, from
`WFMin` of `WellFoundedInduction`): of the prefixes for which it failed one would be
the shortest (`FoldExists`, `ByteByByte`). `IntactFrame`: a frame that arrives as it
was built announces its length and is accepted if that is not too long.
`DamageNoticed`: one damaged byte that is not of the length changes one term of the
sum, by less than `ByteValues`, or the sum itself or the end byte, and is refused.

`ServerRequestsProofs` proves all invariants of `ServerRequests`, `TypeOK`,
`FrameJudged`, `SetRight`, `ReadRight`, `EveryCommandTried`, `AnswerSound` and
`RecordFits`, for every calendar, every base of the digits, all payloads and lists of
any length. `FrameJudged` is the two theorems about frames, carried to the line
(`LineInv`). `EveryCommandTried`: the commands start where the widths of those before
add up to (`CommandByCommand`, another fold), so the first start at or behind the
place the scan has reached is that of the next command, which it reaches without
stepping over it (`Starts`, `Scanning`). `RecordFits`: the widths of the forty
readings of an hour add up to 346, and no reading brings more than its own
(`Widths`, `Recording`).
`SetRight`: the registers already set show the time that is due, and a tick is due
to both, unless it carries out of the second (`Setting`). `ReadRight`: the digits
read before the tick are of the old time, the others of the new (`Loaded`), so if
at most one digit differs the whole is one of the two times. `AnswerSound`: what
is acknowledged or collected comes in whole bytes, or a reading came short
(`AnswerInv`, `Whole`).

Assumptions: `TicksAssumption`, `ServersAssumption`, `LatesAssumption`,
`CalendarAssumption`, `MonthAssumption`, `BoundsAssumption` (of `FreezeLog`, `ModemChannel` and
`NotifyFetch`), `CodesAssumption` (the codes that are read and written differ from
each other's and from the fixed words), `LimitsAssumption`, `WidthAssumption`,
`GeometryAssumption`, `FaultsAssumption`, `BytesAssumption`, `ClockAssumption` and
`ListAssumption`, nothing else. The last says that the control codes of the handlers
are bytes (there are 256) and that the length of what is sent, and of what a list may
collect, fits the two bytes of the length: in the code a text has at most 1000
characters (`system.h`).

Only model-checked: the liveness properties (`DeadLinkDetected`,
`EventuallyLoggedIn`, `Failover`, `SessionEnds`, `Drained`, `Quiesces`, `Served`),
which are out of the prover's reach; of `SessionEnds` and `Quiesces` the part
that needs no fairness is proved (`EveryTurnCounts`, which is left to the proof alone,
and `AskingEnds`). Every invariant and every action property of a passing run is proved.

## Findings

`freeze_no_data`. When the first freeze of a day happens after hour 0 (one hour
was missed) and the block is in sectors 4 to 6, `check_sector_current()` writes
a header page with the day, and `freeze_frame()`, whose `mode` is still 0, then
erases sectors 4 to 6, header included, before it writes the record. The record
is in flash but its block carries no day, so `read_freeze_frame()` does not find
it and the server is told "no data freeze in flash" (`read_para.c:345`), until
the next freeze writes a header again; if the missed day ended there, the
block's first page is later given to the next day, and the record answers for
that day's request instead.

`modem_send_ok`. `send_command_to_server()` clears the alarm with the comment
"send Data to sever ok" (`gprs_com.c:274`) when the modem's `OK` arrives. The `OK`
need not be the answer to the send: a configuration command times out, its `OK`
arrives while `AT%IPOPEN` is awaited and is taken for it (an open is satisfied by
`OK` as well as by `CONNECT`), the open's own answer then satisfies the send, and
the send itself, refused or never answered, is reported as sent. Nothing is lost
on the line and the modem does nothing unusual but answer late. What does hold is
`SoundVerdict` and `EverySuccessEarned`.

`meter_foreign`. `read_para()` drops the result of `return_data()`. When C108 is
not answered within a second, `data_PLC` still holds the answer to C107 and the
second server address is formed from the first bytes of the access point name,
under the comment "read IP2" (`read_para.c:139`). A C106 that fails makes the
port from the first address in the same way. `OwnValues` is what holds: nothing
goes wrong in a session whose answers all come.

`FreshSession` and `UsedInOrder` exclude one case, which TLC finds at once: if the
check character that follows the meter's option message has the value of ACK, it
passes for the acknowledgement of the password (`mistaken`), and an answer
to an earlier session may then still arrive. Both speak of the depth of the meter's
queue: the handshake uses up three answers, so with more than two requests held
an older answer may follow it. `UsedInOrder` leaves the rest of the session's own
option message (`P0`) out: after nine time-outs, more than the run allows, it can be
taken for the first value.

Seen while modelling, not stated as properties because nothing in the
repository claims otherwise:

* a reset clears `mode`, so a reset during a day in blocks 2 or 3 makes the next
  freeze erase that half, today's records included; a record is found by day of the
  month alone, so a request for last month's day is answered with this month's; a
  freeze that runs over midnight may give two blocks the same day;
* if every open succeeds and every send fails the modem is never power-cycled,
  because only failed opens are counted (`main.c:93`); `SEND_DATA_ERROR` is
  never tested, so a refused send is noticed by its time-out only (`gprs_com.c:90`);
  an accept frame carries nothing that ties it to a login, so a late one counts
  (`gprs_com.c:427`); `index` wraps in a line that is too long (`LPC213x_isr.c:94`);
* a `SYN_TIME` is asked for again when its digits are rejected, but the modem has
  handed the frame out: the extra count ends in an error, which empties `unread`;
* the clock may be set to day 0 or month 0, for only the upper bounds are tested
  (`read_para.c:394`), and in a list of writes a code may begin inside the field before it:
  a field that ends `1FD` in front of a `3080` reads `1FD3` (`read_para.c:698`);
* a short frame gives `read_para.c:593` a negative length, which is taken as an
  unsigned one; `stringconvert.c:22` tests the second digit from 30, not 0x30;
* only a new access point name sets `RESET_CONFIG`, a new address or port does
  not (`read_para.c:718`); a new second address (08C1) is acknowledged under the code
  of the first, 05C1 (`read_para.c:711`); a direct reading of everything may exceed the
  1000 characters of `buf_send_server` (`read_para.c:846`);
* `read_freeze_frame()` reads 256 bytes into `buffer_frezze[200]`
  (`save_flash.c:227`).

## Not modelled, and the plan

Next, in this order:

1. Compositions: `LinkSupervisor` over `CommandChannel`, whose late successes are its
   `OpenLate` and `SendLate`; the freeze under a supervisor in recovery (how many
   hours are missed); `FreezeLog` over `FlashStore`, with writes that fail and whose
   result is dropped.
2. Proofs about these compositions, and a measure like the `TurnsLeft` of `MeterLink` and `Patience`
   for `DeadLinkDetected`.

Parts of modelled components that are left out: the name of the network in the
answer to `AT+COPS?` and `UART_CHECK_PARA` (no caller); the order of digits
inside a value, fields that contain a code and frames too short for their list
(their outcome is memory beyond the frame); `iap_Read()`, which copies memory,
and `iap_BootLoaderVersion()`, `pll_on()` and `pll_off()`, which nothing calls;
the alarm half of `RTCHandler`, which only acknowledges.

Left out for good: set-up of clocks, pins and UART registers, `Startup.s`,
`retarget.c`, the code tables of `variable.c` (their widths excepted, which
`ServerRequests` uses) and commented-out code: no state, or none that changes
after boot. The project files of the IDE are not code.
