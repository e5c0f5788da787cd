# A TLA+ development of esp-extconn

esp-extconn gives an ESP32-P4, which has no radio, the Wi-Fi and Bluetooth of an
ESP8689 behind an SDIO bus: it resets the target, downloads its firmware, goes
through a start-up handshake, and from then on moves frames in both directions.
This directory holds TLA+ models of it, the TLC configurations that check them
on small instances, and theorems about them that TLAPS proves for every value
of the constants.

Paths below are those of the repository; `trans_wifi.c:57` is line 57 of
`src/trans_wifi.c`.

## 1. The system

### Components, their state, how they interact

| component | state | operations |
|---|---|---|
| Wi-Fi transmit list (`trans_wifi.c`) | `tx_head`, `tx_tail`, the `bqentry` fields, `list_lock`, the `WIFI_NEED_SEND` bit of `list_event` | `wifi_send_cmd`, `wifi_send_data` (called by the Wi-Fi driver's tasks); `list_insert`, `list_head_insert`, `list_remove`, `list_clear`, `list_wait_item` |
| Wi-Fi transmit path (`trans_wifi.c`, `ext_sdio_adapter.c`) | the frame in hand, `txseq`, `host->total_tx`; in the target its buffers and its token register | `wifi_send_task`, `esp_extconn_sdio_get_buffer_size`, `esp_extconn_sdio_send_packet` |
| Receive path (`trans_recv.c`) | `recv_buf`, `sdio_mutex`, `rxseq`, `host->total_rx` | `trans_recv_task`, `handle_intr0`, `handle_intr1`, `esp_extconn_sdio_get_packet`, `get_intr`, `clear_intr` |
| SIP control (`esp_sip.c`) | `*sip` (`state`, `txseq`, `rxseq`, `tx_blksz`, `rawbuf`), `boot_sem` | `esp_sip_init`, `esp_sip_write_mem`, `esp_sip_bootup`, `esp_sip_parse_events`, `esp_sip_send_cmd` |
| Bluetooth transport (`trans_bt.c`) | `tx_que` (25 messages), `tx_sem` (one credit), `s_callback` | `bt_send_data`, `bt_tx_task`, `esp_extconn_trans_bt_send_unlock`, `_bt_recv` |
| SDIO bus lock (`trans_recv.c`) | `sdio_mutex` | `esp_extconn_sdio_lock`, `esp_extconn_sdio_unlock`, and `handle_intr1` when an access fails |
| SDIO adapter (`ext_sdio_adapter.c`) | `host` | transfers in bytes and blocks, register windows, link set-up |
| Reset and boot (`ext_boot.c`) | pins, the SDMMC card | `esp_extconn_boot`, `esp_extconn_fw_init`, `esp_fw_download` |
| Top level (`extconn.c`) | – | `esp_extconn_init` |

Three tasks run once the component is up, `wifi_send_task`, `bt_tx_task` and
`trans_recv_task`, next to the caller of `esp_extconn_init` and the tasks of the
Wi-Fi driver and the Bluetooth host. They meet in four places:

* the Wi-Fi list, under `list_lock`, with an event bit for the wake-up;
* the SDIO bus, under `sdio_mutex`. Each user takes the mutex for one transfer
  or one poll at a time, so that whatever is read under it may be stale when used;
* `sip->state` and `boot_sem`, which `esp_sip_bootup` (in the task that starts
  the component) and `esp_sip_parse_events` (in `trans_recv_task`) both access
  without a lock;
* `tx_sem`, which `bt_tx_task` takes and `trans_recv_task` gives when the target
  raises an interrupt.

The target takes part too: it counts the receive buffers it ever offered in a
12-bit token register, of which the host subtracts the buffers it ever filled
(`total_tx`); it checks that sequence numbers have no gap; it answers BOOTUP
with a `TARGET_ON` event and INIT with a `BOOTUP` event.

### What is hard, and what makes each part correct

* **List.** Callers insert and clear while the task removes; `list_remove`
  leaves a stale `tx_tail`; `list_clear` rebuilds the list in a loop during which
  frames are sent and recycled. Correct: the list is a queue with atomic
  operations, no frame is lost, doubled or recycled in use, and no wake-up is lost.
* **Transmit path.** Credits are read under the mutex and used after it was given
  back; two counters wrap independently; a failed read counts as no room; a failed
  transfer ends the task. Correct: the target is never overrun, the credits are
  exact, numbers have no gap, every frame returns unless a transfer failed; and after
  one that failed the credits are wrong by no more than its frame.
* **Start-up.** The state and the semaphore the events need are assigned after
  the command that causes the events; the wait has a timeout, after which the
  semaphore is deleted under the event's feet; without Wi-Fi there is no wait.
  Correct: whoever is told ESP_OK finds a running target.
* **Receive path.** An interrupt is read, cleared and served in three steps while
  the target goes on sending; the length is a difference of two counters of
  different width; packets come in aggregates of a buffer that may be too small;
  after a failure bytes are lost, and one number that is not the next one stops
  the path. Correct: nothing is forgotten, repeated or reordered.
* **Bluetooth.** One credit circulates between semaphore, task, target, interrupt
  and receiver. Correct: there is never a second one, and the places where it may
  be lost are known; a sender is never stuck for good.
* **Bus.** Correct: one task at a time. `handle_intr1` gives the mutex back once
  too often after a failed access.
* **Transfers and download.** Lengths are rounded to blocks and words, addresses
  tell the target what is still to come. Correct: both sides agree on where a packet
  ends, and the image is in place with nothing else overwritten.
* **Initialisation.** A dozen allocations and accesses, each of which may fail, and
  repeated calls. Correct: no second task, mutex, buffer or queue, and ESP_OK for a
  complete start only. (The LDO handle and the card are made by each call, and leak.)

## 2. Modules

| module | models | proofs |
|---|---|---|
| `TxFrames` | the classes of frames the transmit path tells apart (buffer type, command) | |
| `TxQueue` | abstract: a queue with atomic operations and a wake-up bit | |
| `TxList` | the linked list of `trans_wifi.c`, pointer by pointer; implements `TxQueue` | `TxListProofs` |
| `WifiTx` | `wifi_send_task`, credits, numbers, `sdio_mutex`, the target's buffers | `WifiTxProofs` |
| `SipBoot` | `esp_extconn_init` down to `esp_sip_bootup`, against `esp_sip_parse_events` and the target | `SipBootProofs`, with what it hands over to `WifiTx` |
| `RecvPath` | `trans_recv_task`, `handle_intr0`, `get_packet`, `total_rx`, `rxseq`, the target sending | `RecvPathProofs` |
| `BtChannel` | abstract: a bounded channel that may lose messages | |
| `BtTx` | `bt_send_data`, `bt_tx_task`, `tx_sem` and the part of `handle_intr1` that refills it; implements `BtChannel` | `BtTxProofs` |
| `SdioBus` | `sdio_mutex` among all tasks | `SdioBusProofs` |
| `Lengths` | `roundup`, for the next two | |
| `SdioXfer` | one transfer as CMD53 commands | `TransferProofs` |
| `FwDownload` | `esp_fw_download`, `esp_sip_write_mem`, the target's memory | `TransferProofs` |
| `ExtConnInit` | `esp_extconn_init` with what it acquires, failing and called again | `ExtConnInitProofs` |
| `MCTxList`, `MCWifiTx`, `MCBtTx`, `MCSdioBus`, `MCSdioXfer`, `MCFwDownload` | the instances TLC checks | |

`TxQueue` is what the list promises, and `TxList` shows that pointers, lock and loops
amount to it. `WifiTx` has the list as a sequence with one step per operation, so that
credits, numbers and the bus are checked without the pointers; its operations are
translated from the code once more, `list_clear` as the frames its loop links again in
the order in which it meets them. That a sequence may stand for the pointers is what
`TxList` shows; `WifiTx` itself claims no refinement. `Clear` of `TxQueue` says that
what is left is a subsequence with all the frames that must stay, and that it is a
sequence of frames: without the last, order in the queue would say nothing. The others
meet in the code's shared state, of which each module has the part its properties are
about: `WifiTx`, `BtTx` and `RecvPath` take a turn on the bus as one step, which `SdioBus` justifies as long as no access of
`handle_intr1` fails; they take a transfer as one step that succeeds or fails, which
`SdioXfer` takes apart; `SipBoot` has the download as a chain of commands, of which
`FwDownload` says what they do, and the start with the handshake, of which
`ExtConnInit` has the allocations.

A module declares next to some operations a variant of the kind this code invites (a
missing reset, a retry, a boundary off by one). Nothing uses these; they document what
each property would catch.

### TxList

`next` is `bqentry.stqe_next` of every buffer, `tx_head`, `tx_tail`, `eb_head`,
`eb_end` are the pointers of the code, `list_event` the bit. `list_insert`,
`list_head_insert` and `list_remove` touch the list only with `list_lock` taken
and are one step each, with lock and unlock. `list_clear` takes one step per
iteration, holding the lock, because allocation, sending and completion go on
meanwhile. `wifi_send_task` waits for room without a bound (`RoomFound` ends the wait),
sends and gives the frame back (`Complete`), aborts on a frame that is too long
(`Overflow`), or returns after a transfer that failed (`TransferFails`); it may also
never have started, for want of its buffer. Where it is gone, `sender` is "dead": the
frame it holds stays with it, the rest stays in the list, and once the pool is empty
`wifi_send_cmd` returns an error (`AllocFails`). `HeldOnce` says that nothing else is
lost then; `EveryFrameLeaves` excepts it. When a caller gets a buffer, its link is arbitrary (what its last
user left): the code must not rely on it.

`queue`, `kept` and `cursor` are history variables: assigned by the operations,
read by none. They name the sequence that the pointers should stand for, and
`ListRepresentsQueue` says that they do.

### WifiTx

`Poll` is one round of the loop at `trans_wifi.c:198`, atomic because of the
mutex; a failed read leaves `num` at 0. `Number`, `Transfer` and `Account` are
the assignment of `shdr->seq`, the data crossing the bus and `total_tx` being
advanced; the mutex is held from `Transfer` to `Account`. `TransferFails` leaves
an arbitrary part of the frame in the target and stops the task for ever, which
is what the return at `trans_wifi.c:223` amounts to. `OtherLocks` and
`OtherUnlocks` are any other task using the bus. `FreeBuffer` is the target
processing a buffer and advancing its token. `ClearFor` and `SubmitAfterClear`
are the two halves of a disconnect command (`list_clear`, then `list_insert`),
between which anything may be inserted.

`Init` is the state the start-up leaves, two commands counted in `total_tx` and one
in `txseq`: that it is, is the theorem `StartHandsOver` of `SipBootProofs`.

### SipBoot

`main` is where `esp_extconn_init` stands, `receiver` where `trans_recv_task`
does. Each action is what one of them does between two accesses to `sip->state`,
`boot_sem` and `*sip`: `Prepare` and `Create` are separate steps since the event
handler may run between lines 224 and 225 of `esp_sip.c`, and so are `PostInit`,
`Run` and `Give`. `boot_sem` is null, live, or a pointer to a deleted semaphore:
`vSemaphoreDelete` does not reset it. Giving or deleting a null semaphore fails a
FreeRTOS assertion (`aborted`); giving a deleted one is undefined and may or may
not bring the system down. The calls in front of `esp_sip_bootup` succeed or fail
as wholes, except that `esp_extconn_trans_recv_init` does not look whether it got
`sdio_mutex` (`trans_recv.c:176`): without it the next one to lock the bus, which is
`esp_sip_send_cmd` or `trans_recv_task`, fails an assertion (`LockFails`). An event may be
lost on its way, in a read that fails or is too short or has a bad header; if
`sip->rxseq` did not count it every later event is refused (`LoseEvent`, `gap`). The
target may repeat TARGET_ON until it gets INIT.

### RecvPath

What the target sends is one string of bytes; `ends[n]` is where packet n ends. The
host sees the length of the string modulo `RX_BYTE_MAX`; `total_rx` is a 32-bit word
that is never reduced, and `DataSize` is the code's expression on both. `taken` is how
far the target has really handed out its bytes. `GetIntr`, `ClearIntr` and `Read`
are separate steps, with `Produce` in between. `GetPacketFails` leaves after any
number of bytes with `total_rx` unchanged (`torn`), after which the host reads behind
the end and what it finds there need not be a header (`Garbage`). `Handle` and
`Refuse` are the loop of `handle_intr0`: a wrong number is counted in `rxseq` all
the same, and ends the buffer.

A unit of length is four bytes, and a header takes `HdrLen` of them: `recv_buf` may end
within a header, and a read that is shorter than one is given up
(`trans_recv.c:52`). Numbers are unbounded: they are 32-bit counters,
compared for equality only. Bytes that are no header and yet pass for the next one
are left out.

### BtTx

One action per step of `bt_tx_task`: `Lock` takes the credit, `Receive` the message,
`Build` the number and the memory, `SendPacket` the bus. The credit is gone when the
message is empty, memory is short or the transfer fails without reaching the target;
`creditLost` records that. `ClearIntr`, `ReadW1` and `Give` are `handle_intr1`, also
after failures: an interrupt that could not be cleared is handled twice, which is
the one way to a second credit (`clearFailed`). `SendData` includes the unchecked
`calloc`. The channel of `BtChannel` is the queue with the message in the task's hand.

### SdioBus

`pc` and `fn` say who is on the bus and with which function; a turn is not atomic.
`WantW1`, `TakeW1`, `ClearIntr`, `ReadW1` and `GiveW1` are `handle_intr1` line by
line. Giving a mutex that another task holds fails an assertion of FreeRTOS or, in a
build without assertions (`asserts` is chosen in `Init`), takes it away (`stolen`).

### SdioXfer

`Init` chooses any transfer the callers ask for. `Command` is one round of the loop:
whole blocks, or the rest rounded up to words. `target` is what the target expects
after the command by the rule of the hardware the comments state: the address says
where the packet ends, and what goes over the bus behind that is ignored. A failing
command ends the transfer. For function 2 the address is 0; how the target learns a
length there is not in the source, and `TargetAgrees` is about function 1. `send_packet`
computes the address once, so that a rest behind whole blocks goes where the blocks went
(`RestBehindBlocks`). No frame has such a rest if `tx_blksz` is 512 or a multiple, but
`tx_blksz` is whatever the target announced, unchecked (`esp_sip.c:121`): the model takes
any power of two to 2048, and `TargetAgrees` says what the target then takes to be
missing. `WithinBuffer` is about the packet for a send, behind which up to three bytes
are read, and about `recv_buf` too for a read.

### FwDownload

`Write` is one round of `esp_sip_write_mem`, with the memory it writes: one byte of
the target's memory is watched, chosen in `Init`, and `content` says where in the
image its value came from. `ImageIsLaidOut` is the format of the image,
`BlocksAreApart` what the shipped image satisfies and the rounding needs: the bytes a
block is rounded up by overwrite nothing of another block, and are read from within
the image.

### ExtConnInit

`pc` is where the call stands; every step may fail, and the application may call again
after any result. `made` and `again` record what was created and what was created once
more. The registers of the link are sets of bits, of which "own" stands for all that is
the target's own. `SdmmcInit` makes the LDO handle and the card in every call; an error
of the SDMMC host in between aborts. Failures nobody looks at go on: the interrupt
enable, the mutex of `esp_extconn_trans_recv_init`, the Bluetooth start, of which any of
three results may be missing (`Unchecked`). `Bootup` returns an error only for a timeout:
a command that fails and a `boot_sem` that cannot be created end in an assertion.

## 3. Runs

| run | instance | shows |
|---|---|---|
| `tx_list` | two callers (interchangeable), five frames: data, management, command, disconnect, test | the list is well formed at every step of every interleaving, frames are in one place, `list_clear` keeps what it must in order, no wake-up is lost, `TxQueue` is implemented |
| `tx_list_live` | two callers; data, command, disconnect, test | every frame leaves the list, unless `wifi_send_task` is gone |
| `wifi_tx` | data (three buffers), command, disconnect, test (one each); target of 3 buffers; token wraps at 4; numbers wrap at 2; one fault | exact credits, wrong by at most one frame after a failed transfer; no overrun, numbers without a gap; every frame is sent or recycled, unless a transfer failed |
| `sip_boot` | Wi-Fi and Bluetooth, TARGET_ON up to twice, two faults | transports and ESP_OK only after a complete handshake; the state never goes back; the two windows in which `boot_sem` is dead when given are the only ones; nothing else takes the start down but a null mutex or semaphore left by a failure; a TARGET_ON that does not come too early completes the handshake; the start ends |
| `recv_path` | five packets of two or three units with headers of two, register wrapping at 7, word at 14, buffer of 5, two faults | the account is exact across wraps, nothing is forgotten between interrupts, packets are handed on in order, each of them unless a named failure left it behind |
| `bt_tx` | queue of two, three messages and an empty one, two faults | one credit in one place, no overrun, no gap but behind a failed transfer, `BtChannel` is implemented; messages leave unless the credit is lost; `bt_send_data` returns even then |
| `sdio_bus` | Wi-Fi, Bluetooth, starter, receiver; three faults | only the holder is on the bus but for one place; without errors nobody else ever |
| `sdio_xfer` | the real sizes; frames to 1600 bytes rounded to 1, 256, 512 or 2048, commands to 160, messages to 1040, reads to 1600 and around 32768 | host and target agree on the rest after each command, but for a rest behind whole blocks of a frame, and on the count; no read leaves `recv_buf`, no send reads more than three bytes behind its packet |
| `fw_download` | the layout of the real image, 48 watched bytes at borders, a command failing anywhere | the image in place, nothing else written, the download ends |
| `extconn_init` | three calls, two faults | nothing but LDO handle and card created twice; the link set up whenever the start went on; ESP_OK for a complete start, but for three results nobody looks at |
| `sip_boot_bt_only`, `sdio_bus_exclusive` | the smallest that show it | **violations**: see section 6 |

### Bounds

* *Frames.* The list distinguishes three questions of a frame: is it recycled by a
  clear, does it trigger one, does it go first. Five frames have every answer, and
  let the list be empty, single, and long enough for a clear to drop frames at the
  head, in the middle and at the end.
* *Callers.* Two: one in `list_clear` and one that waits to insert.
* *Credits.* The wrap has to exceed the target's buffers by one at least
  (`CreditAssumption`), and 4 over 3 is the tightest; a frame that needs all three makes
  the host wait for an empty target, and four frames with the start-up's commands pass
  both wraps. `TX_BUFFER_MAX` is 4096 in the code, and the proofs hold for every value.
* *Faults.* `MaxFaults` bounds failing transfers, reads, allocations. One is enough
  in `WifiTx`, where a failed transfer is the end and a failed read is forgotten;
  two in `SipBoot` let a failure meet the consequence of another.
* *Events.* `MaxAnnounce` = 2: one TARGET_ON that comes too early and one in time,
  or one in time and one too late.
* *Receive path.* The register wraps at 7 over at most 6 units kept by the target
  (`RecvAssumption`: less than a turn), the word at twice that; five packets of up to
  three units, 15 at most, pass both. A buffer of 5 holds an aggregate of two, splits
  another in its last packet, and yet another within a header; what is left then may be
  less than a header.
* *Bluetooth.* A queue of two is full, single and empty; the fourth message makes a
  caller wait. The code's queue has 25, and the proofs hold for every length.
* *Bus.* Three faults let a failed clear, a failed read and a third error meet. The
  proofs are for any number of tasks.
* *Transfers, image.* No bounds on sizes: the code's own constants and lengths.
  Frames fit into `send_buf`; reads cover up to three blocks and the limit of
  `recv_buf`. The watched bytes of the download are those at the ends of blocks and
  commands; the theorems are about all.
* *Calls.* Three: one that fails, one that is refused, one after that.

`CHECK_DEADLOCK FALSE` is said where the system may really stop: the start, the
transfer and the download return, an assertion stopped the system, the receive task
returned, or the Bluetooth credit is lost and the queue full. The transmit runs check
deadlock.

## 4. Fairness

* *FreeRTOS* schedules every ready task of these priorities sooner or later: weak
  fairness of the steps of a task (`Wake`, `Number`, `Account`, `Finish`, ...).
* *Mutexes.* `list_lock` and `sdio_mutex` are FreeRTOS mutexes with a queue of
  waiters; who waits gets it eventually although others take it again and again:
  strong fairness of the steps that take them (`Insert`, `Remove`, `ClearBegin`;
  `Poll`, `Transfer`), weak fairness of their holders giving them back. The longest
  hold of `sdio_mutex` is `get_packet` polling for RECV_WAIT_MS.
* *Sending, as `TxList` has it.* The wait for room ends (weak fairness of `RoomFound`):
  the loop at `trans_wifi.c:198` has no bound, and the reason why it ends is in
  `WifiTx`, where the wait is in detail and its end is not assumed. That a transfer
  succeeds is not assumed anywhere: `TransferFails` may always come instead of
  `Complete`.
* *The target* frees the buffers it received and answers INIT; *the stack*
  completes the frames it asked to be told of; *the ten seconds* of
  `esp_sip.c:227` pass. Weak fairness, of the assertion of a task that locks a null mutex
  too (`LockFails`). Nothing makes the target announce itself.
  `ExtconnBoot` ends, with or without success: the code repeats CMD0 for ever
  while the target answers it badly (`ext_sdio_adapter.c:126`), so `InitReturns` is
  a statement about targets that do answer it.
* *The target of Bluetooth* finishes a message, and *the five seconds* of
  `trans_bt.c:105` pass: weak fairness. `SendPacket`, `GetIntr` and `ClearIntr` of
  `BtTx` need the bus: strong fairness, as above.
* *The receive task* goes on: weak fairness of each of its steps; the target need not
  send anything. A read that failed is not repeated by itself, so `EveryPacketHandled`
  excepts a packet behind a failure until the next interrupt.
* *The download.* The task goes on; failures are possible and not demanded, so
  fairness is of the steps that succeed (`WF_vars(Next /\ pc' # "failed")`).
* *Test commands* overtake every other frame, and a driver that sends nothing else
  starves the rest: that is the code's intention, and no fairness repairs it.
  `EveryFrameLeaves` and `EveryFrameReturns` therefore assume that each test command
  is, from some time on, not sent again (`GoesFirst(t) => <>[](t \in pool)`).

## 5. What is proved

All theorems hold for every value of the constants that satisfies the named
assumptions (`FramesAssumption`, `CallersAssumption`, `CreditAssumption`,
`BootAssumption`, `InitAssumption`, `BtTxAssumption`, `RecvAssumption`, `BusAssumption`,
`LengthsAssumption`, `ImageIsLaidOut`, `BlocksAreApart`, `WatchedAreAddresses`).
The theorem about the handover, into which the constants of `WifiTx` come with an
`INSTANCE`, states what it assumes of them as a hypothesis: `TX_BUFFER_MAX` is more than
the start's two commands.

**TxListProofs.** `Invariance` proves the inductive invariant `IInv`; from it
`TypeCorrect`, `ListIsWellFormed`, `BuffersAreHeldOnce`, `ClearLosesNothing`,
`WakeupIsNotLost`. None of these is inductive alone: that the pointers stand for
a queue needs the frames of the queue to be distinct (or linking one would break
another's link), that needs each frame to be in one place only, and that needs
what each program counter implies about the buffer its task holds. The inductive
invariant is the conjunction. `ListImplementsQueue` maps `list_event` and `eb` to
the abstract queue's variables; every action is an action of `TxQueue` or a
stutter, and the whole of `list_clear` is one `Clear` at `ClearEnd`, which needs
the relation between `kept`, `cursor` and `queue` that `ClearKeepsTheRest` states.
`ListKeepsOrder` uses the refinement: that waiting frames never overtake each other
(`InOrder`) and that only a clear drops one, and only one it may recycle
(`NothingDropped`), is proved of the atomic queue, where it takes a page, and holds of
the pointers because they implement it.

**WifiTxProofs.** `CreditsExact` compares modulo the wrap. The invariant under it
has no remainder: `token` is ahead of `total_tx` by the room, give or take a
turn of each counter. With `NeverOverrun`, which makes the room a number between
0 and `DevBufs`, and `DevBufs < TxBufferMax`, the remainder determines the room.
`NeverOverrun` in turn needs what `Poll` saw to be a lower bound of the room for
as long as the task goes on: only this task fills buffers. `FlowInvariance` proves
the conjunction; `CreditsAreExact`, `TargetIsNeverOverrun`,
`FramesAreNumberedInSequence` and `WifiTxTypeCorrect` follow. `OnlyABusyTargetRefuses`
is the other half of `NeverOverrun`: the loop that waits for credits has no limit, and
it never waits 

**SipBootProofs, the handshake.** `BootInvariance` proves `BootInv`, which ties `main`,
`receiver`, `chip`, `state` and the events on their way together. Its core: there
is at most one BOOTUP event, none after it was handled, and a semaphore that can
be taken, or was taken in time, means that it was. `TransportsFindHandshakeComplete`,
`GiveFindsLiveSemaphore`, `StateNeverGoesBack` and `BootTypeCorrect` follow. A second
invariant, `NullInv`, says where the start can meet a null mutex or semaphore and what
must have failed before; `OnlyFaultsAssert` is its consequence. `RunMeansComplete` is
what is left of `ReadyWhenUp` in every build: without Wi-Fi the handshake is not waited
for, but SIP_RUN never comes before it is complete.

**SipBootProofs, the handover.** `StartHandsOver`: when `esp_extconn_trans_wifi_init`
has succeeded and nothing failed, the two counters, the number and the target as
`SipBoot` leaves them are an initial state of `WifiTx`, and `tx_blksz` is the block size
`WifiTx` rounds with. Mapped are `total_tx` and `txseq`, which both modules have, and the
target (`token`, `devSeq`); `Processed` says how many commands the target answered. The
task, the list and the bus are those of a task that has not begun. The hypothesis that
nothing failed is needed: section 6 names the INIT command whose failed transfer leaves a
credit too many.

**ExtConnInitProofs.** `AcquireInvariance` proves `AcquireInv`. `OnlyCardAndLdoTwice`
needs to know how much is made at each place of the call, and that while `host` is
clear nothing is but those two (`MadeInv`): a call that finds something has found
`host` set and gives up in `esp_extconn_sdio_init`. `LinkReady` needs what each register holds
before its turn and what is in `buf` between its read and its write (`LinkInv`), since a
write that lost a bit would be one that wrote what an earlier read had found.
`OnlyCardAndLdoAreMadeTwice`, `LinkIsSetUp`, `OkIsComplete` and `AcquireTypeCorrect` follow.

**BtTxProofs.** `BtInvariant` proves `BtInv`. That there is one credit is not
inductive alone: an interrupt under way has to be cleared before W1 is read
(`CreditInv`), and a message that waits to be queued must not be in the channel
(`CallerInv`). `CreditIsConserved`, `TargetNeverOverrun`, `BtNumberedInSequence` and
`BtTypeCorrect` follow; `ChannelRefinement` maps queue and hand to the channel.
`LostCreditIsFinal` says what a lost credit means: whatever happens later, nothing
reaches the target any more.

**RecvPathProofs.** `RecvInvariant` proves `RecvInv`. `AccountInStep` compares counters
modulo two different numbers: the invariant under it is that `total_rx` is the true
count in as many bits as it has (`CountInv`), and `SizeIsDistance` derives the code's
expression from it, because the word is a multiple of the register's turn and the
target keeps less than one turn. `WholeInv` says that host and packets are aligned as
long as the stream is neither torn nor cut, and `OrderInv`, for whatever happens, that
`rxseq` once it lags is past every number still to come: the path falls silent, it
never skips. `RecvTypeCorrect`, `AccountStaysInStep`, `PacketsAreNotForgotten`,
`WhatIsReadIsHandled` and `PacketsAreHandledInSequence` follow, and three statements about
steps: `NoPacketIsRefused` (from `WholeInv`: on a whole stream every turn of the loop hands
a packet on), `ParsingEnds` (the loop goes on only nearer to the end of the buffer) and
`OneGapSilencesThePath` (from `OrderInv`: once a packet was refused none is handed on).

**SdioBusProofs.** `BusInv`: where a task is on the bus (`PlaceInv`) it holds the mutex
(`HoldInv`), and what an error-free run never reaches (`ErrorInv`).

**TransferProofs, the transfers.** `XferInv` says how a transfer's rest depends on its
length: there are the stage before the whole blocks, the one behind them and the end. For
a read, for function 2 and for a send without a rest behind whole blocks one address is
right; for the others `TargetKnowsTheRest` computes what the target knows. The buffers
counted are those filled in all of them.
`TwoCommandsAreEnough` bounds the loop: one command for whole blocks, one for the rest.

**TransferProofs, the download.** `DownloadInv` ties `offset`, `remains` and the block at hand
together and says of the watched byte where it came from if it was written, also by a
command that failed. `InPlace` for the rounding of one block against another is
`BlocksAreApart`. `OkMeansWholeImage` is what the caller relies on: a download that
returned ESP_OK left every byte of every block in place. `DownloadGoesOn` gives the
measure of its loops: block, stage and rest, in this order.

**TransferProofs, the two together.** `esp_sip_write_mem` does not use `send_packet` but
writes its bytes itself. `DownloadTakesNoLoop`: of every command of a download
`send_packet` would have made the same single command, without a rest and without reading
behind `rawbuf`, so that what `SdioXfer` shows of such a command is true of it.

Only model-checked: the liveness properties (`EveryFrameLeaves`,
`EveryFrameReturns`, `HandshakeCompletes`, `InitReturns`, `EveryPacketHandled`,
`EveryMessageLeaves`, `CallerReturns`, `DownloadEnds`), since liveness under fairness
and ENABLED are out of the prover's reach. Behind some of them theorems about steps say
why they hold for every instance: `DownloadGoesOn`, `TwoCommandsAreEnough` and
`ParsingEnds` bound the loops, `OnlyABusyTargetRefuses` says that the wait for credits is
one for something that will come.

Only proved: the type invariants of the modules but `ExtConnInit`, the theorems about
steps and about the handover named above, and that the commands of a download
(`CommandFits`) and of a transfer (`CommandPossible`) are ones the hardware can carry
out. The inductive invariants contain most of them; the runs are left to the properties
that relate several actors or several steps.

## 6. Findings

`sdio_bus_exclusive`: "Function 1 & 2 can not operate at the same time"
(`trans_recv.c:35`). After a failed `clear_intr`, `handle_intr1` gives the mutex back
and reads function 1 while `bt_tx_task` writes to function 2. The further gives at
lines 125 and 128 fail an assertion or take the mutex from its holder; `OneAtATime`
and `SoundWithoutErrors` say what remains true.

`sip_boot_bt_only`: the comment at `extconn.c:31` delays Bluetooth "to wait chip
on". The delay is 100 ticks and depends on nothing; without Wi-Fi
`esp_sip_bootup` returns ESP_OK at once (`esp_sip.c:233`), so Bluetooth is started
with `sip->state` = SIP_PREPARE_BOOT whenever the target needs longer, and for ever
if its TARGET_ON came before `esp_sip.c:224`. For the same handshake the Wi-Fi
build waits up to ten seconds.

The models also make precise what the passing properties except:

* `GiveFindsSemaphore`: a BOOTUP event handled between lines 224 and 225 gives a
  null semaphore; one handled after the timeout gives a deleted one.
* `AssertionNeedsFault`: a BOOTUP command that cannot be sent does not end in the error
  code that `include/esp_extconn.h:114` promises. `esp_sip_bootup` deletes `boot_sem` on
  that path too, and it is null: an assertion of FreeRTOS fails. So does one where
  `boot_sem` or, unnoticed by `esp_extconn_trans_recv_init`, `sdio_mutex` could not be
  created.
* `OkMeansComplete`: `esp_extconn_trans_bt_init` looks at no result, so "ESP_OK: succeed"
  (`include/esp_extconn.h:112`) may come without `tx_sem`, `tx_que` or `bt_tx_task`.
* `HandshakeCompletes` starts from SIP_PREPARE_BOOT: a TARGET_ON in front of
  `esp_sip.c:224` is ignored, and unless the target repeats it the start times out.
* `NoPacketForgotten` and `AllReadIsHandled`: after a transfer that failed half way
  the stream stays torn, and behind an aggregate larger than `recv_buf` it stays cut;
  no later packet is recognised unless by chance.
* `EveryMessageLeaves`: a lost Bluetooth credit does not come back, since the
  target raises its interrupt only for a message it got. The callers then wait five
  seconds each and lose their messages (`LostCreditIsFinal`).
* `OnlyCardAndLdoTwice` holds because `host` stays set: a start that failed behind
  `esp_extconn_sdio_init` can never be repeated, and the repeated call has reset the
  target, and made and lost an LDO handle and a card, before it is refused.
* `TargetAgrees` excepts frames with a rest behind whole blocks: a target that announced
  a `tx_blksz` below 512 would be told, with the rest's command, a length it has already
  got.
* `EveryFrameReturns` and `EveryFrameLeaves` except a failed transfer, after which
  nothing is sent. What the target did get of it the host never counts (`CreditsExact`).
* `CreditConserved` and `NeverOverrun` of `BtTx` except an interrupt that could not be
  cleared: the only way to a second credit, and a real one.
* `ReadyWhenUp` excepts `total_tx` after a fault: an INIT command that
  reached the target although its transfer was reported as failed is answered, and
  the host goes on with one credit too many.

## 7. Plan

Done: every component that keeps state, alone or with the neighbours its properties
need. What would add to it, in this order:

1. `WifiTx`, `BtTx` and `RecvPath` on one bus, with the errors of `SdioBus`, to see what
   a stolen mutex does to credits and numbers.
2. `WifiTx` composed with `TxList` in place of its sequence, should the product of the
   two stay small enough.
3. `EveryPacketHandled` for a receive path that recovers, should the code learn to.

## 8. Not modelled

*The firmware image* (`eagle_fw.h`) and the init data are binary data of the target;
of the image only the layout of its blocks is used. It has 16267 of the 19002 lines
of the implementation, so a share of the lines that counts it stays small whatever is
modelled; of the C sources the map has about two thirds.

*Headers.* Most of `sip2_common.h` and `if_ebuf.h` are layouts, and commands and events
this component never sends or looks at.

*I/O without state*: Kconfig, pins, power, `sdmmc_init`, and the accesses of
`esp_extconn_sdio_start` to the card's registers, whose results are mostly ignored.
Its repetition of CMD0 has no end in the code, and no property asks for one.

*Bluetooth reception* hands a buffer to a callback. `esp_extconn_bt_shut_down` has no
caller. *Coexistence* events are passed on to a library.

*Memory*: what is written or read behind an allocation or a struct (see the hazards of
`PROJECT.json` at `ext_sdio_adapter.c:260` and `esp_sip.c:142`) has no effect a model
could show. Header layouts and the copying of payloads are abstracted to classes of
frames. Logging is left out. The `abort()` for a frame longer than `send_buf`
(`trans_wifi.c:193`) is in `TxList`; the frames of `WifiTx` and `SdioXfer` fit.
