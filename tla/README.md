# TLA+ models of Trusted Firmware-M

Trusted Firmware-M (TF-M) runs secure services beside a non-secure operating
system on Arm microcontrollers. This directory models the parts of it whose
correctness depends on the order of events: power failures in the middle of a
flash update, two cores that talk through shared memory and interrupts, secure
partitions that exchange messages and signals under a scheduler, and services
that keep state for many clients. The models are checked with TLC on small
instances; their safety properties and all refinements but one are proved with TLAPS
for every instance. Where the code does not do what its comments and documents say,
either a run shows a property violated, or the model does what the code does and the
property says how far the promise goes (section 3 lists both); the theorems name the
conditions under which they hold.

## 1. Inventory

| Component | State | Operations | What is hard | What makes it correct |
|---|---|---|---|---|
| ITS metadata blocks (`flash_fs/its_flash_fs_mblock.c`) | two metadata blocks, data blocks, the context in RAM (active and scratch block, header) | boot, format, block update, erase of scratch blocks | power failure inside any flash operation, swap count of one byte, errors half way | a boot finds the image before or after an update; destinations are erased; only a format loses data |
| ITS file system (`its_flash_fs.c`, `its_flash_fs_dblock.c`) | file table, free space and bytes of each logical block | write, delete, read, prepare | replacement and chunked writes take several updates; compaction arithmetic; spare entry | files keep exactly what was written to them; no duplicates or leftovers after recovery |
| ITS service (`tfm_internal_trusted_storage.c`) | the current request | init, set, get, get_info, remove | assets larger than the buffer | chunks go to the file of the first chunk |
| ITS flash back ends (`flash/`) | flash, NAND write buffer | read, write, flush, erase | order of programming; one buffer per device (NAND) | header programmed in order, erase from offset 0 |
| Mailbox, non-secure (`interface/src/multi_core/`) | queue of slots with status masks, thread flags, semaphore | client call, reply interrupt | threads against interrupt against the other core; dropped notifications | a call returns the answer to its own request; nothing is lost; owners are valid |
| Mailbox, secure (`tfm_spe_mailbox.c`, `tfm_rpc.c`) | copy of the messages, slot in process | handle messages (PendSV), reply (SVC) | works on a snapshot of the mask | every request is answered once |
| PSoC 64 inter-core interrupts (`platform/ext/target/cypress/psoc64/mailbox`) | two channels | notify, two handlers | channel busy | dropped notifications are redundant ones |
| Mailbox-thread model (`tfm_ns_mailbox_thread.c`) | `is_full`, message queue | call, mailbox thread, reply interrupt | flag set after the check it depends on | no lost wake-up |
| SPM IPC (`spm_ipc.c`, `ffm/psa_client_service_apis.c`, `spm_psa_client_call.c`, `tfm_wait.c`, `tfm_thread.c`, `tfm_pools.c`) | connections with their messages, queues, signals, events, threads | connect, call, close, wait, get, read, write, reply, notify, IRQ signals, scheduling | interrupts between an SVC, the switch it asks for and PendSV; handle reuse; priorities | a message is received once, in order, and answered to its sender; no lost wake-up or handle; the most urgent thread runs |
| Protected storage (`ps_object_system.c`, `ps_object_table.c`, `tfm_protected_storage.c`) | two object tables, three NV counters, object files, the table in RAM | set, get, get_info, remove, start-up, table save | power failure or error between object, counter, table and clean-up | no roll-back, no lost store, success is durable |
| Crypto (`crypto_alloc.c`, `crypto_key.c`, `crypto_hash.c`, `crypto_mac.c`, `crypto_cipher.c`, `crypto_key_derivation.c`, `crypto_vendor_key.c`) | operation contexts, owners of key identifiers, the vendor's identifier map | multi-part operations, key management | shared tables, stale or invented handles, reused identifiers, failing calls | contexts are neither lost nor shared; a client's requests change only what is its own |
| Audit log (`audit_core.c`) | ring buffer | add, retrieve, delete | wrap-around | oldest records are dropped whole |
| Firmware update, initial attestation, platform service | little or none | requests | - | - |
| Library-mode SPM (`cmsis_func`), NS client ids, memory checks | partition contexts, id tables | calls, interrupts | architecture specific | - |
| Platform ports, `lib/`, tools, docs, build | - | - | - | not modelled |

Interactions: a non-secure thread calls a service through the mailbox (dual-core)
or the secure gateway; the SPM turns the call into a message for a partition,
which waits for signals and replies; the ITS partition serves protected storage
and crypto as well as clients; protected storage keeps its objects in the ITS
service, one file per object and table.

## 2. Modules

| Module | Models | Role |
|---|---|---|
| `ItsAtomicStore` | what an update promises across power failures | abstract specification |
| `ItsMetaBlocks` | metadata blocks, block update, format, boot, crash | detailed; refines `ItsAtomicStore` (`AtomicUpdates`) |
| `ItsMetaBlocksProofs` | - | theorems about `ItsMetaBlocks` |
| `ItsFileStore` | what the file system promises its clients | abstract specification |
| `ItsFlashFs` | file table, allocation, compaction, chunked set, recovery | detailed; refines `ItsFileStore` (`StoreImplemented`) |
| `ItsFlashFsProofs` | - | theorems about `ItsFlashFs` |
| `Mailbox` | both sides of the mailbox and the PSoC 64 interrupts | detailed |
| `MailboxProofs` | - | theorems about `Mailbox` |
| `PsaCalls` | what the SPM promises the callers of a service | abstract specification |
| `SpmIpc` | connections, messages, signals, events, threads, interrupts | detailed; refines `PsaCalls` (`IpcImplemented`) |
| `SpmIpcProofs`, `SpmSchedProofs` | - | theorems about `SpmIpc`: messages, signals and handles; the scheduler |
| `MCSpmIpc` | - | two partitions, two services and their priorities |
| `PsStore` | what protected storage promises across power failures | abstract specification |
| `PsObjects` | object table, counters, object files, start-up, requests | detailed; refines `PsStore` (`StoreImplemented`) |
| `PsObjectsProofs`, `PsStoreProofs` | - | theorems about `PsObjects`; the refinement of `PsStore` |
| `CryptoClients` | what the crypto service promises each client | abstract specification |
| `CryptoService` | operation contexts, key owners, vendor keys | detailed; refines `CryptoClients` (`ClientsIsolated`) |
| `CryptoServiceProofs` | - | theorems about `CryptoService` |
| `MCCryptoService` | - | the objects of a careful and a careless client |

### ItsMetaBlocks

`header`, `body` and `dblock` are the flash: the header of each metadata block,
what follows it (block table and logical block 0, the file table included), and
the data blocks. `active_metablock`, `scratch_metablock` and `meta_block_header`
are members of `its_flash_fs_ctx_t`. `pc` names the next flash operation. Erasing
and programming take two steps, start and finish, so that `Crash` leaves torn
blocks; the header takes three because its members are programmed in order, the
swap count last. `upd` is the update under way: which logical block, with which
contents. Contents are opaque values. `PrepareFails` is the boot in which a flash
error makes `its_flash_fs_prepare()` fail, after which `tfm_its_init()` formats.
`RefuseReplacement` is a replacement for which there is no room, or whose new size is
invalid: it has programmed the old file's entry with the delete flag into the scratch
metadata block (`Marked`) and returns without erasing it, so the next update programs
these bytes again. `Reprogram` says what the flash part then makes of them: RAM and
emulated flash overwrite, a part that can only clear bits merges, which gives a
`Damaged` file table. `ItsAtomicStore` has a step for it (`Damage`), allowed only on
such a part (`Merging`). `Refusals = FALSE` leaves the action out. Two errors are only in
`SpecWithErrors`: `UpdateFails`, a flash error during an update, and
`HeaderUnreadable`, a metadata header that cannot be read at boot and is taken for an
incomplete one.

### ItsFlashFs

One block update is one step, which `ItsMetaBlocks` justifies. The state is what
the active metadata block describes: `file_meta`, `free_size`, `data`, byte by byte
with byte *i* of a request being `<<value, i>>`. `op` is the request under way: a
set with chunks left, a second update that deletes the replaced file, or the boot.
`dirty` records that a failed replacement left entries in the scratch metadata
block; updates ignore it, as the code does (what comes of it is a matter of
`ItsMetaBlocks`). Flash alignment (sizes rounded up to
the program unit) is left out.

### Mailbox

The queue shared by the cores is kept as sets of slots and functions from slots.
Each thread has a program counter over the critical sections of
`tfm_ns_mailbox_client_call()`; code between two critical sections is merged into
one step only where it touches just the thread's own slot. `n_isr` is the progress of the
reply interrupt, during which no thread runs. On the secure core `s_pc` is the
progress of PendSV (`tfm_mailbox_handle_msg()`) or of the SVC in which a partition
replies (`tfm_mailbox_reply_msg()`); they exclude each other, because SVC has a
higher priority and PendSV runs to completion, and the request interrupt can come
between any two of their steps. A channel is `free`, `sent` or `taken`; a
notification on a channel that is not free is dropped. PendSV may also run because
the scheduler triggers it, so requests can be handled before they are notified.

`num_slots` is the size of the queue, any number up to `NumSlots`, so that one run has
builds in which threads compete for slots and builds in which they do not. `Preempt` says
whether a thread may be preempted inside `acquire_empty_slot()`. It
is FALSE in the passing run, which therefore shows what holds apart from that
defect, and TRUE in the run that shows it. `Calls` says which calls threads make;
`close_null` is `psa_close()` of the null handle. Threads in `Numbered` number
their requests, so that an answer to an earlier request would be noticed.

### SpmIpc

`sched` holds the thread states, `RNBL_HEAD`, `CURR_THRD` and whether PendSV is
pending; `list` is the thread list in priority order. `sig[p]` are
`signals_asserted`, `signals_waiting` and the owner of the partition's event;
`msgs[p]` is its `msg_list`, `conn` the connections with the message inside each,
`pool` the free list behind them. `pc`, `got`, `ret` and `held` say where every
agent is, which message a partition serves, what `psa_wait()` returned to it, and
which connections a client has open. One call of a thread is one action, because
SVC has the highest priority (`NVIC_SetPriority(SVCall_IRQn, 0)`) and no interrupt
can come in between; PendSV has the lowest, so interrupts come between an SVC and
the switch it asked for. In the multi-core topology PendSV also turns mailbox
requests into messages, and interrupts come between the steps of
`tfm_spm_send_event()`: the read of `signals_asserted`, its write (`RpcStore`), the
look at the waiting mask and the event's owner (`RpcTest`), the wake (`RpcWake`) and
the update of the waiting mask (`RpcMask`). `RpcWake` is one step: once the thread is
runnable an interrupt leaves event and thread alone. `RpcOwnerLost` is the build that
reads the owner again after an interrupt has cleared it, and stops at an assertion.
`VectorsRefused` is a non-secure call of a stateless service whose vectors are refused
after the handle was taken. All callers behind the mailbox are one client;
`MessageRelinked` is a call on a connection that another of them opened and whose message
is still queued. The message is then linked into the list a second time; the model does
not follow the broken list and stops. `halted` tells why the system stopped: a partition
panicked because it was woken without a signal or found no handle, the assertion, or a
list linked twice. `saved` remembers on which stack frame a
thread was last switched out, which decides where `tfm_core_thrd_set_retval()`
writes a return value. Partitions run the loop of the services in this repository:
wait for any signal, handle one, wait again; while serving they may call other
services and ring doorbells. Any other call that is refused changes nothing and is no
action. `topo` covers both topologies in one run.

### PsObjects

`objFile` and `tabFile` are the files in the ITS service, `nvc` the three counters,
`ram` is `ps_obj_table_ctx`. Writing a file takes two steps with a torn file in
between, since that service writes in chunks. Each non-volatile step of
`ps_object_create()`, `ps_object_delete()`, `ps_object_table_save_table()` and
`ps_object_table_init()` is an action, named by `pc`, with its error path beside it;
`op` is the request with the table to go back to. The tag of an object, which the
table keeps, is the object itself; that of a table is the counter value it is bound
to. `rollback` chooses the build. The calls that may fail (`Faults`) are writes, removals
by requests, the increment of counter 1, an increment of counter 2 or 3 after a table was
saved (`AlignFails`), and the calls of start-up: key, counters, removal of the scratch
table and alignment (`StartFails`) and the read of a table (`TableUnreadable`). The last
two groups make the service give up what it had, and `harmed` remembers that one of them
happened: after a failed alignment the table in RAM and the one in flash differ, and a
failing call of start-up wipes a valid store or brings back an older table. `PsStore`
promises nothing from then on (`Harm`).

### CryptoService

`ctx` is `operation[]`, `hdl` the handle in each client's operation structure,
`table` is `handle_owner[]`, `mapped` the vendor's `key_id_mapping_table[]`, `keys`
what the crypto library holds. The service handles one message at a time, so a
request is one action. The library is external: a call succeeds or fails, an
operation in which a call failed must be aborted, volatile identifiers are reused.
Clients in `Careful` set up an operation only while it is inactive, as `crypto.h`
asks; others put any handle into their objects (`Scribble`) and set them up at any
time. Keys are kept by owner and identifier, as the library keeps them, with a flag
for keys opened as the vendor's; `Asked(c, id)` is who should sign with a key,
`tfm_crypto_sign_hash(c, id)` who does. Clients may choose the same persistent
identifier (`ChosenIds`). In `CryptoClients` a client sees the keys it may use with
both, and a key it gains must be signed with by the one asked of. `live` picks the
operations and key identifiers in use in a behaviour, one of the `Populations`. The refinement maps
every key to it except those for which the code is wrong: identifiers another client
also chose (`OwnIds`), identifiers a closed vendor key left in the vendor's table
(`StaleIds`), and vendor keys whose client was told they could not be opened
(`RefusedIds`).

## 3. Runs

| Run | Bounds | Result |
|---|---|---|
| `its_meta_blocks` | 5 blocks (2 metadata, 2 logical, 1 scratch), 4 swap counts, 2 values, refused replacements on flash that overwrites or merges | passes: inductive invariant, `ScratchErased`, `ScratchUnmapped`, `SwappedIsCommitted`, `AtomicUpdates`, `OnlyFormatLoses`, `BootCompletes` |
| `its_meta_blocks_errors` | 4 blocks, flash errors | `ScratchUnmapped` violated |
| `its_flash_fs` | 3 identifiers, 3 entries, 2 logical blocks of 4 bytes, sizes 1 and 3, buffer of 2 | passes: `LayoutSound`, `RestState`, `ChunkContinues`, `StoreImplemented`, `RequestEnds` |
| `its_flash_fs_zero` | sizes 0 and 2 | `StoreImplemented` violated |
| `mailbox` | 2 threads, 1 or 2 slots, one thread numbers its requests modulo 2 | passes: inductive invariant, `QueueNeverFull`, `ReplyMatches`, `WakesOwner`, `NoLostRequest`, `NoLostSignal`, `CallReturns`, no deadlock |
| `mailbox_null_close` | 1 thread, 1 slot | `EveryCallReturns` violated |
| `mailbox_preempt` | 2 threads, 2 slots, preemption | `SlotExclusive` violated |
| `spm` | 2 partitions, 2 services (one with connections, one stateless), 2 handles, one interrupt, 2 mailbox callers; 6 inputs on one core, 3 on two | passes: `SignalsMatchMessages`, `NoMissedWakeup`, `HandlesAccounted`, `HighestPriorityRuns`, `IrqSignalKept`, `IpcImplemented`, `CallAnswered` |
| `spm_wait` | the same with drivers that wait for their interrupt | `WaitReturnsSignals` violated |
| `ps` | 3 identifiers, 3 entries, swap counts 0 to 3, an empty store or one with an object, 2 requests that change it, 3 power failures, 1 failing call of any kind, both builds | passes: `ReadsCommitted`, `SuccessIsDurable`, `SpareIndex`, `OldDataPresent`, `StoreImplemented`, `ComesToRest`, no deadlock |
| `ps_wipe` | 1 identifier, 2 power failures, no errors | `OnlyRequestsRemove` violated |
| `crypto` | 2 clients, 2 contexts, 3 key entries, 1 vendor slot; operations of one type and one key at most, or no operation, 2 volatile identifiers, 1 persistent identifier both clients choose and 1 that one chooses | passes: `ContextsAccounted`, `VolatileEntriesExact`, `ClientsIsolated` |

Passing runs check the type invariant `TypeOK` as well (in `mailbox` it is a part of
`IInv`).

Why the bounds are enough: two dedicated logical blocks and a scratch block are
the least in which data blocks rotate through all roles; four swap counts make the
count wrap, skip the erased value and meet its neighbours (`SwapMod` is 256 in the
code, and the proofs hold for any width of at least four values). In `ItsFlashFs` a
set of size 3 needs two chunks, both logical blocks can be full, and three
identifiers fill the table up to its spare entry. In `Mailbox` two threads and two
slots give every race between two calls; with one slot the semaphore holds back the
second thread while slot and semaphore are given back in two steps, which is the case
`QueueNeverFull` is about. Numbers modulo 2 tell a reply from the
one to the previous call, and one numbered thread is enough because the code treats
threads alike. In `SpmIpc` the connected partition also calls the other one and has
an interrupt, two handles can be used up, and the priorities are those of the
manifests: partitions of equal and of different urgency. `MaxInputs` bounds
non-secure requests and interrupts; when they are used up the system rests, so
deadlock is not checked there. In `PsObjects` three entries hold two objects and the
reserve, swap counts wrap after four saves, and every run starts from a new device
or from a device with one object at any swap count; three power failures can hit a
request, the boot after it and the boot after that. (`MaxRequests` is 3 because the
first request is the one that wrote the object of the initial state.) In `CryptoService`
two contexts can be exhausted by either client and a volatile identifier is reused at
once. Operations of different types share only the contexts, and keys share nothing with
hashes and only permissions with other operations, so each population has operations of
one type, with a key where the type needs one, and the last has keys only: the second
volatile identifier is free while the first is left in the vendor's table, and the three
entries are full when the fourth key comes.

What the violations show:

- `its_meta_blocks_errors`: `its_flash_fs_file_write()` exchanges the scratch data
  block in RAM and does not undo it when a later flash operation fails; the next
  update then overwrites live data.
- `its_flash_fs_zero`: `its_flash_fs_delete_idx()` compares offsets with `>`, so
  deleting an empty file forgets the file that starts at the same offset. Setting
  an asset to zero bytes and then to some bytes loses the bytes.
- `mailbox_null_close`: `psa_close()` of the null handle never returns to a
  non-secure thread on a dual-core system.
- `mailbox_preempt`: with more than one slot, two threads can take the same slot.
- `spm_wait`: a blocking `psa_wait()` returns no signal when the partition's
  interrupt comes between its SVC and the context switch, and the partition panics.
  The signal itself stays asserted (`SignalsMatchMessages`, `IrqSignalKept`); the
  promises of `spm` hold up to such a panic.
- `ps_wipe`: after a power failure between the increment of counter 1 and the write
  of the table, the next boot aligns counters 2 and 3 with counter 1 but leaves the
  table bound to the old value. The running service works; if it is restarted before
  the next set or remove, no table authenticates and the storage is wiped. This is
  the state `loose` of `PsStore`, the only one in which the passing run allows a loss
  before a call of start-up or of the alignment has failed.

Other places where the code does not do what one would expect are part of the models or
next to them, and no run is about them:

- A replacement refused for its size or for lack of room leaves an entry in the scratch
  metadata block (`its_flash_fs.c:294`). On flash that merges what is programmed twice the
  next update commits a damaged file table: the `Damage` step of `ItsAtomicStore`, which
  `its_meta_blocks` takes.
- A boot that cannot read a metadata header (`its_flash_fs_mblock.c:695`) takes the other
  block, although after a power failure between commit and erase the unreadable one may be
  the newer. With `HeaderUnreadable` in the specification `AtomicUpdates` is violated.
- `tfm_spm_client_psa_call()` takes a handle for a stateless call before it checks the
  vectors (`spm_psa_client_call.c:222-280`), and keeps it when it refuses those of a
  non-secure caller (`VectorsRefused`, `Leaked`).
- `PSA_ERROR_CONNECTION_BUSY` in reply to `psa_connect()` leaks the handle
  (`psa_client_service_apis.c:507`). No service in the repository sends it; with `"busy"`
  in `ConnectReplies` the run violates `HandlesAccounted`.
- A connection is marked active when its message is received, not when it is sent
  (`spm_psa_client_call.c:197`): two mailbox callers that share a connection queue its
  message twice (`MessageRelinked`).
- With the mailbox, interrupts come between the steps of `tfm_spm_send_event()` in PendSV.
  One during `signals_asserted |= signal` (`spm_ipc.c:578`) loses its signal, and its line
  stays masked: without `topo = "single"` `IrqSignalKept` is violated, so the property says
  nothing of this case. One between the check of an event's owner and its use
  (`tfm_wait.c:24`) leaves no thread to wake (`RpcOwnerLost`).
- When the increment of counter 2 or 3 fails after a table was saved
  (`ps_object_table.c:609`), the request is taken back in RAM and its object removed
  although the saved table names it (`AlignFails`). Any failing call of start-up, such as
  the removal of the scratch table (`ps_object_table.c:905`), wipes a store whose table is
  valid (`StartFails`).
- Without roll-back protection a failed save leaves the swap count in RAM advanced
  (`ps_object_table.c:560`). When the removal of the old table fails after the next save,
  two tables two counts apart are in flash, and around the wrap a boot prefers the older
  one. `ReadsCommitted` is violated with `Builds = {FALSE}`, `Faults = {"write",
  "remove"}`, `MaxErrors = 2` and `MaxRequests = 4`.
- The search in the table of key owners has no owner (`crypto_key.c:109`), so the second
  of two clients that choose the same persistent identifier cannot use its key. This is in
  `crypto`, and `OwnIds` keeps such keys out of `ClientsIsolated`.
- The vendor's identifier map is never cleaned (`tfm_crypto_vendor_key_hal.c:138`), so an
  ordinary key that gets a volatile identifier out of it is signed with by the vendor's
  back end; a vendor key that does not fit into the map stays, although its client is told
  that it was not opened (`StaleIds`, `RefusedIds`).
- Purging a volatile key takes it from its client (`crypto_key.c:680`): entries belong to
  live keys (`VolatileEntriesExact`), but live keys need not have entries. A persistent key
  opened twice keeps one entry after it is destroyed.
- Setting up an active cipher or key derivation, or an active MAC with a key the client may
  not use, overwrites the client's handle and leaks the context, so `ContextsAccounted` is
  about careful clients.

### Fairness

`ItsMetaBlocks` and `ItsFlashFs` assume weak fairness of the code's own steps: the
ITS partition keeps running once it has started. Nothing is assumed about new
requests. Their liveness properties are conditional on power failures (and boots
that format) coming to an end. `Mailbox` assumes that interrupts are taken (weak
fairness: nothing masks them for ever), that a thread that is ready again and again
runs (strong fairness, because interrupts keep disabling threads and the RTOS
schedules them afterwards), that PendSV is served although SVC can come first, and
that partitions reply to what was delivered to them. It does not assume that threads
make calls, nor that PendSV ever runs without being triggered. `SpmIpc` assumes weak
fairness of PendSV and of every partition's steps: a pending exception is taken, the
thread that is current goes on, and services end what they serve. Clients owe
nothing. `PsObjects` assumes weak fairness of the service's own steps; power failures
and errors are bounded, so that it is eventually undisturbed.

## 4. Proofs

TLAPS checks the proofs below for every value of the constants that the named
assumptions of the modules allow. The assumptions are what the code's configuration
guarantees: in ITS what `its_flash_fs_validate_config()` accepts, in `PsObjects` at
least one entry beside the spare one and a swap count of at least three usable values,
in `SpmIpc` that every thread is started before the list is used, in `Mailbox` a finite
set of threads and at least one slot. TLC evaluates them in every run.

| Module | Theorems | Hypothesis beyond the assumptions |
|---|---|---|
| `ItsMetaBlocksProofs` | `InvariantHolds`, `TypeCorrect`, `ScratchErasedHolds`, `ScratchUnmappedHolds`, `SwappedCommitted`, `Refinement` (`AtomicUpdates`), `NeverLost` (`OnlyFormatLoses`) | none |
| `ItsFlashFsProofs` | `InvariantHolds`, `TypeCorrect`, `LayoutHolds`, `RestHolds`, `ChunkHolds` | none |
| | `FileSystemImplementsStore` (`StoreImplemented`) | `0 \notin Sizes`: nobody stores an empty file; otherwise `its_flash_fs_zero` |
| `MailboxProofs` | `MailboxInvariant`, `QueueNeverFullHolds`, `ReplyMatchesHolds`, `WakesOwnerHolds`, `NoLostRequestHolds`, `NoLostSignalHolds` | `AcquireIsSafe`: no preemption inside `acquire_empty_slot()` or a single slot; otherwise `mailbox_preempt` |
| `SpmIpcProofs` | `SignalsHold`, `WakeupsHold`, `IrqHolds` | none; also for `DriverSpec` |
| | `HandlesHold` | no service answers `psa_connect()` with busy, as none does |
| `SpmSchedProofs` | `PriorityHolds`, `TypeCorrect` | `Ranked`: dependencies between partitions are not circular, which the manifests must ensure |
| `PsObjectsProofs` | `TypeCorrect` | none |
| | `InvariantHolds`, `ReadsHold`, `SuccessHolds`, `SpareHolds`, `OldDataHolds` | `SwapSafe`: in builds without roll-back protection at most one call fails, or writes never fail, or removals never do; the theorems hold while `harmed` is empty |
| `PsStoreProofs` | `ServiceImplementsStore` (`StoreImplemented`) | `SwapSafe`; `PsStore` promises nothing once `harmed` |
| `CryptoServiceProofs` | `InvariantHolds`, `TypeCorrect`, `ContextsSafe`, `VolatileEntriesSafe`, `ServiceIsolatesClients` (`ClientsIsolated`) | none |

Every hypothesis holds in the passing run of its module. `0 \notin Sizes` and
`AcquireIsSafe` exclude defects that a run shows (for `AcquireIsSafe`, `SlotExclusive`,
which is a conjunct of the invariant). That no service answers busy, and `SwapSafe`,
exclude defects as well, which no run of the project shows; section 3 says with which
constants TLC finds them. `Ranked` excludes a configuration the manifests rule out.

The theorems are also bounded by what the specification they are about leaves out, or
their property concedes:

- those of `ItsMetaBlocksProofs` are about `Spec`, without errors of flash operations
  in an update (`its_meta_blocks_errors`) and of reads at boot. On flash that merges,
  `AtomicUpdates` and `SwappedIsCommitted` allow for a damaged file table after a refusal;
- `HandlesHold` allows for the handles lost to refused vectors, and ends where a queued
  message is linked twice (`MessageRelinked`);
- `IrqHolds` is about a single core;
- those about protected storage, `TypeCorrect` apart, end where an alignment or a call of
  start-up fails. The run checks `SuccessIsDurable`, `SpareIndex` and `OldDataPresent`
  beyond that, and `ReadsCommitted` beyond a failing start-up;
- `ServiceIsolatesClients` says nothing of identifiers that another client also chose, of
  those a closed vendor key left in the vendor's table, nor of vendor keys whose client
  was told they were not opened (`KeysOf`).

### The arguments

**ITS metadata blocks.** The safety properties talk about what a boot would choose, and that
depends on two headers. `IInv` therefore says, for every point of an update, which
header is valid and which block a boot would choose (`ContextInv`,
`ScratchHeaderInv`), what has been prepared in the scratch blocks (`UpdateInv`,
`ErasedInv`), the same for a format (`FormatInv`), and that whatever a boot chooses
is complete (`BootInv`). When an update may start the scratch data block is erased, and
the scratch metadata block is erased or holds what a refusal left (`ErasedInv`); the
body an update programs is then the one it means, or on merging flash `DamagedBody`.
One lemma about arithmetic carries the commit: a block whose
count is `NextSwapCount` of the other's is the one `its_mblock_latest_meta_block()`
chooses, for every count and both erase values. `BootInv` is kept by three kinds of
step, one lemma each: those that leave headers and block tables alone, those that
only touch a metadata block whose header is erased (`OtherBlockKept`), and those of a
format after both headers are erased; the write of the swap count is the fourth case
(`LastMemberCommits`). Crashes preserve `IInv` because nothing in it about flash
depends on RAM once `pc` is `off`. The refinement follows: the image changes only in
the step that programs the swap count and in the step of a format that erases the last
valid header.

**ITS file system.** `IInv` is `TypeOK` with `Layout` (the files of a block are
apart, lie in its used part, and their sizes add up to that part, so that there are no
gaps), `Marks` (at most one file is marked for deletion, identifiers are otherwise
unique, and an entry is free when none is marked) and `Doing` (what the request under
way has already done to the table).
`Layout` needs sums over sets of files. `MapThenSumSet` is defined by recursion over
sets, and an induction theorem with an operator parameter cannot be used; the proofs
use sets of good arguments in its place: `SubsetInduction` says that a set of subsets
which contains a set whenever it contains its proper subsets contains every finite
set. From it follow what a sum is after one file more, one file less and one file
grown, which are the cases of allocation, deletion and writing. Compaction is then
arithmetic: bytes move down by the size of the deleted file exactly when their file
starts behind its offset, which is right for the contents only if the deleted file is not
empty (`Solid`); that is why the refinement needs `0 \notin Sizes`, while the layout is
proved with empty files.

**Mailbox.** `IInv` is a part of `Mailbox` and checked by its run. It assigns every
slot that is not empty to one thread and one stage (acquired, pending, taken,
delivered, answered, woken), which gives exclusive slots and matching replies; it
also contains `NoLostSignal`, that whenever the pending or the replied mask is not empty a
notification is in a channel or a handler has still to read the mask. `QueueNeverFull`
is a count (`SemInv`): the threads past the semaphore, the one that searches included,
are never more than the slots.

**SPM.** `IInv` of `SpmIpcProofs` consists of types; `SignalsInv`, signals against
queued messages, with the half-done update of `signals_asserted` in PendSV as the only
exception (`RpcInv` says when there is one); `WaitInv`, a partition that is blocked in
`psa_wait()` owns its event and none of the signals it waits for is asserted;
`HandlesInv`, each handle is in one place only (free, in one queue once, being served,
held idle by its client, or lost to refused vectors); and `IrqSignalKept`. `SpmInv` adds
`WakeInv`: between the check of an event's owner in PendSV and its use the partition is
still in `psa_wait()`, woken or not, and serves nothing. The scheduler is proved on top of it:
`RNBL_HEAD` is never behind a runnable thread in the list (`SchedOK`), a thread is only
blocked by a call or a wait (`BlockedOK`), and unless PendSV is pending the current
thread is a most urgent one. The search from `RNBL_HEAD` always ends because some
thread is runnable (`SomeoneRuns`): if all were blocked, each partition with a message
would itself wait for an answer from a partition of lower rank, since one blocked in
`psa_wait()` has no message by `WaitInv`; such a chain cannot go on for ever. This is
where `Ranked` is used. That the list is in order of priority,
whatever the order in which `tfm_core_thrd_start()` is called, is proved as well
(`ListInit`), by the same kind of induction over the fold of `insert_by_prior()`.

**Protected storage.** `PsInv` says for every phase which table a boot would load and
that every object it names is in its file. `TablesInv`: tables keep a free entry and
have no identifier twice. `CountersInv`: a table is bound to counter 1, or to a value
no later than counter 3. `SteadyInv` and `SavedInv`: before and after a new table is
written, the active table is what the service works from and the other one is older.
`BootInv` and `WipeInv`: start-up, up to the creation of a new table. `CreateInv` and
`ChangeInv`: how the table in RAM, the request and the object files relate. The case
that fails without `SwapSafe` is the swap count of the build without roll-back
protection: a retry of a failed write skips a count, and if the old table then cannot
be removed a boot may prefer it. `PsInv` is inductive while `harmed` is empty, and a
step never empties `harmed`, which gives the theorems. The refinement adds `RequestInv`:
the table in RAM is the table before the request, changed as the request says, and no
object is younger than the request at work.

**Crypto.** The invariant falls into contexts and keys, which share no variable. A
careful client's handle names a context that it owns and that has been set up, and
every context in use of a careful client is named by exactly one of its objects;
careless clients cannot break this, because ownership of a context is checked against
the caller. Every volatile entry is the only one of its identifier and has a live key.
For the refinement each request is shown to change only what its caller sees (`Val`,
`Use`; `OthersSee` for everyone else), for which keys with persistent identifiers must
belong to those who chose them (`PersistentOwn`) and vendor keys be volatile
(`VendorKeysVolatile`), so that a vendor key opened by one client changes who signs only
for its own identifier.

### What is only model-checked

- Liveness (`BootCompletes`, `RequestEnds`, `CallReturns`, `CallAnswered`,
  `ComesToRest`): it depends on fairness and ENABLED, which the prover does not handle.
- `IpcImplemented`, the refinement of `PsaCalls` by `SpmIpc`: the invariants it needs
  are proved, the step-by-step simulation is not written yet.
- The violation runs, whose properties are false.

## 5. Plan

1. The refinement of `PsaCalls` by `SpmIpc`, from `IInv` of `SpmIpcProofs`.
2. The mailbox-thread model, NAND write buffering in `ItsMetaBlocks` and the audit
   ring buffer.

## 6. Not modelled

The components of section 1 without a module, most of them because they keep no state
between requests or only touch registers; platform ports, vendored libraries and
headers, which are most of the repository's lines. Within the modelled ones:

- ITS: reading (`tfm_its_get()` changes nothing; what it returns is `VisibleFile`),
  argument checks, flash alignment, NAND;
- mailbox: the start-up handshake of the two cores, the bare-metal and mailbox-thread
  variants, and messages with unknown call types, which the client library never sends;
- SPM: the data of a message (`psa_read()`, `psa_skip()`, `psa_write()`), reverse
  handles, memory checks, version policy, polling, `psa_irq_enable()` and
  `psa_irq_disable()`, FF-M 1.1 interrupt handlers, secure clients that break the rules
  and panic, and clients that present handles nobody gave them (refused vectors and
  shared handles are modelled);
- protected storage: builds without encryption, initialisation vectors,
  `ps_object_write()` (`tfm_ps_set()` always creates), and redirection of identifiers by
  the platform;
- crypto: one-shot functions and AEAD, which keep nothing between requests, attributes
  and export, derivation from the hardware key, and the library itself.
