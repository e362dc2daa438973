# libirpc: verification development

libirpc carries libusb calls from a client process to a server process over TCP. This directory
holds TLA+ modules of that program and of the libraries it is built from, the TLC runs that check
them on small instances, and TLAPS proofs of the main safety properties for every instance.

## The system

| Component | Source | State it keeps | Operations |
|---|---|---|---|
| client stubs | `libirpc.c` `irpc_recv_usb_*`, `irpc_usb_exit` | the caller's `struct irpc_info` (device, device list, handle) | send a function identifier, send arguments, read the reply |
| server handlers | `libirpc.c` `irpc_send_usb_*`, `irpc_read_func` | the statics `irpc_ctx`, `irpc_handle` | read the arguments, call libusb, send the reply |
| dispatcher | `libirpc.c` `irpc_call` | none | one switch for both sides; an unknown identifier does nothing |
| server program | `irpc_server.c` | listening and accepted socket | bind, listen, select, accept, `server_loop` |
| client programs | `irpc_client.c`, `irpc_find_idevice.c` | `irpc_info` | a fixed order of calls with error paths; a search over the device list |
| tpl, stream of images | `tpl/tpl.c` `tpl_dump`, `tpl_gather_blocking` | what is written and read of an image | write and read loops on a socket |
| tpl, images in chunks | `tpl/tpl.c` `tpl_gather_nonblocking`, `tpl_gather_mem` | the partial image `*gs` | gather from chunks of any size |
| tpl, nodes and values | `tpl/tpl.c` | node trees: flags, backbones, counts and cursors | map, pack, dump, load, peek, unpack, jot, free |
| libusb core | system library; headers in `libusb/` | contexts, handles, claims, device lists | called by the handlers and by the backends |
| Linux backend | `libusb/os/linux_usbfs.c` | transfers' URBs, device lists, cached configuration | submit, cancel, reap; scan; open, claim, configure, reset |
| Windows layer | `libusb/os/threads_windows.c`, `poll_windows.c` | condition variables, a table of descriptors | POSIX calls made of Win32 ones |
| Windows backend | `libusb/os/windows_usb.c` | - | not modelled |
| Darwin backend | `libusb/os/darwin_usb.c` | open counts, interfaces with their event sources, a pipe | open, configure, claim; completions from the run loop |

A call is the identifier of a function, packed as the tpl image `i`, then an image with the
arguments if the function has any, then one image back, except for `USB_CLOSE` and `USB_EXIT`,
which have no reply. The two processes share nothing but the connection. The server handles one
connection and one call at a time. What is hard in libirpc is

- **sending ahead**: close and exit return at once, so the calls after them are queued while the
  server is behind, and nothing on the wire ties an argument image or a reply to its call;
- **stale identifiers**: a device is named by `session_data`, an unsigned long narrowed to an int,
  kept by the client while devices come and go;
- **partial failures**: an open can fail before or after the old handle was closed, and its reply
  then carries an uninitialised handle; failed lookups leak the device list;
- **death of a peer**: `tpl_load`'s result is never looked at, so end of file becomes a NULL
  pointer in `tpl_unpack`, in the server after every client that left without an exit; a write to a
  dead peer raises SIGPIPE or is lost; a host that vanishes is never noticed;
- **blocking writes** in both directions at once;
- **misuse**: handlers pass `irpc_ctx` and `irpc_handle` to libusb without a test;
- **one client in a life**: the server accepts once; the others wait in the backlog.

In the vendored backends it is threads: a transfer whose URBs are refused, discarded or lost with
the device while another thread reaps them; devices that come and go during a scan; waits that
time out as they are woken; messages of several writes on a pipe. They are compiled by no target
of the Makefile, which links the system's libusb, but they are the code a call ends up in.

The hazards, each at its line and with the properties that watch it, are in `PROJECT.json`.

## Modules

| Module | What it is |
|---|---|
| `Irpc` | both processes, the two queues of images, libusb's handles, claims, contexts and lists, devices that come and go, death of either process |
| `IrpcInv` | the inductive invariants: `ProtocolInv`, `HandleInv`, `CauseInv`, `TidyInv` (together `IInv`), `Same`, `Distinct` |
| `RemoteCalls`, `IrpcRefinement` | the abstract service (calls carried out in order, at most once, results returned to their own call) and the mapping to it |
| `IrpcPrograms` | `irpc_server`, `irpc_client`, `irpc_find_idevice`: several clients, one server |
| `TplStream` | the write loop of `tpl_dump` and the read loops of `tpl_gather_blocking` on a stream of bytes |
| `ImageQueue`, `TplStreamRefinement` | the abstract queue of whole images, which is what `Irpc`'s `c2s` and `s2c` are, and the mapping to it |
| `TplGather` | the non-blocking and in-memory gather functions |
| `TplFormat`, `TplNode` | formats as trees, and one map of such a format: packing, sizes, images of cells, cursors |
| `TplValues`, `TplNodeRefinement` | what a map promises, without bytes, and the mapping to it |
| `UsbTransfer` | what `struct usbi_os_backend` promises for a transfer |
| `LinuxBulk`, `LinuxIso`, `LinuxControl`, `LinuxTransfers` | the three kinds of transfers of the Linux backend, and the choice among them with the refinement to `UsbTransfer` |
| `LinuxDevices`, `LinuxConfig`, `LinuxInterfaces` | enumeration; the active configuration; claims, resets and kernel drivers |
| `WindowsCond`, `WindowsPoll` | condition variables; descriptors, fake pipes and poll |
| `DarwinDevice`, `DarwinTransfers` | handles with configurations and interfaces; completions through a pipe |
| `MC*` | instances for TLC; `MCTpl`, `MCLinuxDevices`, `MCWindows` and `MCDarwin` put parts that share nothing side by side, and each of their behaviours is one part's |
| `IrpcProofs` | proofs about `Irpc`: types and protocol; handles, ends, identifiers, clean-up; its refinement of `RemoteCalls` |
| `IrpcProgramsProofs`, `TplStreamProofs`, `TplGatherProofs` | proofs about `IrpcPrograms`; about `TplStream` and its refinement; about `TplGather` |
| `LinuxTransfersProofs`, `LinuxDevicesProofs` | proofs about the three kinds of transfers together; about the parts of `MCLinuxDevices` |
| `WindowsProofs`, `DarwinProofs` | proofs about the parts of `MCWindows` and of `MCDarwin` |

### How `Irpc` corresponds to the code

*State.* `cpc` is where the client is: between calls (`idle`), in a stub that has sent the
identifier and not its arguments (`args`), in a stub that waits (`reply`). `call` is the function
of that stub; `cdev`, `handle`, `devlist` are the fields of `irpc_info`. `spc` is where the server
is: in `irpc_read_func` (`func`), in a handler that reads arguments (`args`), in a handler about to
call libusb (`exec`). Both have end states for each way the process ends. `c2s` and `s2c` are the
directions of the connection as sequences of images; an image carries its format string, because
`tpl_load` compares it with the reader's. `open`, `claimed`, `leaked`, `ctxs` and `attached` are
libusb's. The variables `wanted`, `inited`, `inits`, `exited`, `failed`, `misuse` are history: what
a program knows from what its calls returned, and whether it called libusb out of order.

*Formats.* The code writes the format of each image twice, in the stub and in the handler. So does
the model: the records `recv_usb_*` and `send_usb_*` hold what each side maps, the tables `Stub` and
`Handler` are the two halves of `irpc_call`'s switch, and the stub and handler actions look up
their own table only. `CallsMatch` is what relates the two.

*Atomicity.* Each write and each read of an image is a step of its own, so a client can die, a
device can leave and the other process can run between any two of them. A handler between its last
read and its reply is one step: it is sequential code that shares nothing with the client, devices
that change under it are covered by the choice of what libusb returns (`list` in `UsbOpen` may be
empty, the open may fail), and the reply's write blocks the step as a whole until there is room.

*Client.* `ClientCall(f)` is `irpc_call` up to the end of `irpc_send_func`. `ClientArgs` sends the
arguments: a device the program can have in `irpc_info.dev`, which is a slot of the list it
received, filled or zeroed, or the one it used last. `ClientReply` is the read and what it changes
in `irpc_info`. `ClientEof` is a read at end of file. `ClientLeaves` is a program that ends between
calls; `ClientDies` one that is killed anywhere, with any tail of its unread images lost. In both
cases the kernel of its host ends the connection. A host that vanishes with its kernel is not in the
model: `irpc_server.c` sets no `SO_KEEPALIVE` and no timeout, so its server waits in `read` for ever.

*Server.* `ReadFunc`, `ReadArgs`, then one action for each handler. The handle functions whose
effect is on the device and not on the server's state are instances of `HandleCall`. `ServerNull`
is libusb following a NULL context or handle, `ServerEof` the NULL of an ended stream, `ServerDies` a
server that is killed.

*Identifiers.* On the Linux backend `session_data` is the bus and the address of a device, and an
address is given anew. So `Session` may give several devices the same identifier, one after the
other: `Plug` keeps two plugged devices apart, as the kernel does with the addresses of a bus.
`AsInt` and `AsLong` are the narrowing of `libirpc.c:195` and the widening of lines 278 and 509.

*What is left out of `Irpc`.* The values a call carries other than devices and interfaces; the
arguments of handle functions are still sent and read, as images with their format. Logging. The
assignment `irpc_ctx = NULL` in the client's half of `irpc_usb_exit`: a client's static is never
read. The default branch of the switch: an identifier outside the enumeration cannot be sent by
`irpc_call`. Endianness and the word size of the wire: tpl converts them.

### `IrpcPrograms`

A call is one step, which is what `IrpcRefinement` shows of `Irpc`; close and exit are queued, as
they return before the server ran them. An enumeration that fails on the server gives an empty list
(`libirpc.c:188-197` counts no entry for a negative result), which no program can tell from a bus
without devices. Each client follows its program: `irpc_client` opens the
device in one slot of the list, claims, and leaves on the path of whichever call failed;
`irpc_find_idevice` asks for the descriptor of each listed device until it sees one in recovery
mode. Clients may be killed at any step and devices come and go. The server binds (which may fail
at once), waits in `select` and then in `accept`, serves one client and ends by its exit or its end
of file; the others get a reset then. What `irpc_find_idevice` prints is in `verdict`, the devices
that were there when it got its list in `present`.

### How `TplStream` corresponds to the code

*State.* `wpc`, `sz` and `ends` are the dumping process: `sz` is the local of `tpl_dump`, and `ends`
the places where the images dumped so far end. `rpc` and `img` are the gathering process: in one of
the two read loops, with `img` for `preamble` and then `*img`, whose length is `i`. `got` is what the
gathers returned. `pipe` holds the bytes written and not yet read. A byte is its place in everything
dumped, so that a byte repeated, lost, or taken for another image's is seen as such; the prefix
`tpl` and the length field are what the byte at the first place of an image tells.

*Steps.* `TplDump` is the call up to the first write, `WriteSome` a write that moved any number of
bytes, `WriteFails` an error that ends the dump. `GatherBegins` is the call, `ReadHeader` and
`ReadBody` reads that leave a loop unfinished, `ReadHeaderEnd` the header's last read with the tests
of prefix and `gather_max`, `ReadBodyEnd` the last read of all. `ReadEof` and `ReadFails` are the
returns of 0 and -1. Either process can end between two of its system calls, and a connection whose
writer is gone may be reset, which loses a tail of the unread bytes. A signal leaves both loops as
they were: it is a stuttering step. Freeing and allocating are left out.

*Between the modules.* `Irpc` takes an image as one step and a direction of the connection as a
queue. `ImplementsImageQueue` is the reason that is sound: an image is put by the write of its last
byte and taken by the read of its last byte.

### The other tpl modules

`TplGather` names bytes the same way. `tpl_gather_nonblocking` is a loop with a read per step, and
`tpl_gather_mem` one call over a chunk; both hand each whole image to the callback and keep the rest
in `*gs`. `gather_max` is tested where the code tests it, which is only when bytes of two chunks are
put together. The stream may end inside an image, or go on with bytes that are not tpl.

`TplNode` is one map. `m.flags`, `m.osz`, `m.num`, `m.bb` and `m.cur` are the fields of the root and
of the arrays' `tpl_atyp`; an image is a sequence of cells with the byte order it was written in and
the release that wrote it. Packing the root overwrites its leaves, packing an array appends to its
backbone and clears its child arrays'; dumping allocates `tpl_ser_osz` cells and fills them;
unpacking copies at the cursors and sets the child arrays' counts and cursors; a failed load leaves
the flags it had set by then. `TplValues` says what the program may rely on, with sequences of
values in place of cells and cursors.

### The backends

*Linux transfers.* The user's thread submits and cancels, the event thread reaps, times out and
handles disconnection, the kernel completes URBs in the order of an endpoint. One ioctl is one step,
and so is the part of a function under the transfer's lock that makes none. The lock is held by the
core over submission and cancellation and by the backend over completions; the disconnection that
`op_handle_events` finds takes none on its way to `op_clear_transfer_priv`, so it may come in the
middle of a loop of another thread. That loop then goes on over freed memory: what it finds there is
undefined, and the models take it to be what was there, which is the most that can be said of it. `LinuxBulk` numbers the
bytes a device sends, so that `buffer` shows where each ended; `LinuxIso` does the same with
packets. The core's part (`usbi_handle_disconnect`, `libusb_cancel_transfer`, the callback) is
external and follows `libusbi.h` and the calls in the backend; `libusbi.h:318-324` leaves the lock in
the path of `handle_events` to the backend. `held` is "the kernel may still write
this transfer's memory", which `UsbTransfer` relates to the moment it is reported.

*Linux devices.* `LinuxDevices` scans entry by entry, with the two flags the first scan sets for
good, the fallback from sysfs to usbfs, references on devices, and the list as a block that moves as
it grows. A scan may fail at every entry; one that fails when the list has moved leaves the caller a
stale pointer, and is not followed further (`undefined`). `LinuxConfig` is `op_get_configuration`,
`op_set_configuration` and the descriptors' reads, with another program that may change the
configuration and a device that may not answer: at open it is then taken for unconfigured, after a
set the old copy stays (`logged`). `LinuxInterfaces` has the kernel's view of each interface on one
side and the core's `claimed_interfaces` on the other, and one action for each operation with its
errno's. A reset, a set-configuration, a detached driver and the unplugging of the device change the
kernel's side alone; `dropped` remembers which claims they took.

*Windows.* `WindowsCond`: `waiters` and `not_waiting` are the two lists, with an event per thread; a
wait that times out takes the mutex and then leaves the list. `WindowsPoll`: a slot is looked for
without its lock and tested again under it; poll, read and write are cut where they wait.

*Darwin.* `DarwinDevice` keeps the calls in progress as a stack, as claim and set-configuration call
each other, and every IOKit call may fail: the look-up of an interface, its plug-in, `QueryInterface`
(which leaves NULL in the table), opening, reading endpoints, making the event source, setting an
alternate setting (after which the device is reset). A freed event source is remembered (`CFRelease`),
as `cfSource` is not cleared. `nested` says that a claim made to restore an interface has itself set
the configuration. The recursion ends in the code when IOKit finds the interface or fails; where it
would not end (the first configuration lacks what was claimed) it is cut at `MaxDepth`. In `DarwinTransfers` the run loop's thread writes a
message as four words and the event thread reads four; the end of the device is one word of it. A
write to a full pipe waits, in `darwin_devices_detached` with `open_devs_lock` held. The event source
of a control transfer is that of the handle that opened the device, so its callback may come when its
own handle is closed, and then finds the -1 that `darwin_close` left in freed memory.

## Runs

| Run | Instance | Shows |
|---|---|---|
| `irpc_safety` | 3 devices sharing one vendor/product id, two of them their identifier and the third one that an int narrows to it, list of at most 1, buffers of 2 images, 1 init, either process killed at any time; 3.4 million states | the safety of the protocol |
| `irpc_live` | 1 device, buffers of 3 images, fairness; 265 thousand states | the inductive invariant of the proofs, liveness, and that `Irpc` implements `RemoteCalls` |
| `irpc_programs` | 2 clients of either program, 3 devices, one in recovery mode, lists of 2 or empty ones of failed enumerations, backlog of 1, fairness; 87 thousand states | what the programs report is true, they close what they opened, they end |
| `tpl_stream` | up to 4 images of 3, 5, 7 or 8 bytes, headers of 2, a connection of 6 bytes, a limit of 7; 96 thousand states | images arrive whole and in order; the stream implements the queue; calls return |
| `tpl_values` | the format `sA(iA(s#))` with 2 elements; streams of 3 images of 3 or 4 bytes, chunks of at most 5, a limit of 6 | sizes are exact; a map implements its values; chunks are gathered whole |
| `linux_transfers` | bulk transfers of 1 to 3 URBs, isochronous ones of up to 4 packets, control transfers of up to one byte too many, 1 resubmission, disconnected anywhere; 252 thousand states | a transfer is reported once, with what happened, and freed when nobody uses it |
| `linux_devices` | 3 ports on 2 buses, 3 addresses, 2 scans, a list that grows by 1; 2 configurations; 2 handles and 2 interfaces, one with a driver | references, completeness of lists, the cached configuration, claims |
| `windows` | 3 threads and 4 waits; 2 users, 2 slots, 3 descriptors, 2 writes | no lost wakeup, no slot given twice, no lost write |
| `darwin` | 1 handle, 3 configurations of 2, 1 and no interfaces, 4 nested calls; 2 handles, 3 transfers, pipes of 4 words; 150 thousand states | interfaces with their event sources, whole messages, ends that are noticed |
| `irpc_wide_session` | an identifier with the top bit of an int set | violation: a listed device is not found by its own entry |
| `linux_disconnect` | one bulk transfer of 2 URBs | violation: a disconnection frees the URBs under another thread's lock |
| `tpl_old_strings` | images of both string formats | violation: a string checked in the old format is unpacked in the new one |

*Properties of libirpc.* `CallsMatch`: no reader meets an image of another format than it maps, and
the reply in flight is the only one and is for the call its client waits in. `HandlesAgree`: while
the program believes a device open, the server has one open and the client's handle describes it;
the static handle is the only one open and holds every claim. `OpensTheListedDevice`: it has the
identifier of the entry the program chose, and is the listed device itself while that is plugged and
an int carries its identifier; a device that was given the identifier after the listed one had left
may be opened instead. `EndsExplained`: what each process can die of; the server's reads at end of
file and its writes to a dead client do end it, but never after a client that called exit and then
left between two calls. `CleanShutdown`: after an exit by a program that called in order and whose
opens and lookups succeeded, libusb has nothing left. `CallReturns`, `SessionEnds`: no stub waits for
ever, no server outlives an exit or the process of its client. `FindTellsTheTruth`:
`irpc_find_idevice` names a device that was there in recovery mode, and says there is none of a list
that is not empty only if there was none or the list was cut. `ClosesWhatItOpened`: a
server that ended by an exit has nothing open. `ProgramsEnd`: every client that was connected ends.

*Properties of tpl.* `OneStream`: each image a gather returns is the next that was dumped, byte for
byte; no gather takes a byte of the next; end of file is reported after every image that was dumped
whole. `SizeIsExact`: `tpl_dump` writes exactly the bytes it allocated. `GatheredInOrder`,
`AllGathered`: the callback gets the images sent, in order, all of them, and `*gs` is the rest.

*Properties of the backends.* `FreedWhenUnused`, `SurplusDataKept` (what arrives in an URB that was
to be discarded is appended without a hole), `CompletedMeansDone`, `PacketsInPlace`,
`GivenUpIsReported`; `RefsBalanced`, `DescriptorsReadable`, `ListIsComplete`, `CacheFollows`,
`ClaimsAgree`; `OneSlotEach`, `ReadNeverBlocks`, `BroadcastMissesNone`, `WritesAreRead`;
`InterfacesWhole`, `ConfigurationKnown`, `MessagesWhole`, `EndsAreNoticed`. Each is commented where
it is stated, with what it does not promise:

- `FreedWhenUnused` lets a disconnection free the array under the loop of another thread, and only
  that; the run `linux_disconnect` shows it. A user may also be told twice there, by the callback with
  `NO_DEVICE` and by the error of the submission it interrupted; `UsbTransfer` counts the callbacks;
- `RefsBalanced` includes the failed scan: the pointer the caller would free is stale only while a
  usbfs directory is read after the list has moved;
- `ListIsComplete` speaks of every list a scan returns, the empty one too;
- `CacheFollows` holds from a success on until the next failure that is only logged;
- `InterfacesWhole`: if a claim that was to restore an interface has set the configuration (`nested`),
  the claim that had begun it all may fail at `QueryInterface` and leave its endpoints behind. An open
  interface has its event source and endpoints without exception;
- `ConfigurationKnown`: if the handle had claimed an interface that the new configuration lacks,
  claiming it again has set the first one, while the new one is reported;
- `EndsAreNoticed`: unless the two threads have come to wait for each other at a full pipe (`Stuck`).

*Bounds.* Two devices are the least for an open to take the wrong one, a third is given the
identifier of one that left, and sharing their vendor and product id makes open-by-id ambiguous. `MaxDevs` 1 makes the cut of the list happen. A buffer
of two lets a call run ahead of an unanswered one and still blocks; buffers of three let close,
another call's identifier and its arguments be queued together. `MaxCtxs` 1 bounds calls of init: a
second init is misuse, which the runs reach in other ways. An int has three bits, an unsigned long
six. Two clients are one that is served and one that waits; with a backlog of one a connection
already waiting and one still to come both happen; the device in recovery mode may be in the list,
cut from it, or gone. Of the image sizes one exceeds the connection and one the limit. Three nested
levels make an array whose parent is itself repacked; two elements make a cursor move. URBs of 2
units with transfers of 0, 3 and 5 give an empty transfer, a short last URB and one in the middle;
packets of 1 to 4 units with URBs of 3 fit, fit exactly and do not fit. One resubmission shows what
a first submission left behind. Three ports on two buses let a bus fail after another was read, and
three addresses let one device be replaced. Three threads are one that broadcasts and two that
wait, and a fourth wait reuses an entry. Two slots for three descriptors make the table full and a
slot be used again. A pipe of 4 words
holds one completion and fills; a device whose configurations have two, one and no interfaces makes
claims that cannot be restored.

*Deadlock* is checked for `Irpc` and `IrpcPrograms`, where it is never reported as devices can
always come and go; that calls do not wait on each other is `CallReturns`, `ProgramsEnd`. The other
systems really stop once their bounds are used up or their parties are gone; the liveness
properties say that they do not stop earlier.

*Fairness.* Weak fairness of the steps of each sequential process that has nothing to wait for but
what its guard names: the server as a whole, a stub that was called, the loops of dump and gather,
a program between its calls, the thread that handles events, a library call in progress, the run
loop's thread. libusb calls are taken to return (the transfers have timeouts). Nothing is assumed of
a program that uses libirpc directly, of deaths, of devices, of the kernel's completions or of when
a user submits. That a connection ends with its client's process is the kernel's doing, and assumed. A
reader starts its next gather: `server_loop` always returns to `irpc_read_func`,
and a stub whose call has a reply always loads it. `ProgramsEnd` counts a client that waits while a
stopped one is served as ended only when that one ends: `irpc_client` and `irpc_find_idevice` do not
stop, so they are fair.

*Violations.* Each is a difference between what a comment says and what the code does; the lines
are in `PROJECT.json` under `findings`. `libusb_handle_events` and `usbi_handle_disconnect` are of the
core, whose source is not here: `linux_disconnect` rests on `libusbi.h:318-324`, which gives the lock
in that path to the backend.

*More configurations to start by hand.* `PROJECT.json` does not list them; TLC finds each violated.

| Configuration, module | What it shows |
|---|---|
| `MCLinuxFailedScan.cfg`, `MCLinuxDevices` | a scan that fails after the list was moved: by `libusbi.h:462-465` and the comment at `linux_usbfs.c:839-842` the list may move and is destroyed on failure, yet the scan leaves the caller a list pointer that is no longer valid |
| `MCDarwinSource.cfg`, `MCDarwin` | a claim that fails to read the endpoints, after an earlier claim and release of the interface, releases the earlier claim's event source again |
| `MCDarwinClose.cfg`, `MCDarwin` | the last close is not the opener's: the device's event source stays (`libusbi.h:506-507` asks close to destroy what open made) |
| `MCDarwinBlocked.cfg`, `MCDarwin` | the run loop blocks in its write to a full pipe with the lock the reader needs: `darwin_usb.c:694` sets `F_SETFD` where its comment says "set the pipe to be non-blocking" |

## Proofs

TLAPS proves, as theorems of the specifications:

*`Irpc`*, for every finite set of devices, any interfaces, any identifiers, any integer widths and
any buffer size:

- `TypeCorrect`, by `TypeInv`: `TypeOK` with the fact that a handler that runs has arguments of
  the message type;
- `ProtocolCorrect`, `NeverDesync`, `RepliesInOrder`, `CallsInStep`, by `InStep`. That formats match
  is not inductive: a reader maps the format of the next image only if every queued image is
  followed by what its function calls for (`Wire`), and the same stays true after the client's next
  write only if the queue ends where the client's stub is. `Follows(k)` names the format that must
  follow the k-th image. The order of replies rests on `OneAnswer`: at most one answered call is on
  its way, in the queue, in the server or as a reply;
- `HandlesCohere`, `NoHandleLost`, `HandlesAreOne`, by `HandleInv`: while a device is believed open
  no queued or running call will change the handle (`Held`), and a successful open's reply describes
  the handle the server holds (`Told`). `Pending(f)` says that f is queued or running; one lemma per
  action says how it changes. `Does(f)` collects what all seventeen handlers have in common;
- `ServerStops`, `ClientCrashes`, `EndsAreExplained`, by `CauseInv`: in a program that calls in order
  every pending call finds its context and handle, and exit is pending from the call to the
  server's end. So a stub meets an ended stream only if the server was killed, or stopped by misuse;
- `ShutsDownClean`, by `TidyInv`: before the exit libusb has the one context the program knows of, no
  list but of a failure whose reply is on its way, and a handle only if the program knows of it or a
  close or an open is on its way; from the call of exit only closes are carried out, and exit is the
  last image of the queue, so that the close is not left behind it;
- `OpensTheListed`, for any identifiers, shared ones too, by `Same` (the device held is the one whose
  entry was filled from it, or the comparison of identifiers found it) and `Distinct` (those plugged
  at once differ); `Widened` is the arithmetic of an int that is widened and narrowed again;
  `InvariantHolds`, all of it together;
- `KeepsThePromise`, the refinement of `RemoteCalls`, one lemma per action. What is pending there is
  the function the server is in and those whose identifiers are queued here, so the lemmas about
  `FuncsOf` say what a write adds (`FuncsOfMore`), what a read takes (`FuncsOfRead`) and what a stop of
  a process leaves (`FuncsOfRest`). `InStep` is needed with `Ready`: a server that is done or was
  stopped is in no function, and a connection is open only at a client that lives.

*`IrpcPrograms`*, for any clients, devices, lists and backlog:

- `FindsTheTruth`, by `FindInv`: the list a search still goes through is a part of what was present,
  all of it if it is not empty and was not cut, and everything the search has left behind was not in
  recovery mode;
- `ClosesBehindItself`, by `CloseInv`: what is open at the server is open at its client, or its close
  is queued before the exit (`ServedInv`, `SentInv`, `OpenInv`).

*`TplStream`*, for images of any sizes longer than a header, any connection and any limit:

- `StreamCorrect`, `StreamTyped`, `StreamIsOne`, by `StreamInv`: the images lie one behind the other
  (`Laid`), the two processes are each inside an image (`AtWriter`, `AtReader`), and the pipe holds
  the places between them (`Between`). Places increase from image to image, so the first byte of a
  header names one image and its length;
- `StreamIsQueue`, the refinement to `ImageQueue`. The abstract queue is a part of the row of all
  sizes (`Part`), from the image after the last one gathered to the last one that is wholly in the
  pipe or before it (`ThroughTo`); a write moves the end of the part when it moves the last byte of
  an image and otherwise stutters, a read of the last byte moves its start, a reset cuts its end.
  That the queue has room when an image is completed is arithmetic: each waiting image takes more
  than a header's bytes of the connection (`ImagesTakeRoom`, `DivBounds`).

*`TplGather`*, for images of any sizes longer than a header, chunks of any length and any limit:
`ImagesInOrder`, by `GatherInv`: the callback was given the first g images and `*gs` is the stream from
the end of the g-th to the last byte taken. The stream ends with no more than a header and a byte
after the last image (`Stream`), so the first bytes of what waits are always those of a header whose
length is that of the next image. The loop over a chunk is a recursive function; `WalksOn` and
`Isolates` say what it does from one image on, given what it does from the next, and the induction is
over the set of the places where that fails, which has no least element.

*`LinuxTransfers`*, for transfers of any length or any packets, cut into any number of URBs, with any
number of submissions and a disconnection at any moment:

- `TransfersInvariant`. The URBs of an array go through the same states in the same order, so an
  array is described by three numbers (`Phases`): the first a are retired, those up to b handed back
  by the kernel, those up to c in flight, the others not submitted. The queue of completions is the
  interval from a to b, with the URB reaped and not yet handled in front of it (`Reaping`); the loop
  of submission stands at c + 1, and a loop of DISCARDURB has passed over none that is in flight
  (`Looping`), which is why discarding forward still hands back in order; `num_retired` is a with
  those never submitted (`Counted`); without the device nothing is in flight (`Gone`);
- `ArraysOutliveTheirUse`: where the array is freed, `Counted` makes b equal c, and a equal b and the
  lock free unless the descriptor has left the poll set. A loop that a disconnection has overtaken goes
  on (`Looping`), but the kernel takes nothing from it any more, as the device is gone (`Gone`);
- `TransfersAreReportedOnce`, the refinement to `UsbTransfer`: `held` implies `pending`, and each of
  the three modules' steps is a submission, a report, a refusal, a cancellation, or leaves what
  `UsbTransfer` sees unchanged or lets go of the memory;
- `CompletedIsDone`, by `OutcomeInv`: while no failure is recorded everything retired succeeded, and
  `COMPLETED_EARLY` means a short URB behind which nothing counts, or one that was never submitted;
- `SurplusIsKept`, by `SurplusInv`. The bytes are numbered as they are sent, and `g[i + 1]` is the
  last number of URB i. What is handed back and not retired is at its place in the buffer (`Placed`);
  what is retired is in front, in order and with no hole as long as nothing failed (`Gathered`), and
  ends before the place of the next URB, so moving bytes forward overwrites none that still count.
  That an URB dropped without counting its bytes leaves no hole is the subtle part (`Silent`): a stall
  or an error leaves the action NORMAL, so the URBs that follow are handled as good ones, and this
  loses nothing only because the endpoint stopped and they are empty. A cancelled URB that comes
  while nothing is given up can only be behind the one whose error disabled the endpoint. A control
  transfer has one URB (`AnswerInv`);
- `PacketsArePlaced`, by `PacketsInv`: e[i] packets are in the first i URBs (`Cut`), and the offset of the
  next descriptor is e[a] when a URBs are retired and none failed (`Copied`). That the loop
  which fills the URBs needs as many as the loop which counts them is `LoopsAgree`: the URB counted in
  after k packets (`CountedSoFar`) is the one the other loop puts the k-th in, and holds as many bytes.
  It needs that no packet is larger than an URB; a larger one makes the remaining space negative, and
  the loops part. `Before` and `Swallowed` are recursive functions: that such functions exist is
  proved once (`Recursion`), and facts about them by `Climb`, induction up to a bound on the set of
  numbers a fact holds of;
- `TransfersTypes`, by `Typing`. Most of it is in the invariants above; what they lack is that no more is
  counted as retired than there are URBs (`Retiring`), that no number in the buffer is above that of
  the last byte sent (`Received`), which moving bytes forward keeps as it reads only from the part of
  the URB reaped, and what the device may answer to a control transfer (`ControlStatic`).

*`MCLinuxDevices`*, part by part: `ClaimsAlwaysAgree`, for any handles and interfaces: that the core's
record is the kernel's and what the kernel took away is inductive; what the kernel does on its own
only takes (`ReassignKeeps`), and each operation's case rests on which errno's the kernel can answer
with in the state it is in. `CacheAlwaysFollows`, by `ConfigInv`: what a call that has read or set the
configuration remembers of it is still true when it goes on.
`ReferencesBalance`, `DescriptorsAreReadable`, `ListsAreComplete`, by `ScanInv`: references are counted
over the two lists (`Balanced`), where the list may have moved is known (`Moved`), a device that stays plugged is listed or still to be come to
(`Covered`), and, unless the scan fell back, none that was come to is still ahead (`Once`), which needs
that an address is given once (`Fresh`). `ListIsComplete` is an action property and follows from the
invariant at the step that ends a scan.

*`MCWindows`*: `DescriptorsInOneSlot`, `ReadsNeverBlock`, by `PipesInv`: whatever a thread remembers of
the table between two locks still holds when it locks the slot, or its second look finds that it
does not (`Sound`); no two threads create or close the same descriptor (`Apart`); what is in the
table and not open is about to be closed (`Leftovers`); poll reports only what has been written
to, and only the thread it reports to reads. `BroadcastsReachAll`, by `CondInv`, for any threads: a
thread that a broadcast found waiting has its event set until its wait has returned. It needs that
`waiters` holds just the threads inside a wait, whatever timed out, so that an event is only ever
reset by the thread that leaves with it.

*`MCDarwin`*: `InterfacesStayWhole`, `ConfigurationStaysKnown`, by `DeviceInv`, for a recursion of any
depth: in the stack of calls that claim and set the configuration for each other, who calls whom is
known (`Shaped`), and the configuration is that of each call of the stack that has set one, or the
first, and then the handle claims what that call's configuration lacks (`Followed`). An interface
becomes open and gets its source and endpoints in one step and loses them in one (`OpenWhole`). As
long as no claim inside a claim has set the configuration, endpoints are of what is claimed and there
(`Endpointed`) and not of what still waits to be claimed again (`Awaited`). `MessagesStayWhole`, by `PipesInv`: what was read of a message, what is in the pipe and what the
run loop has still to write (`Stream`) is a sequence of whole messages (`Messages`, stated of
neighbouring words, as nothing can be counted), and each transfer named in it is pending and has
ended once (`Carried`).

The proofs assume `ConstantsAssumption` and `NoneAssumption` of `Irpc`, `ProgramsAssumption`,
`StreamAssumption`, `GatherAssumption`, `TransfersAssumption`, and, stated in the instances, `DevicesAssumption`,
`ClaimsAssumption`, `SlotsAssumption`, `PipesAssumption` and `DeviceAssumption`. TLC evaluates them on
every run that extends their modules. No theorem has a hypothesis more.

Model-checked only:

- every liveness property, as liveness under fairness is outside the prover;
- everything about values in tpl (`SizeIsExact`, `ImplementsTplValues`, `UnpacksWhatPeekSees`), whose
  modules walk a format that contains formats by RECURSIVE operators; a proof would be an induction
  over that data.

## Observations

Plain defects of the code that need no interleaving, met while modelling and reflected in the
models where state depends on them:

- `libirpc.c:751`: the configuration libusb returned stays in the handler, only the status is sent;
- `libirpc.c:1140`: a bulk transfer maps the address of the stub's own pointer parameter for the
  number of bytes, and the data of an OUT transfer is never sent;
- `irpc_server.c` sets `SO_REUSEADDR` after it has bound the socket;
- `tpl.c`: `gather_max` is tested only when two chunks are put together; a load from a file
  descriptor that fails leaks its image;
- `linux_usbfs.c`: a device unplugged during the first scan turns sysfs off for good; after the
  fallback to usbfs a device may be listed twice; two error paths leave a file open;
  `LinuxConfig!ConfigurationIsReal` does not hold when another program changes the configuration
  between two reads;
- `libirpc.c:515-518`: an open that does not find its device leaves the handle of an earlier open as
  it is, where one whose `libusb_open` fails has closed it; both tell the client the same;
- `irpc_find_idevice.c:126` says that no device was found when the server could not enumerate;
- `darwin_usb.c:784-791`: claiming again what the first configuration lacks sets the first
  configuration, which claims it again, and so on; `darwin_usb.c:1010`: after a failed
  `SetAlternateInterface` and a reset, success is returned if the endpoints can be read;
- `threads_windows.c`: a timeout that races a broadcast leaves the thread's event set, so that its next
  wait ends at once; `usbi_cond_signal` takes an entry of the list head itself, and
  `usbi_cond_destroy` does not close the events; `poll_windows.c`: `exit_polling` destroys
  `new_fd_mutex` inside its loop.

## Not modelled

- `windows_usb.c`: SetupDi, WinUSB and HID calls, whose behaviour is that of closed drivers. The
  two files it rests on are modelled.
- The bytes of transfers in libirpc: no state of either process depends on them; the defects above
  are of single assignments.
- `tpl_map`'s parser of format strings, structures (`S(...)`) other than as their leaves, and tpl's
  file and mmap plumbing.
- Parsing of descriptors, clocks, and the search for usbfs in the Linux backend; enumeration and the
  start and stop of the event thread in the Darwin backend; `cancel_io`'s choice of API and the
  conversions of handles in the Windows layer.
- The libusb core: the repository has its headers only, so it is modelled as external from how the
  backends and `libirpc.c` use it.
- A client's host that vanishes without ending its connection: nothing in the code answers it.
- What a loop does with freed memory after `linux_disconnect`.
- Build files, address parsing and the programs' output.

## Plan

Done: everything above. What is left, in order of worth: a proof of `SizeIsExact` with the formats
restated as arrays of nodes that name their parents, so that the sums over them are functions of
numbers; `DarwinDevice`'s enumeration and the libusb core's event handling, should its source ever be
added to the repository.
