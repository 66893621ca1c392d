# A verification of the boot loader's stateful parts

This directory holds TLA+ models of the parts of this U-Boot tree (i.MX6Q,
EmbedSky E9 board, `src/uboot-imx/`) whose correctness depends on the order in
which things happen: a power cut between two writes, a packet that comes late,
a table that fills up, a device that fails while another is being tried.  The
models are checked with TLC on small instances; what matters most of the
environment, on the medium and in RAM, of TFTP, of the Ethernet driver, of the
network loop and of the DHCP client is proved with TLAPS for all instances.

Most of the tree is not of this kind: drivers that set registers, parsers of
on-disk and image formats, boards and architectures that are not built, and
libraries kept in step with other projects.  `PROJECT.json` lists every part
with the reason why it is or is not modelled, maps every definition to the
lines it translates, and lists the hazards with the properties that watch them.

## The system

U-Boot is one thread.  It starts, loads its *environment* (a set of named
variables) from persistent storage, runs commands from a script or from the
console, and in the end starts an operating system.  "Concurrency" is what
goes on outside this thread: power cuts and resets, media that fail, Linux that
writes the same environment with `fw_setenv`, network packets, an Ethernet
controller that works on shared memory, and timers that the thread polls.

| Part | Source | State | Operations |
|---|---|---|---|
| Persistent environment | `common/env_mmc.c`, `env_nand.c`, `env_sf.c`, `env_flash.c` | one or two copies on the medium (CRC, serial or flag, data), the copy in use, the next serial | load at boot, `saveenv`, repair of flags |
| `fw_setenv` | `tools/env/fw_env.c` | the same copies, written under Linux | open, change, write back |
| Environment in RAM | `lib/hashtable.c` | slots, `filled` | find, enter, delete, import, export |
| Boot memory | `lib/lmb.c`, `common/image.c`, `image-fdt.c` | table of reserved regions | reserve, allocate, free |
| TFTP | `net/tftp.c` | protocol state, block numbers, memory | handlers for packets and timeouts |
| Network loop | `net/net.c` | `net_state`, one timer, one UDP handler, retry count | start, poll, restart, end |
| ARP, transmit buffer | `net/arp.c`, `net/net.c`, `net/ping.c` | one pending request, one packet buffer | send, retry, reply |
| Network devices | `net/eth.c` | ring of devices, current one, which are up | init, halt, take the next |
| DHCP | `net/bootp.c` | protocol state, transaction ids, what the servers told us | handlers for packets and timeouts |
| ping | `net/ping.c` | protocol state | handlers |
| Ethernet driver | `drivers/net/fec_mxc.c` | descriptor rings, seen through a cache that is not coherent | receive, send, start, halt |
| IP fragments | `net/net.c` | one buffer with the list of its holes inside | take a fragment |
| Driver model | `drivers/core/` | devices, their tree, the lists of the uclasses, sequence numbers | bind, probe, remove, unbind, look up |

How they interact.  `saveenv` exports the hash table, writes the result to the
medium, and a later boot imports it.  `NetLoop()` runs one protocol at a time
on one device; protocols send through the ARP layer and are called back for
packets and timeouts; an attempt that fails goes back to `NetLoop()`, which
takes the next device and starts the protocol again.  What a transfer put into
memory is booted by `bootm`, which keeps it apart from the device tree and the
ramdisk by the table of `lmb.c`.

What is hard about it.  The environment must survive a power cut anywhere in a
save, with serials of 8 bits that wrap around.  Slots of deleted variables must
not hide others.  Merged and rounded regions must still protect each image.
Packets are lost, repeated and reordered, and block numbers wrap.  The network
code keeps its state in global variables that outlive the command they belong
to.  The Ethernet driver and the controller take turns on descriptors of which
several share a cache line.  The driver model must undo half-done work when any
of a driver's hooks fails.

## Modules

| Module | Models |
|---|---|
| `EnvStore` | the abstract promise: one durable environment |
| `EnvConfig` | the constants of all environment modules |
| `EnvRedund` | two copies with serials: the medium, the boot, the export |
| `EnvMmc`, `EnvNand` | `saveenv()` of the two drivers that use serials |
| `FwEnvSerial` | `fw_setenv` on the same copies |
| `EnvSerial` | a board with one of the two drivers, and Linux |
| `EnvSerialProofs` | theorems about `EnvMmc` and `EnvSerial` |
| `EnvFlagged` | two copies with an active/obsolete flag |
| `EnvSf`, `EnvNor` | boot and `saveenv()` of the two drivers that use flags |
| `FwEnvFlagged` | `fw_setenv` on the same copies |
| `EnvFlash` | a board with one of the two drivers, and Linux |
| `EnvFlashProofs` | theorems about `EnvFlash` |
| `EnvSingle` | a single copy, on all four media (the E9 board: MMC) |
| `EnvBoard`, `EnvBoardMC` | any of these boards, with failing accesses |
| `EnvBoardProofs` | theorems about `EnvBoard` |
| `HashTable`, `HashSize` | the environment in RAM; the choice of the table's size |
| `Lmb` | the logical memory blocks |
| `Tables`, `TablesMC` | the two tables side by side; a small RAM and small hash tables |
| `LmbProofs` | theorems about `Lmb` |
| `TablesProofs` | theorems about `HashTable`, as a part of `Tables` |
| `Tftp` | the TFTP client, with a server and a network that are external |
| `NetEth` | the ring of network devices, as operators on one record |
| `NetArp` | the pending ARP request and the packet buffer |
| `NetLoop`, `NetLoopMC` | the loop with TFTPGET, PING and DHCP; the settings that are checked |
| `Dhcp` | the DHCP client with its transaction ids, and servers that are external |
| `Protocols` | the two clients side by side |
| `ProtocolProofs` | theorems about `Tftp` and `Dhcp` |
| `NetFifo` | the abstract promise of reception: a bounded queue of a device that is up or stopped |
| `FecRx`, `FecTx` | the two directions of the Ethernet driver, with the controller and the cache |
| `IpDefrag` | the reassembly of IP fragments |
| `NetDeviceProofs` | theorems about `FecRx`, `FecTx` and `NetLoop` |
| `IpDefragProofs` | theorems about `IpDefrag` |
| `NetPath`, `NetPathMC` | the three side by side; small rings and datagrams |
| `DriverModel`, `DriverModelMC` | the driver model core; a tree of five devices |

`Tables`, `NetPath` and `Protocols` put components side by side that share no state in the
code: a behaviour is one of a single component, and nothing is claimed of their
interleaving.

Names are those of the C code.  A definition with a comment "Mutant" is a
plausible mistake in the definition that follows it; it is used by nothing but
the test that the properties would notice it.

### The persistent environment

A copy on the medium is a record of the CRC, the serial (or flag) and the data.
The CRC is modelled as the contents it was computed over, so `crc_ok` says
whether the data are those the CRC belongs to; a half-written copy has data
that belong to no CRC.  `env` is the environment in RAM (`Off` without power);
`env_valid`, `env_flags` and `env_new` are the driver's variables.  `committed`
and `tried` are history: what was last saved with success or loaded, and what
saves that did not finish were writing.

`saveenv()` is cut into the steps between which power can be lost:

* MMC (`EnvMmc`): export and increase of the serial; first block (CRC, serial,
  beginning of the data); the other blocks.
* NAND (`EnvNand`): export; erase; write; on failure, erase and write of the
  other copy.
* SPI (`EnvSf`): export; erase; write; the new copy's flag; the old copy's
  flag.  `saveenv()` may find that the flash cannot be probed and then
  replaces the environment in RAM by the default.
* NOR (`EnvNor`): the same, and the boot writes flags too.  A failed erase
  returns with `rc` 0.

Failures of reads, erases, writes and probes are actions of their own, with
the early return the code takes; their number is bounded (`MaxReadFaults`,
`MaxWriteFaults`).  `PowerCut` is possible between any two steps.

`fw_setenv` (`FwEnvSerial`, `FwEnvFlagged`) runs while U-Boot does not, and one
instance at a time (`main()` takes a lock).  It reads both copies, selects one
by the rules of `fw_env_open()`, which turn out to be those of the boot, and
writes the other one.  Two things differ from `saveenv()`: when no copy is good
it goes on from whatever serial copy 1 has, and on a block device the kernel
writes the blocks out in any order, after `write()` has returned
(`FwWriteSome`).  The program's end and a power cut are one action.

`EnvBoard` is a board with any of these: two drivers with serials and two with
flags, beside `fw_setenv`, or a single copy on one of the four media.  It states once for all of them what a
reset may load (`AlwaysLoadable`), what a successful save means (`SaveIsKept`) and
what may happen to the good copy in use (`InUseKept`).

### The environment in RAM

`table` is the array of `lib/hashtable.c`; `used` is the first index, 0 (never
used) or -1 (deleted), as in the code.  Names are values with a given hash
code, chosen so that they collide.  Callbacks and access checks are a choice
`ok`: refused or not.  An import is several steps, one for each pair, because
the entries it makes and deletes are ordinary entries.  `env` is history: the
variables as a reader would expect them.  `overrun` is history: a new entry was
made in a slot that held another one.

### Boot memory

`reserved` is the table, a sequence of regions.  Callers reserve images at
fixed addresses (`Reserve`), allocate (`AllocStart`, then one step for each
candidate of the search in `__lmb_alloc_base()`), and at the end free the device
tree and reserve it again, as `image_setup_libfdt()` does.  `held` is history: the
blocks that are in use.  `lost` is history: `lmb_free()` could not split a
region because the table was full.

### TFTP

The variables are those of `net/tftp.c`; `mem` says which block of the file each
block of the memory holds.  A handler's step takes any of the packets on the way,
so packets may be lost, delayed and reordered.  The server is
external: it answers each request, also a repeated one, from a port of its own,
with or without options, and repeats its last packet at will.  It takes nothing more
of a file that has ended.  The network itself
makes no second copy of a packet.  A restart takes a port from the clock, or from
`tftpsrcp`: if it is the port of the attempt before, the packets and the server's
transfers of that attempt live on, else they are out of reach.  An ICMP message may
come at any time, in a get as in a put.

`late` is history.  A get takes a packet late when the file is so long that the numbers
wrap around and the block is neither the last one again nor the next one (the
first one, at the beginning), or when it is an OACK in the middle of such a file; the
server does when an acknowledgement has the number of its last block and is of an
earlier one.  A put
takes an acknowledgement late that is not of what was just sent (number 0 while the
request is, else the block's), or an OACK when it is sending blocks.

### The network loop

`pc` follows `NetLoop()`: `restart`, receive (`rx`), ctrl-C and the ARP timeout
(`poll`), the timer (`timer`), `switch (net_state)` (`switch`), and `prompt` between
commands.  Each step is a whole handler with everything it calls, including
`NetStartAgain()` with `eth_halt()`, `eth_try_another()` and `eth_init()`.  Time is
left out: an armed timer may have run out at any poll.  `wire` is the last
packet sent: its destination and the station it was addressed to.

### DHCP

`Dhcp` is `net/bootp.c` with the servers around it.  Every packet ever sent stays on
the wire and may be received any number of times, also by a later command, so
packets are lost, delayed, repeated and reordered.  `bootp_ids` is the cache of the
last transaction ids; ids are assumed to be different from each other (in the code
they are made of the Ethernet address and the time).  Times are multiples of 250 ms:
`elapsed` is the time since `bootp_start`, and an offer may come at any time before the
timer runs out.  A server has one address, which it offers, commits with an ACK, or
refuses with a NAK when another client was faster.  An address or gateway is named by
the server that hands it out.  `firstId` and `answered` are history.

### The Ethernet driver

`FecRx`: the controller fills the ring of receive descriptors by DMA (`Store`), falls
asleep when it finds none that is empty (`Sleep`) and looks again when `r_des_active` is
written.  `fec_recv()` is cut into the steps between which the controller or the cache
can act: invalidate the descriptor's line, read its status, invalidate the buffer,
hand up the frame, clean the line once its last descriptor is done, flush it,
re-enable the controller.  The cache may load or drop a line at any time; a copy is
kept in the state only from the moment at which DMA makes it differ from memory.  A
line that the driver is writing is assumed to stay in the cache until it is flushed
(the code needs that).  `fec_halt()` and `fec_init()` may come between any two calls from
outside, at the beginning of a call from `fec_recv()` itself after a babbling frame, and
in the middle of a call from the handler of the frame that was passed to `NetReceive()`:
`NetStartAgain()` halts the device (`HaltInReceive`) and starts it again
(`InitInReceive`) or gives up (`ReturnHalted`), and `fec_recv()` goes on with what it does
after a frame.  `processed` is history: the descriptors on the current line whose frames
`fec_recv()` has looked at.

The branches of `fec_recv()` for HBERR and GRA (lines 802 to 815) are left out:
`fec_open()` disables the heartbeat (line 433), so that HBERR is not raised, and with the
same write clears the graceful stop that `fec_halt()` requests, without which the branch
for GRA does nothing.

`FecTx`: two transmit descriptors in one cache line and one packet buffer.  The
controller clears TDAR and READY some time after it has sent, in the order the notes
in the driver describe, and may take longer over a frame than `fec_send()` waits.

### IP fragments

`payload` is the buffer of `__NetDefragment()`, by blocks of 8 bytes: a block is a hole
descriptor or data, so a fragment that is copied over a descriptor destroys it, as in
the code.  Fragments come in any order, of several datagrams in turn, and may be
repeated.  Two things are left out: a fragment of a datagram that was handed up
already, and an `ip_id` that is used again.

### The driver model

The core is sequential and recursive, so a function is an operator from the state it
is called in to the set of its outcomes (a state, and whether the call failed), and a
call from outside is one step.  Every hook of a driver or uclass and every group of
allocations may fail, but for `unbind()` on the error path of `device_bind()`, whose result
changes nothing.  Four fields are history: `stuck`, devices whose removal failed half way;
`unremoved`, devices that were started but never stopped because `post_probe()` failed;
`orphans`, devices bound by the `post_bind()` of a parent that was freed afterwards; and
`dangling`, devices that `device_bind()` freed although `pre_unbind()` failed and their
uclass's list still holds them.  What a call does that walks such a list is undefined in C:
from then on the model makes no call that does (`Intact`), nor one through a parent
that was freed (`Attached`).

## Runs

| Run | Shows |
|---|---|
| `env_serial_crash` | MMC and NAND, U-Boot and `fw_setenv`, power cuts: `CrashSafe` (a boot finds the last saved environment or the one being saved) and `ImplementsStore` (the refinement of `EnvStore`) |
| `env_board` | every driver with failing reads, erases and writes and power cuts: `AlwaysLoadable` (never a mixture), `SaveIsKept` (with serials, `LostOnlyAfterFaults` names the only situations in which a boot takes an older copy), `InUseKept` (the only one in which the copy in use is at risk), `FlashIsStore` (flagged copies step as `EnvStore` does) |
| `tables` | the hash table: `FindsWhatWasSet`, `ExportsWhatWasSet`, `ProbesAll`; boot memory: `HeldIsReserved`, `AllocTakesFree`, `SearchEnds` |
| `hash_overwrites` | finding 1 |
| `protocols` | TFTP: `LoadedIsFile`, `PutIsStored`, `PutSendsFile`, `TransferEnds`; DHCP: `NoStaleAnswer`, `LeasedToUs`, `DhcpEnds` |
| `netloop` | `SentToNextHop`, `TimerIsArmed`, `OneDeviceUp`, `CommandEnds` |
| `netloop_once` | finding 2 |
| `net_path` | reception: `ImplementsFifo` (the refinement of `NetFifo`), `WillBeWoken`, `WrittenLineIsOurs`, `LosesOnlyWhenFull`, `EventuallyTaken`; transmission: `SentOnce`, `SendReturns`; fragments: `ListIsMissing`, `HandedButForFront` |
| `defrag_incomplete` | finding 3 |
| `line_unprocessed` | finding 5 |
| `dm` | `TreeIntact`, `ActiveIsUsable`, `InactiveIsReleased`, `SeqUnique`, `BySeqGetsSeq` |
| `dm_parent_inactive` | finding 4 |

The types of the environment, the network loop and the driver model are checked too
(`BoardTypeOK`, `NetTypeOK`, `DmTypeOK`).  `netloop`, `protocols` and `net_path` take one
to three minutes, the others about one or less.

### Bounds, and why they are enough

* Environments: three (the default and two others), so that old, new and
  default are all different.  Two copies, as in the code.
* Serials: modulo 256 in `env_serial_crash`, started at and around the
  wrap-around, in the middle and at the beginning.  `env_board` uses modulo 6 to
  keep the number of states down; the comparison of serials treats only the
  largest against 0 specially, so the modulus matters only in that two failed
  writes must not reach half-way around.
* Faults: one failed read and two failed writes (`env_board`): enough for both
  attempts of a NAND save to fail, and for a fault after the recovery from
  another.  Its two environments besides the default are symmetric: nothing in
  the modules tells them apart, and only safety is checked there.
* Hash table: three names in 5 and 11 slots, which is what `hcreate_r()` makes of
  4 and 8.  The names share first indices or meet on their way; every slot of
  the small table is used up by deletions.  The run `tables` does not go on from a
  state in which a live entry has been written over (finding 1): nothing is
  claimed from there on.
* Boot memory: RAM of 16 units, a table of 3 regions (8 in the code), 4 blocks
  at a time: enough to fill the table, to merge on both sides, to align, and to
  split a region with the table full and not.
* TFTP: block numbers modulo 3 (65536 in the code), a get of two and of three
  blocks, so that the numbers of the second wrap around, and a put of one and of two;
  two server ports; one restart, on the same port or another.  `MaxBlock`
  bounds the blocks a put sends past the end of its file.  Longer files with more
  wrap-arounds are left to the proofs.
* Network loop: two devices, two ARP requests per wait (5 in the code), one
  timeout of TFTP before a restart (10), one data packet before the last one.
  The hosts are a server and a peer behind a gateway.  The settings are the
  three of `MCEnvs`: rotation with retries and no address; no rotation and
  retries for ever; one device without an Ethernet address.

* DHCP: two servers, one of which names a gateway; two commands or restarts; three
  different answers; a cache of two ids, which the retries of a command overflow;
  four time units for a whole attempt.
* Ethernet: a ring of four receive descriptors, two to a cache line (64, and 4 or
  8 with cache lines of 32 or 64 bytes, in the code), so that the ring is used up and a line is partly done; frames
  numbered modulo 8, more than the ring holds, two of them faulty; five frames to
  send, so that each transmit descriptor is used again after a timeout.
* Fragments: datagrams of five short fragments, of three long ones, and one that does
  not fit; one repetition.
* Driver model: root, a bus that scans its subnodes, two ports of one uclass of which
  one has an alias, and a chip behind a port, of the uclass of the bus and with an alias
  that the bus takes when the chip is probed; three failures in all, so that two on the
  error path of a bind can be followed by another.  The end of the numbers (`DM_MAX_SEQ`)
  is not reached.

### Fairness

* `Lmb`: the search of `__lmb_alloc_base()` runs on (WF); nothing else can run.
* `Tftp`, and so `Protocols`: the timer is polled and runs out (WF on `TftpTimeout`), and `NetLoop()`
  acts on `NETLOOP_RESTART` (WF on `Restart`).  Nothing is assumed of the network
  or of the server.
* `NetLoop`: the loop runs on (WF on `Loop`).  An armed timer that is polled again
  and again runs out (SF on `Timeout`): each turn of the loop takes time, and a
  timer that is re-armed is re-armed by a handler that was given a packet, of
  which a server sends finitely many, or by its own timeout.  The time of a
  whole DHCP attempt, which `BootpTimeout()` compares with the time of its start,
  passes too (SF on the expiring case).

* `Dhcp`, and so `Protocols`: a timer that is set runs out and is served (WF on `GiveUp \/ Retry`).  Nothing
  is assumed of the servers.
* `NetPath`: `NetLoop()` polls `fec_recv()`, which takes its steps, and so does
  `fec_send()` (WF on both); the controller clears TDAR and READY of what it has sent
  (WF).  That it ever sends or receives a frame is not assumed.

The other modules state safety only.  A stop is a legal end in `Lmb` (the boot is
done), in `Tftp` (the transfer has ended), in `IpDefrag` (nothing more is sent) and, because
of the bounds, in `Dhcp` and `FecTx`; in `NetLoop` the prompt may wait for
ever only because no command is given, so deadlock is not checked there either.

## Findings

Each is shown by a run that is expected to violate what a comment or document says.

1. *A live variable is written over* (`lib/hashtable.c:336`).  When no slot is left
   that was never used, the search in `hsearch_r()` comes back to its first index
   and makes the new entry there, even if another variable lives there.  The
   comment says "An empty bucket has been found."
2. *netretry=once* (`net/net.c:609`).  The count starts at 1, so the first failure
   ends the command before another interface is tried; the README says that all
   interfaces are tried once.
3. *A datagram without its beginning* (`net/net.c:848`).  Index 0 is both the hole at
   the front and "no hole".  When a middle fragment comes before the first one, the
   hole at the front is forgotten, and the datagram is handed up as soon as the rest
   is there.  The comment says that the function returns "a complete packet".
4. *An active child of an inactive parent* (`drivers/core/device-remove.c:188`).  When
   `remove()` of a device fails, `device_remove()` returns the result of the
   `post_probe()` it calls to take the removal back; on success the parent is removed
   over a child that stays active.  `doc/driver-model/README.txt` says "It is not
   permitted to have an active child device with a non-active parent."
5. *A frame is freed unread* (`drivers/net/fec_mxc.c:889`).  `NetReceive()` runs the
   handlers of the protocols, and those of TFTP restart the device through
   `NetStartAgain()`.  Controller and `rbd_index` then begin at descriptor 0, but
   `fec_recv()`, still in the call that passed up the old frame, sets `rbd_index` to 1.
   The first frame of the new ring is stepped over, and its descriptor is marked free with
   the rest of its line.  The comment says that the line is marked "when all
   descriptors in the cache line are processed".

Other behaviours that the models showed are conditions of the properties, and are
described where they stand:

* `common/env_mmc.c:269`: the boot treats the pair 255 and 0 as a wrap-around and
  compares all others by size, and `saveenv()` increases the serial also when its
  write then fails.  After one failed save at 254, the next successful one has serial
  0 beside 254 and the boot takes the older copy (`LostOnlyAfterFaults`).
* On NAND a failed read followed by a failed erase may leave two copies with equal
  serials (`LostOnlyAfterFaults`).
* On NOR a failed erase is reported as success, and `fw_setenv` does not notice that
  it could not mark the old copy obsolete (`Unreported`).
* `net/tftp.c:481`: once the last block of a put is sent, any acknowledgement ends it
  with success, also a repeated one of an earlier block (`late` in `PutIsStored`).
* `net/tftp.c:284`: a put does not notice the wrap-around of its block number, sends
  the file again from before its beginning, and goes on as long as the server
  acknowledges; `PutSendsFile` is about the blocks before, and `TransferEnds` leaves out such
  a file.  A comment at line 484 says "We want our
  block count to wrap just like the other end!".
* A late packet after the wrap-around of the TFTP block number damages the file
  (`late` in `LoadedIsFile`).
* On a device without an Ethernet address the reply to an old ARP request may send
  what the buffer then holds (`SentToNextHop`).
* A DHCP server that names no gateway leaves the gateway of an offer taken before
  (`LeasedToUs`).
* After a timeout of `fec_send()` driver and controller disagree on whose turn it is
  until the device is started again (`SentOnce`).
* When the PHY does not start, `fec_open()` returns before it enables reception, and
  nothing enables it later (`WillBeWoken`).
* When `post_probe()` fails, the probe is not taken back, because `device_remove()`
  finds the device inactive (`InactiveIsReleased`); when a hook of `device_bind()` fails
  after `post_bind()` has bound children, they keep pointing to the freed parent
  (`orphans` in `TreeIntact`), and when `pre_unbind()` fails on that path too the uclass's
  list keeps the freed device (`dangling` in `DmTypeOK`); `uclass_get_device_by_seq()` may
  return a device that only requests the number asked for: it was active with another
  number or with none, or an ancestor of the same uclass took the number when it was
  probed on the way (`BySeqGetsSeq`).
* A block that is rounded up into its neighbour leaves the table of boot memory
  unsorted, and the reservation that follows `lmb_free()` merges regions as if it were
  sorted (`HeldIsReserved`).

## Proofs

A theorem holds for every value of the constants that their assumptions allow.
TLC evaluates the assumptions in the runs.

### The environment on the medium

`EnvSerialProofs` proves of `EnvMmc` first, for every set of environments, every serial
modulus of at least 3, all initial serials and every bound on faults:

* `TypeCorrect`: the types (`MmcTypeOK`).
* `CrashSafety`: `[]CrashSafe`.
* `SaveIsDurable`: without failing accesses (both bounds 0), `[]SavedIsLoaded`.
* `Refinement`: without failing accesses, every step is a step of
  `EnvStore` or a stutter.
* `BackupIsKept`: whatever fails, no step leaves the medium without a good copy
  while the copy in use is good.

The assumptions are those of the constants in `EnvConfig` and `EnvRedund`: the default is
an environment, the special values are not, the modulus is at least 3 and the bounds
are natural numbers.  `BoardAssumption` repeats those on the serials for `EnvBoard`.
TLC evaluates them in `env_serial_crash` and `env_board`.

`CrashSafe` is not inductive: it speaks of what a boot would load, and a step of
`saveenv()` keeps that only because of how RAM and medium belong together.  The
strengthening `IInv` says

* `IdleInv`: outside a save, the copy a boot would take is the one `env_valid`
  names, and `env_flags` is its serial;
* `SavingInv`: inside a save, that copy is untouched and its serial is exactly
  one behind `env_flags`, or there is no good copy yet; once the first block
  is written, CRC and serial of the other copy are the new ones;
* `ImageInv`: what is being written is the environment in RAM;
* `OffInv`: without power, what a boot would load is committed or was tried.

The heart is `NextSerialWins`: a serial and its successor compare in the right
order also across the wrap-around.  This needs a modulus of at least 3 (with 2,
0 and 1 would each be newer than the other), and it is why the serials of two
good copies must be exactly one apart, which only holds without failed writes.
`LoadsWhileSaving` turns this into what a boot loads in the middle of a save.

It proves the same of `EnvSerial`, where U-Boot with either driver and `fw_setenv` write
the same copies in turn: `SerialTypes`, `SerialCrashSafety`, `SerialSaveIsDurable` and
`SerialRefinement`, the last two without failing accesses.
The strengthening `SInv` follows the same lines for three writers.  `AgreeInv`: after U-Boot
or `fw_setenv` has read the copies, RAM and medium agree on the copy in use and its
serial, or there is no good copy.  `WritingInv`: while the other copy is written, a
boot does not take it unless it already holds the new data (`TargetSafe`).  It may
hold them early: under Linux the kernel writes the blocks of an MMC in any order, so
CRC and serial (one block) may be old or new, and the data old, new or mixed.  `RestInv`: what a boot would load when nobody
runs.  `PartWrite` and `LastWrite` are the two facts about a write that all three
writers share.

Two theorems allow any number of failing accesses.  `SerialInUseKept` is the
counterpart of `BackupIsKept`: no step costs the good copy in use, but on NAND after a
failed erase or write.  `SerialFaults` is `[]LostOnlyAfterFaults`.  Its
strengthening `KInv` follows the serial in RAM: it has passed that of the copy in use,
or it has wrapped around, and then it is no larger than the number of failed writes
(`PassedInUse`), because a save that succeeds leaves a serial that is in use and
each increase past it belongs to one that failed.  On NAND the second attempt of a
save leaves the other copy to compete with, so the same is needed of that one
(`PassedSpare`).  `PassedIsTaken` says what this means for the next boot.

`EnvFlashProofs` proves of `EnvFlash`, for all environments and any number of failing
calls: `FlashTypes`; `FlashCrashSafety` (`AlwaysLoadable` of that module: as long as the
copies can be read and no failure went unreported, a boot loads the last saved
environment or one that was tried since); `FlashSaveIsDurable`; `FlashInUseKept`; and
`FlashRefinement`, every step is one of `EnvStore` under the same condition.  `FInv` says
what a save has written of the other copy at each of its steps (`ImageInv`), that with no
save unfinished a boot loads what was settled (`SettledInv`), that the repair of the
flags does not change the copy a boot takes, wherever it is cut off (`RepairInv`), and
that the copy in use holds the committed environment and is taken unless the other one
holds what was tried (`InUseInv`).

`EnvBoardProofs` proves all properties of the run `env_board`: `BoardTypes`, `BoardCrashSafety`,
`BoardSaveIsKept`, `BoardInUseKept`, `BoardFlashIsStore`.  A board has one layout that never
changes (`BoardSteps`), so the invariants of the other two modules carry over through
their instances, and that of a single copy is proved here (`SingleInv`: with no save
unfinished the copy is what was settled; otherwise a boot loads that, what is being
saved, or the default).

### The environment in RAM

`TablesProofs` proves of `HashTable`, for every set of names with whatever hash codes, all
values, every size of at least 3 (`himport_r()` asks for 64 entries and more) and every
text to import: `EnvironmentIsFound` (`[]FindsWhatWasSet`) and `EnvironmentIsExported`
(`[]ExportsWhatWasSet`).  The invariant `EntriesInv`: an entry is that of a variable that is
set, and has its value (`LiveInv`); a variable has one entry (`OnceInv`), which lies on the
sequence of indices its search tries, with no slot before it that was never used
(`PathInv`); `filled` counts the entries (`CountInv`).  `PathInv` is what deleted slots are
for: a deletion leaves `used` at -1 and not 0, and an entry never goes behind a slot
that was never used.  What a search returns is taken from the least number of tries
after which it stops (`Least`, `SearchStops`), so no induction is needed, and that
the size is a prime is not needed either.  Until a live entry is written over
(finding 1) the theorems hold; after that they claim nothing.

What the prime is for is the third theorem, `SearchReachesAll` (`[]ProbesAll`): from every
hash code the search reaches every index, so it finds a free slot if there is one.  It
holds for every odd size that the code's `isprime()` accepts, which is what
`PrimesAssumption` says of the sizes and what the loop of `hcreate_r()` ends with.
`NoDivisor`: `isprime()` tries odd divisors up to the root, and the least divisor of an odd
number is odd and no larger than that.  `Euclid`: a product of two numbers below such a
size is no multiple of it; the argument takes the least factor for which it is one.
`ProbesDiffer`: so two tries at distances below the size differ; and as many different
indices as the table has are all of them (`ProbesReach`).

### Boot memory

`LmbProofs` proves of `Lmb`, for every RAM, all requests, every capacity of the table and
any number of blocks: `BlocksAreReserved` (`[]HeldIsReserved`) and `AllocationIsFree`
(`AllocTakesFree`, an action property).  A sorted table of disjoint regions would make this
easy, and the table is neither: an allocation is rounded up, so that its region may
reach over the next block, and what follows is put in or merged as if nothing were the
matter.  `Tab` describes the tables that arise.  Every region begins with a block in use
(`Headed`); each address of it belongs to a block or lies where rounding can have
reached (`Filled`); of two regions the first begins before the second and overlaps it
only by rounding (`Ordered`), or a later one holds a block that the first cannot grow over
(`Over`); and every block lies in one region (`Covers`).  `Stop` is what bounds the rounding: an
address that every alignment in question divides.  `AddRegion` and `Freed` show that
`lmb_add_region()` and `lmb_free()` keep the shape, and the search of `__lmb_alloc_base()` asks
for no overlap with a region, so what it takes overlaps no block (`CandidateFree`).

The proof needs the alignments to be powers of two, or rather that of two alignments
one divides the other (`RequestAssumption`).  The code rounds by `addr & ~(size - 1)`, which
makes no sense otherwise.  For alignments of which neither divides the other the theorem
would be false.  Like the property, it says nothing of the last `lmb_reserve()`, after the
device tree was freed.

### TFTP

`ProtocolProofs` proves of `Tftp`, for block numbers modulo any number above 2 (65536 in the
code), files of every length, and any limits on timeouts, retries and server ports:
`FetchedIsFile` (`[]LoadedIsFile`), `WrittenIsStored` (`[]PutIsStored`) and `SentIsFile`
(`[]PutSendsFile`).

`TInv` holds as long as no packet was taken late (`late`), and it does not depend on how
often the transfer was restarted or on which port.  For a get: a transfer of the server
is at most one block ahead of what is in memory (`GetServer`), the client acknowledges only
what is in memory (`GetPackets`), and the count of wrap-arounds with the last number gives
the block stored last (`LastStored`, `GetClient`); the next block has another number, so a
packet is recognised as the same block again or is stored where it belongs
(`DataBlock`, with `NextBlock` about the remainder).  A restart forgets the client's place
but not the memory, so what an older transfer of the server still sends finds the
blocks before it there.

For a put: what is on the way to the server are requests and blocks of the file under
their numbers, of whichever attempt (`PutPackets`, `BlockSent`), and the block number is that of
the last block sent (`PutClient`).  Without a wrap-around (`PutTurn`) each transfer of the
server has stored a beginning of the file, since a block that is due has a number that no
other block has; and the client takes a block for the last one only if it is the last
(`LastBlock`), so the acknowledgement of that block comes from a transfer that has all.

### The Ethernet driver

`NetDeviceProofs` proves of `FecRx`, for rings and cache lines of every size (the ring a whole
number of lines of at least two descriptors): `SleeperIsWoken` (`[]WillBeWoken`), `WrittenLineIsKept`
(`[]WrittenLineIsOurs`) and `LossMeansFull` (`[]LosesOnlyWhenFull`).  `RingInv`: the
descriptors with frames are those from the first one not given back (`Base`) up to
the controller's place, or all of them.  Descriptors are given back by whole lines, so
`Base` is the beginning of the line that the driver is on, or after the flush the
next one.  `HeldInv`: the descriptor that `fec_recv()` is dealing with still holds its
frame, which is why the controller writes none of that line before the flush; after a
start inside `NetReceive()` it need not, but `fec_recv()` is then at descriptor 0, which is
not the last of its line (hence two descriptors to a line), and flushes nothing.
`CacheInv`: a stale line shows descriptors as empty, never as full, so a stale read
delays a frame and loses none.  `SleepInv`: the controller sleeps in front of a frame, or
the line before it was just given back and the driver is about to enable it.

Of `FecTx` it proves `FramesSentOnce` (`[]SentOnce`), for any number of frames.  `TurnInv`
says at each step of `fec_send()` whose turn it is, and what `tdar`, READY in memory and
READY in the cache then are; this is what a timeout destroys.

### IP fragments

`IpDefragProofs` proves of `IpDefrag`, for any datagrams cut at any bytes (all but the last
cut at whole blocks, lengths of 16 bits), every buffer of less than 65535 bytes, and any
order, loss and repetition of the fragments: `HolesAreMissing` (`[]ListIsMissing`) and
`HandedUp` (`[]HandedButForFront`).

`DInv` says that there is a set `C` of fragments that were taken (`Received`), whose data
are in the buffer (`Data`), and, until the datagram is handed up, a list of holes (`List`).  A
hole begins with each fragment that is missing behind one that came, or at the front
(`Begins`), and ends at the next one that came (`EndIs`).  `List` says that the descriptors
found through `first_hole` are those of all these holes in order, linked both ways, but
for one at the front that may have been lost.  A search looks at the list up to the hole
it wants (`LookedIs`), so the hole it finds contains the fragment, or ends where a
fragment that came already begins (`Taken`).  From there it is the four cases of the
code (`FixCases`): a hole is taken out, shortened, moved or split.  Each case has its
lemmas on the links (`LinkRemove`, `LinkMove`, `LinkSplit`), on what the code writes
(`RemoveFields`, `MoveFields`, `SplitFields`), on the list that results (`RemoveList`,
`ShrinkList`, `MoveList`, `SplitList`) and on the data it leaves alone (`KeepsData`).
`RemoveList` is where the front is lost: a hole whose link says that nothing is before it
leaves with all that is.  When this ends the list, only the front is missing, so the
last fragment has come and the length is known (`LastCame`).

The search and the walk through the list are closures in `IpDefrag` (the least set that
contains the first hole and after each hole that is passed the next), so the proofs need no
induction over the list; where they need the first of something they take the least of
a set of numbers (`HasLeast`, a hypothesis of the lemmas that use it).  `Least` proves it
from the library's well-founded induction, just before the theorems.

### The network loop and DHCP

`NetDeviceProofs` proves of `NetLoop`, for any number of devices, all settings and all
limits of the protocols (assumed to be natural numbers; the hosts are assumed to
be different, and only the server and the peer may be behind the gateway):

* `NetTypeCorrect`: the types and the limits of the counters.
* `AtMostOneUp`: `[]OneDeviceUp`.  Inductive with the types; `StartAgain` has the
  argument: `NetStartAgain()` halts the current device before `eth_try_another()`
  and `eth_init()` take another one.
* `NeverWaitsUntimed`: `[]TimerIsArmed`.  The strengthening `TimerInv` says it of the
  whole turn of the loop and not only of its beginning.
* `PacketsReachNextHop`: `[]SentToNextHop`.  This needs to know which leftovers of
  earlier commands can meet which command.  `HandlerInv`: the handlers of TFTP may
  outlive their command, those of DHCP do not, and the timer of TFTP is armed only
  while the buffer holds a packet for the server.  `EtherInv`: while TFTP may send,
  `NetServerEther` is empty or the station of the server.  `WaitInv`: while a reply
  can be taken (our address is known), the pending ARP request is for the packet in
  the buffer.  The last is why `NetLoop()` must clear our address before it starts
  DHCP (`net/net.c:390`): a request of an earlier ping may be pending while DHCP
  uses the buffer.

`ProtocolProofs` proves of `Dhcp`, for any servers, cache sizes, timeouts and numbers of
commands and packets:

* `StaleAnswersIgnored`: `[]NoStaleAnswer`.  Inductive with `IdsCurrent`: the cache holds
  ids of the running command only.  This rests on `BootpReset()` and on what
  `bootp_add_id()` keeps (`AddIdKeeps`), which also bounds the cache.
* `BoundIsLeased`: `[]LeasedToUs`.  Inductive with `AcksCommit`: for every ACK on the wire,
  however old, its server has committed its address to us, and keeps it committed.

### Only model-checked

* Termination (`SearchEnds`, `TransferEnds`, `CommandEnds`, `DhcpEnds`, `EventuallyTaken`,
  `SendReturns`): liveness under fairness is out of the prover's reach.
* The driver model: its functions call each other recursively through the tree of
  devices, and the provers can say nothing of recursive operators.
* `ImplementsFifo`: the queue is the sequence of descriptors with the faulty frames
  filtered out, and what a filter returns needs induction over the sequence.

## Not modelled

* Drivers, boards, architectures: hardware access.  They are seen through the
  calls that succeed, fail or are cut off.
* File systems, partition tables, image formats, the command line, menus: parsing
  of data, and sequences of commands that a user chooses.
* Allocator, compression, hashes, device tree library, UBI and other code of
  other projects.
* Of the modelled parts: text formats of import and export, memory exhaustion,
  completion of names (`hmatch_r()`); NAND with the environment's offset in OOB;
  configuration, encryption and bad blocks of `fw_setenv`; multicast TFTP and the TFTP
  server; IP input, VLAN, CDP, NFS, DNS, SNTP, RARP, netconsole; plain BOOTP; PHY and
  probing of the Ethernet driver; registration of devices; `dm_uninit()`,
  `uclass_destroy()` and builds without `CONFIG_DM_DEVICE_REMOVE`.
* State machines that could be modelled and are not yet: see the plan.

## Plan

In this order:

1. Link-local addresses (`net/link_local.c`, not built for the board): probe, announce,
   monitor and defend, with conflicts.
2. X/Y-modem with lost, repeated and damaged packets.
3. NFS, which the board builds: its sequence of RPC calls with ids and retries.
4. Fastboot, which the board builds, and the DFU state machine (not built).
5. `do_bootm_states()` with subcommands that run its states one at a time, over `Lmb`.
6. The environment in UBI, which uses serials as `EnvRedund` does, and in EEPROM, which
   uses flags with a rule of its own for the copy to take.

Proofs: `ImplementsFifo` for rings of every size, and the driver model over a relation
that bounds the depth of its tree.
