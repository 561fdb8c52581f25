# A verification of fgen in TLA+

fgen turns a line of text such as
`Ether(...)/IPv4(...)/UDP(...)/TSC/Payload(size=64)` into a network frame and
back. The repository holds the library (`lib/`), a test program (`test/`) and an
example, `examples/pktperf`, that sends and receives packets through DPDK from
many threads. This directory models the parts with state or control worth
checking, checks them with TLC on small instances and proves most of the safety
properties with TLAPS for every value of the constants. Paths below are relative to `src/`.

## Inventory

| Part | Source | State | Operations | Used by |
| --- | --- | --- | --- | --- |
| block allocator | `lib/utils/salloc.[ch]` | block, its size, bytes used | create, destroy, `salloc` | `fgen_create` |
| frame list | `lib/core/fgen.[ch]` | list of frames, `nb_frames`, one block for their bytes | create, destroy, add, find, load strings, load files | tests, pktperf |
| encoder | `lib/core/encode.c` | `fg->opts`, length and offsets of the frame, locals of nested handlers | `_encode_frame`, one handler per layer | frame list |
| decoder | `lib/core/decode.c` | text buffer with length and fill, offset into the frame | create, destroy, `fgen_decode`, handlers, `_append`, `fgen_decode_string` | tests |
| memory mapping | `lib/mmap` | regions, SIGBUS action, statistics, default page size | `mmap_alloc`, `mmap_free`, default, address | callers of the library |
| pktperf configuration | `examples/pktperf/parse.c`, `port.c` | mappings of lcores to queues, pools, ports set up | options, mappings, `port_setup` | its run time |
| pktperf run time | `pktperf.c`, `stats.c`, `utils.c` there | `force_quit`, spin lock and flag per port, mbuf pool, counters per queue | lcore loops, statistics, signal, shutdown | - |
| strings | `lib/include/fgen_strings.h` | the string cut up, pointers into it | tokenise, trim | frame list, encoder, pktperf |
| checksums | `lib/include/net/fgen_ip.h` | the running sum of a call | one's complement sums, complement, verification | encoder |
| terminal | `lib/osal/fgen_tty.c` | flags, input descriptor, saved modes and disposition, window size and its notice | constructor, set-up, destroy, color, SIGWINCH handler, polling | `vt100_out` |
| terminal output, log | `lib/osal/vt100_out.[ch]`, `lib/osal/fgen_stdio.c`, `lib/log/fgen_log.c` | the text being turned into codes, its position and what is left of the buffer; the log level | `vt_color_parse`, the `fgen_*printf` functions, `fgen_vlog` | all |
| network devices | `lib/osal/netdev_funcs.c` | none of its own; flags and channels in the kernel, a socket and `errno` during a call | flags on and off, MAC address, link, offloads, channels, rings | programs |
| system information, CRC, hexdump | `lib/osal/fgen_system.c`, `lib/utils` | - | reads of the system, pure computations | all |

How they interact: `fgen_add_frame` and both loads put a frame on the list and
call the encoder, which writes into the block of the generator; the decoder reads
a finished frame out of that block, which still holds what earlier frames wrote. `parse_args` and `parse_configuration` leave behind the
structures that the threads of pktperf share, also when a set-up failed; the main
thread then prints statistics, and a signal handler sets the flag that ends all of
them. All printing goes through `vt_color_parse` into one buffer per call.

What is hard in this code, and which property makes the part correct:

- **allocator**: sequences of calls in which the block grows or the heap fails.
  Ranges handed out never overlap; a failed call leaves them alone.
- **frame list**: lookup compares prefixes, so what a name finds depends on the
  order of additions; a frame that fails half way is taken off again; two nested
  loops share one counter. Every frame is found by its own name, count and list
  agree, loads end.
- **encoder**: a recursion through handlers in any order; lengths and checksums
  are completed on the way out, after inner layers changed the length. They agree
  with the finished frame, and no header is overwritten.
- **decoder**: a buffer reused by every call, grown by `realloc` that may fail in
  the middle of a frame. One buffer, never written past its end, holding this
  frame and nothing of the last.
- **memory mapping**: falling back from page size to page size through two
  mechanisms, one of them a signal and a `siglongjmp`. Regions large enough, none
  left behind, the SIGBUS action restored.
- **pktperf configuration**: mappings that overlap or stop half way, errors whose
  return value the caller does not recognise. No queue has two lcores.
- **pktperf run time**: threads that start together, bursts accepted in part,
  counters read while they are written, a signal at any moment. mbufs are
  conserved, only finished packets are sent, every thread ends.
- **checksums**: carries folded once or twice, odd lengths, zero replaced by all
  ones. A receiver accepts what a sender stored and tells a changed word.
- **strings**: pieces of one array cut again while others point into it, arrays of
  tokens that fill up. Cutting in place gives what cutting the text gives.
- **terminal**: a signal handler that writes two halves of a size while they are
  read; modes to be put back although the input was moved and calls may fail. No
  resize is missed, stdin gets its modes back.
- **terminal output**: a scan with a nested scan for a tag, and two counters for one
  buffer. Only the end of a text can be lost, and the call returns.
- **network devices**: a handful of system calls, each with a way out of its own; flags
  read, changed and written back. Sockets are closed, failures reported, the change asked
  for is made.

`PROJECT.json` lists the hazards at their lines.

## Modules

| Module | Models | State and actions |
| --- | --- | --- |
| `Arena` | what an allocator of ranges promises | grants of ranges that are apart, by anyone, in any order |
| `Salloc` | `salloc.[ch]` | `ptr`, `size`, `used` as in `salloc_t`; `cap` is the real length of the heap block and `allocs` the ranges given out (both history). `salloc` is four actions, one per way out: `SallocZero`, `SallocFits`, `SallocGrow`, `SallocNoMem` |
| `Frames` | `fgen.c` | `head` and `nb_frames` are the list; `call` holds the locals of a load in progress, one step per turn of its loop; `buf` says whose bytes are at offset 0 |
| `Encode` | `encode.c` | `lidx` and `pc` are the position in the recursion, `act` the locals of each handler; `Enter...` is a handler up to its call of `next_layer`, `Leave...` the rest |
| `Decode` | `decode.c` | a handler up to its first `_append` is one step and each `_append` another; `todo` is what the handlers entered have yet to print |
| `DecodeString` | `fgen_decode_string` | one step per turn of the loop |
| `Mmap` | `fgen_mmap.c` | `try` and `touch` are the two places where `mmap_alloc` may fall back |
| `RoundTrip` | `fgen_add_frame` followed by `fgen_decode` | EXTENDS `Encode` and instantiates `Decode` on the frame the encoder left: `Wire` reads the headers and `mem` the time stamps of earlier frames that are still in the block |
| `PktperfConfig` | `parse.c`, `port.c` | one step per option, lcore of a mapping and port |
| `Pktperf` | `pktperf.c`, `stats.c`, `utils.c` | EXTENDS `PktperfConfig`: the main thread first takes the steps of the configuration, and the threads run on the lcores, queues, pools and ports it left; `mpc` is the main thread, `lpc[l]` the thread of lcore `l`; a step reads or writes shared state at most once, so that `print_stats` interleaves with counting |
| `Strings` | `fgen_strings.h` and the parser of `encode.c` that uses it | `mem` is the array cut up in place; `BlankParam` is `strlen` of the NULL that a parameter of white space leaves; one step per turn of `fgen_strtok` (`toks`, `at` are `entries`, `saved`) and of `fgen_strqtok` (`p`, `start`, `state`) |
| `Checksum` | sums of `fgen_ip.h` | one word of `__fgen_raw_cksum` a step, run by a sender and then by a receiver over real 16-bit words; `Damage` is the network changing a word; `trace` (history) keeps the sender's partial sums, `hit` and `delta` what was changed |
| `Tty` | `fgen_tty.c` | `flags`, `fd_in`, `oldterm`, `saved`, `wsize`, `winsz` are the fields of `this_tty`; `mode`, `win`, `action`, `pending` are the kernel's; `h[t]` is the handler on thread `t`, `reader` a program that polls `tty_did_wchange` |
| `Output` | `vt100_out.c`, `fgen_stdio.c`, `fgen_log.c` | one step per turn of the loop of `vt_color_parse`: `c`, `len`, `b_index` are its variables, `cbuf` the formatted text, `buff` what was written so far, a code being one element of `CodeLen` bytes; `term` is what reached the terminal |
| `Netdev` | `netdev_funcs.c` | `th[t]` is the call of thread `t`, one step per system call, each of which may fail with an `errno`; `flags` and `channels` are the kernel's, `socks` the sockets open |
| `FramesProofs`, `ChecksumProofs`, `DecodeProofs`, `StringsProofs`, `PktperfProofs`, `TtyProofs`, `EncodeProofs`, `ResourceProofs` | - | each EXTENDS the module it is named for (`EncodeProofs` extends `RoundTrip` and with it `Encode`; `ResourceProofs` extends `Salloc`, `Mmap` and `Netdev`, the holders of memory, mappings and sockets), states the inductive invariants and proves the theorems |
| `MC...` | - | instances for TLC |

Definitions next to a modelled one and commented *slip* are plausible mistakes in
that code; replacing the definition by its slip makes a property fail, which shows
that the property looks at the code.

What is abstracted: the bytes of frames (the encoder keeps the ranges written and
summed, the decoder the headers and the printed length of each byte), wording and
formatting, the values of addresses and ports, time. A heap or kernel call that
may fail is a choice. DPDK and the kernel are external.

## Runs

Run `tlc -config X.cfg M` in this directory.

| Run | Shows | Bounds, and why they are enough |
| --- | --- | --- |
| `salloc` | `AllocsApart`, the refinement `ImplementsArena` | requests of 0 to 5 with blocks of 4 and up to 12 bytes used: fitting, exact and growing requests in every order |
| `frames` | `CountMatchesList`, `FoundByOwnName`, `ListOnlyGrows`; `StringsLoadedInOrder`, `OneFileLoaded`; `LoadsReturn` | names that are prefixes of one another, arrays of up to two elements with their length or with the length 0 (of which only the table below says something), one file, with bodies of separators only among them, a list of up to three when a call begins; names cut at 5 characters |
| `encode` | `LengthsReachEnd`, `ChecksumsFinal`, `HeadersIntact`, `FailsIffMalformed`; `RoundTripKeepsLayers`, the decoded text names the layers of the encoded one | every text of up to three layers over eleven forms, the texts of the tests, sizes and appended lengths at and past both ends of an Ethernet frame, negative ones too, with and without a fill, tunnels, more layers than the table has; two frames in one block, the second decoded with what the first left; real sizes, 16-bit fields. A negative append can cut headers and a stamp off, which the fill then replaces (`Cut`): those are left out of `HeadersIntact` and `RoundTripKeepsLayers`, see `FillsPayloadOnly` below |
| `decode` | `TextInBuffer`, `OneBuffer`, `TextOfThisFrame`; `DecodeReturns` | headers of the tests' frames and the starts other than Ethernet, lengths scaled so that frames fit, grow the buffer or are too long; one heap failure |
| `mmap` | `RegionsFit`, `NoRegionLeft`, `OwnHandlerOutside`; `AllocReturns` | three page sizes, lengths 0, 1 and 5 in units of the smallest, two handles |
| `pktperf` | `QueuesNotShared`, `StartedPortsReceive`; `MbufsConserved`, `OnlyBuiltPacketsSent`, `ClosedPortsUnused`, `SignalEndsProgram` | the configuration on every command line of up to two mappings over three lcores, two ports and a third number that is no port but may be mapped (RTE_MAX_ETHPORTS is 3), with and without an option that ends the parsing (a frame option, descriptors that do not parse) or calls `usage`, and with every failure of the set-up. The threads are launched after the outcomes in `Followed`: two lcores that transmit on one port, an Rx and a Tx lcore of the second port, a port that was not started and one that is not there; two mbufs in a pool and bursts of two, so that bursts are accepted in part and the pool runs out; a signal at any moment |
| `strings` | `TokensAreFields`, `EachCharOnce` | every text of up to six characters over those a call tells apart, blank and tab among them (one character stands for all white space but the blank, which alone is a delimiter), two layers, three parameters and three tokens at most, so that arrays fill up. `TokensAreFields` says, too, which parameters end the program (`BadParamsReported` below) |
| `checksum` | `VerdictTells`, `ZeroMeansNone` | IPv4 headers of 20 and 24 bytes, UDP and TCP over both versions with payloads of 0 to 3 bytes at 0, 1 and 255, address sums chosen so that single and double carries and a zero checksum occur, a length below the header's; any word changed to 0, 255 or 65535 |
| `tty` | `StdinRestored`, `ResizeNotMissed`, `ResizeReaches` | stdin (a terminal or redirected), a second terminal and a socket, two window sizes that differ in both halves, one thread that takes the signal, every failure of a call |
| `output` | `OnlyTheEndIsLost`, `RoomyTextWhole`, `CallReturns` | every text of up to four of the characters the scan tells apart and longer ones with several, nested and cut tags; every printing function; buffers smaller and larger than the text, color on and off, a failed allocation and a failed write |
| `netdev` | `NoSocketLeft`, `ChangedAsAsked`, `FailureReported` | two threads on one interface (sharing it is what could go wrong), an error number that is EOPNOTSUPP, for which there is a way out of its own, and one that is not, two channel counts; every function, every system call failing or not. `FailureReported` asks for an error number only of the functions the header promises one for, see `DocumentedErrors` below |
| `decode_string_loop` | fails: `DecodeStringReturns` | texts of up to four characters |

`TypeOK` of every module holds too, and can be added to any of the configurations.

Deadlock checking is off where the system may stop: a generator of texts that has
all it may do behind it, a program that has exited, a bound that was reached.

The run that fails states what a comment of the code says: `fgen_decode_string` does
not move on at a character that is neither a space nor the first of two digits, so the
call never returns.

### Fairness

`Frames`, `Encode`, `Decode`, `DecodeString` and `Mmap` are sequential code: once a
call was made its next step is taken (weak fairness of the steps inside a call,
never of the making of calls). In `Pktperf` the main thread and each lcore thread
have weak fairness, the main thread from its first step: each is a thread of its own that the operating system runs; an
lcore that waits for the spin lock needs no more, because the lock is released for
good once each thread has passed it. Arrivals, signals and transmissions have none.
For the one property about statistics (`EachPortPrinted`) `LinkSpec` adds strong fairness
of a link that can be read. `Output` is sequential again: a call that began goes on.
`Netdev` has no liveness property.
In `Tty` each thread's handler and the reader have weak fairness: the kernel delivers
a pending signal to a thread that does not block it, a handler that has started goes
on, and the reader is assumed to poll, as the interface is meant to be used; resizes
and the program's other calls have none. `ResizeReaches` asks for no more than that.

### Further disagreements

Each of these is a definition in its module that fails under the configuration
named (where several are listed and all but one commented out: one at a time). The
models do what the code does, and the passing properties are stated so that they hold
beside it.

| Module | Configuration | Property | Code | What |
| --- | --- | --- | --- | --- |
| `Salloc` | `MCSalloc.cfg` | `AllocsInsideBlock` | lib/utils/salloc.c:54 | salloc reallocates the block to the size of the request, not to what is used plus the request, while lib/utils/salloc.h:16 says "The memory block can dynamically be resized as more memory is needed": after one growth earlier ranges, and the new one itself, lie outside the block. |
| `MCFrames` | `MCFramesOpen.cfg` | `BrokenTextReported` | lib/core/encode.c:801 | _encode_frame jumps to leave when next_layer returns an error and returns 0, so fgen_add_frame returns 0 and keeps the frame; lib/core/fgen.h:246 says "0 on success or -1 on error." |
| `MCFrames` | `MCFramesOpen.cfg` | `RefusedNameExists` | lib/core/fgen.c:154 | fgen_find_frame compares only strlen(name) characters, so adding "F" after "F1" is refused with the message of lib/core/fgen.c:77 "frame %s already exists" although no frame has that name. |
| `MCFrames` | `MCFramesOpen.cfg` | `ZeroLengthLoadsArray` | lib/core/fgen.c:320 | With nb_frames 0 the loop of fgen_load_strings is never entered and 0 is returned; lib/core/fgen.h:229-230 says "The len can be zero, but the array must be NULL terminated." |
| `MCFrames` | `MCFramesOpen.cfg` | `EveryFileLoaded` | lib/core/fgen.c:278 | The loop over the files and the loop over the frames of a file share the variable cnt, so after a file with as many frames as there are files the rest is skipped; lib/core/fgen.h:215 says of nb_files "The number of files to load." |
| `MCFrames` | `MCFramesOpen.cfg` | `FilesReturnCountsLoaded` | lib/core/fgen.c:296 | fgen_load_files returns fgen_fcnt(fg), which counts frames added by earlier calls too; lib/core/fgen.h:217 says "-1 on error or number of frames loaded". |
| `MCFrames` | `MCFramesOpen.cfg` | `FilesReturns` | lib/core/fgen.c:278 | The inner loop sets the shared cnt back to 0, so with a file that has no frame before another one the outer loop opens the same file again and again and the call never returns; lib/core/fgen.h:217 promises "-1 on error or number of frames loaded". |
| `MCFrames` | `MCFramesOpen.cfg` | `EveryFrameKeepsItsBytes` | lib/core/fgen.c:41 | frame_alloc leaves data_off 0 in every frame and no memory is taken from fg->salloc, so all frames of a list are encoded at the start of the same block; lib/core/fgen.h:123 says of data_off "Frame offset into buffer space". |
| `MCEncode` | `MCEncodeOpen.cfg` | `HeadersApart` | lib/core/encode.c:122 | _encode_ether writes at the start of the frame and not at its current length, although _encode_vxlan (lib/core/encode.c:516) accepts Ether inside it and lib/core/fgen.h:105 gives each layer an "Offset into the buffer for this layer". |
| `MCEncode` | `MCEncodeOpen.cfg` | `TimestampSurvives` | lib/core/encode.c:646 | Payload(size=64) sets the frame length to 60 whatever precedes it, so the stamp of Ether/IPv4/TCP/TSC, at bytes 54 to 69, is outside the frame while tsc_off still points to it; lib/core/fgen.h:125 says "Offset to the Timestamp". |
| `MCEncode` | `MCEncodeOpen.cfg` | `TotalLengthInFrame` | lib/core/encode.c:303 | A Payload size smaller than the headers before it makes the frame end before the inner IPv4 header begins, and total_length becomes a wrapped difference near 65536; lib/include/net/fgen_ip.h:34 says "length of packet". |
| `MCEncode` | `MCEncodeOpen.cfg` | `ExampleEncodes` | lib/core/encode.c:61 | No entry of fgen_tbl matches Port, so next_layer returns an error for the text of the comment at lib/core/fgen.c:302, which ends in "/Payload(size=32, fill=0xaa)/Port(0)". |
| `MCEncode` | `MCEncodeOpen.cfg` | `AdjustedFrameEncodes` | lib/core/encode.c:678 | When _encode_done shortened the frame, data_len - pktlen is negative and memset gets it as a size_t; the comment at lib/core/encode.c:676 says "If the frame size was adjusted then make sure we fill the payload". |
| `MCEncode` | `MCEncodeOpen.cfg` | `FillsPayloadOnly` | lib/core/encode.c:654 | STRTOL accepts a negative append, which takes pktlen below the headers; the done layer pads the frame to 60 bytes, and the memset of line 678 fills from pktlen on, over headers and a time stamp: Payload(append=-30) behind Ether/IPv4/UDP overwrites both inner headers. The comment at lib/core/encode.c:676 says "If the frame size was adjusted then make sure we fill the payload". |
| `MCEncode` | `MCEncodeOpen.cfg` | `FramesFitBlock` | lib/core/fgen.c:118 | fgen_create makes a block of the default 1024 bytes and the encoder never asks for more, while lib/core/fgen.h:35 gives FGEN_MAX_FRAME_SIZE, 10240, as "Maximum buffer size" and frames of 1514 bytes encode. |
| `MCDecode` | `MCDecodeOpen.cfg` | `ReturnsTextLength` | lib/core/decode.c:361 | fgen_decode returns dc->buf_len, the allocated length of the buffer, and not dc->used; lib/core/fgen.h:280 says "-1 on error or length of decoded string." |
| `MCDecode` | `MCDecodeOpen.cfg` | `LostTextReported` | lib/core/decode.c:97 | Every handler ignores what _append returns, so when the buffer cannot grow the piece is left out, later ones are still appended and a positive length is returned; lib/core/fgen.h:280 says "-1 on error or length of decoded string." |
| `MCDecode` | `MCDecodeOpen.cfg` | `TagNamedByType` | lib/core/decode.c:305 | _decode_ether calls _decode_dot1ad for FGEN_ETHER_TYPE_VLAN and _decode_dot1q for FGEN_ETHER_TYPE_QINQ, the reverse of the encoder; lib/include/net/fgen_ether.h:85 says "IEEE 802.1Q VLAN tagging." |
| `MCDecodeString` | `MCDecodeStringReturns.cfg` | `DumpDecoded` | lib/core/decode.c:407 | After storing a byte fgen_decode_string does not advance text, so the first pair is stored until the buffer is full and -1 is returned; lib/core/fgen.h:312 says "-1 on error or number of decoded bytes in the buffer." |
| `MCMmap` | `MCMmapOpen.cfg` | `StatsPerPageSize` | lib/mmap/fgen_mmap.c:264 | mmap_alloc counts under the local typ, which a fall-through in the switch does not change, while mmap_free counts under mm->typ; lib/mmap/fgen_mmap.h:52 says "Stats for each page size". |
| `MCMmap` | `MCMmapOpen.cfg` | `AddressInRegion` | lib/mmap/fgen_mmap.c:307 | mmap_addr_at_offset accepts offset <= size; lib/mmap/fgen_mmap.h:93 says "The address at offset in mmap memory". |
| `MCPktperf` | `MCPktperfCount.cfg` | `AnySignalEndsProgram` | examples/pktperf/parse.c:266 | The handler is installed before rte_eal_init, and parse_args later sets force_quit to false, so a signal in between has no effect although examples/pktperf/pktperf.c:234 said "Signal %d received, preparing to exit..." |
| `MCPktperf` | `MCPktperfCount.cfg` | `TxPacketsCounted` | examples/pktperf/pktperf.c:93 | do_tx_process returns after putting the refused mbufs back without adding the accepted ones to q_opackets; examples/pktperf/pktperf.h:126 says "queue Tx packets". |
| `MCPktperf` | `MCPktperfCount.cfg` | `RatesAddUp` | examples/pktperf/stats.c:97 | print_stats reads curr twice, for the difference and for the memcpy into prev, while the lcore adds to it; what is counted in between is printed in no rate, and examples/pktperf/pktperf.h:137 calls prev the "Previous statistics". |
| `MCPktperf` | `MCPktperfConfigOpen.cfg` | `StartedPortsTransmit` | examples/pktperf/port.c:137 | The loop below the comment examples/pktperf/port.c:136 "Setup Rx/Tx Queues" runs to num_rx_qids for both kinds, so the mapping 1:2-3.0 starts the port with Tx queue 1, which an lcore uses, not set up. |
| `MCPktperf` | `MCPktperfConfigOpen.cfg` | `FailedSetupStops` | examples/pktperf/parse.c:412 | port_setup reports errors with ERR_RET, which returns EXIT_FAILURE, 1, and parse_configuration tests for < 0, so the error of examples/pktperf/parse.c:413 "Port setup failed" is never raised and the lcores are launched. |
| `MCPktperf` | `MCPktperfConfigOpen.cfg` | `QueuesPolled` | examples/pktperf/parse.c:147 | An lcore already in use is reported and then reused for the new port, and the queue of the old port stays configured with no lcore; examples/pktperf/README.md:46 says "A single core can only be attached to one network device or port". |
| `MCPktperf` | `MCPktperfConfigOpen.cfg` | `FgenOptionAccepted` | examples/pktperf/parse.c:346 | parse_args loads into info->fgen, which parse_configuration creates only afterwards (examples/pktperf/parse.c:416), so the load fails and usage exits; examples/pktperf/parse.c:79 offers "FGEN string to load". |
| `MCTty` | `MCTtyOpen.cfg` | `ResizeReaches` | lib/osal/fgen_tty.c:201 | Two threads that take SIGWINCH one after the other run handle_winch at the same time, and the older one may store its half of the size last: the size kept is then neither window's, and lib/osal/fgen_tty.h:137 says "Return the number of rows in the screen". |
| `MCTty` | `MCTtyOpen.cfg` | `SizeIsWindow` | lib/osal/fgen_tty.c:282 | __create asks for the size before it installs handle_winch, so a resize in between raises no signal and the old size is kept until the next one; lib/osal/fgen_tty.h:137 says "Return the number of rows in the screen". |
| `MCTty` | `MCTtyOpen.cfg` | `ActionRestored` | lib/osal/fgen_tty.c:301 | When __create fails before its sigaction, saved_action is still zero and tty_destroy sets SIGWINCH to the default, an inherited SIG_IGN included; the comment at lib/osal/fgen_tty.c:299 says "Restore the old sigaction() value". |
| `MCTty` | `MCTtyOpen.cfg` | `StdinRestored` | lib/osal/fgen_tty.c:71 | flags is loaded, changed and stored without protection, so a color function that runs while tty_setup makes the terminal raw writes the old word back and tty_reset then does nothing; lib/osal/fgen_tty.h:78 says "Destroy or cleanup the tty interface and handlers". |
| `MCStrings` | `MCStringsOpen.cfg` | `QuotedKept` | lib/include/fgen_strings.h:180 | fgen_strqtok starts in state WORD, in which a quote is an ordinary character, so a quoted text at the start of the string is cut at the delimiters in it; lib/include/fgen_strings.h:162 says "handle quoted strings within the string being parsed". |
| `MCStrings` | `MCStringsOpen.cfg` | `BadParamsReported` | lib/core/encode.c:85 | The delimiters of _encode_opts hold the blank but no other white space, so a tab or newline between commas is a parameter of its own; strtrim leaves nothing of it, strtrimset returns NULL (lib/include/fgen_strings.h:55-56), and _encode_vars takes the length of that. Of parameters that do not parse lib/core/encode.c:628 says "Parameters '%s' invalid". |
| `MCStrings` | `MCStringsOpen.cfg` | `StopsAtNul` | lib/include/fgen_strings.h:193 | At a backslash p is moved twice, so one at the end of the text makes the loop step over the NUL and read on; lib/include/fgen_strings.h:165 says "String to be tokenized and will be modified, null terminated". |
| `MCPktperf` | `MCPktperfPorts.cfg` | `EachPortPrinted` | examples/pktperf/stats.c:67 | For a port without a mapping the pid is invalid, rte_eth_link_get_nowait fails and print_stats returns, so ports behind it are never printed and their packet rate stays unset; the loop of examples/pktperf/stats.c:58 is over all ports, and the comment at examples/pktperf/pktperf.c:277 says "Display the statistics". |
| `MCOutput` | `MCOutputOpen.cfg` | `FittingTextWhole` | lib/osal/vt100_out.c:147 | For each plain character b_index is counted up and len down, and the loop ends when they meet, so a text longer than half of the buffer loses its end; lib/osal/vt100_out.h:1547-1548 says "The max length of the buffer, must be large enough to hold the output string". |
| `MCOutput` | `MCOutputOpen.cfg` | `WritesInBuffer` | lib/osal/vt100_out.c:164 | len is not made smaller by the codes written for a tag, and a negative rest is taken for a large size by snprintf, so codes after a long text are written behind the buffer; lib/osal/vt100_out.h:1547-1548 says "The max length of the buffer". |
| `MCOutput` | `MCOutputOpen.cfg` | `BracketsKept` | lib/osal/vt100_out.c:157 | Any text between [ and ] is taken for a tag and left out, also with color off; the comment at lib/osal/vt100_out.c:157 keeps a bracket only when "']' not found assume only a '[' in text". |
| `MCNetdev` | `MCNetdevOpen.cfg` | `OtherFlagsKept` | lib/osal/netdev_funcs.c:43 | netdev_change_flags reads the flags, changes its own and writes all of them back, so two threads that change different flags of one interface lose one change although both return 0; lib/osal/netdev_funcs.h:83 says "Enable promiscuous mode on the given netdev". |
| `MCNetdev` | `MCNetdevOpen.cfg` | `DocumentedErrors` | lib/osal/netdev_funcs.c:36 | Functions on flags, link and offloads return -errno when a call fails (lines 36, 40 and 46 for the flags); lib/osal/netdev_funcs.h:88 says "0 success or -1 on error", and so do its lines 78, 98, 110, 120, 130, 142, 154 and 166. Only for channels and rings does the header promise an error number. |
| `MCNetdev` | `MCNetdevOpen.cfg` | `SuccessFills` | lib/osal/netdev_funcs.c:117 | netdev_get_mac_addr returns 0 after a failed ioctl, and netdev_get_link after the fallback ETHTOOL_GSET stores nothing; lib/osal/netdev_funcs.h:141-142 says "@return -1 on error or o on success". |
| `MCEncode` | `MCEncodeOpen.cfg` | `StampIsOwn` | lib/core/decode.c:108 | Every frame is encoded at offset 0 of one block and bytes that no handler writes keep their values, so _decode_tsc finds the mark of an earlier frame; lib/core/fgen.h:268 says "Decode the raw packet data into a string". |
| `MCEncode` | `MCEncodeOpen.cfg` | `EncodedFrameDecodes` | lib/core/decode.c:270 | Ether/Dot1ad/Dot1q/IPv4 encodes, and _decode_vlan returns -1 for it; lib/core/fgen.h:280 says "-1 on error or length of decoded string." |

## Proofs

`tlapm M.tla` checks the proofs of a module `M`; there are eight, one per component,
but for `ResourceProofs`, which is about three. All have the same shape: an invariant that is inductive, a lemma per action that keeps
it, and theorems that follow from it. TLC checks each inductive invariant, too,
on the instance of the component's run. The theorems hold for every value of the
constants that the named assumptions admit, so for any number of threads, lcores, ports,
handles, frames and names and for any sizes; the runs show the same properties on small instances.

**Salloc** (in `ResourceProofs`: `SallocTypeCorrect`, `SallocUsedWithinSize`, `SallocAllocsApart`,
`SallocImplementsArena`), from `SallocAssumption` (sizes are naturals, the default
is positive). That ranges are apart is not inductive: nothing in it relates a range
to `used`, where the next one starts. `SallocInv` adds `AllocsBelowUsed`, every
range ends at or below `used`, and `UsedWithinSize`. `TakeKeepsApart` is the
one step that adds a range; the other actions leave ranges and `used` alone or
start over. The refinement maps each action to a grant, a creation, a destruction
or a stutter of `Arena`; that a grant is apart from the others is again
`AllocsBelowUsed`.

**Frames** (`FramesTypeCorrect`, `FramesCounted`, `FramesFoundByOwnName`), from
`FramesAssumption` (alphabet, arrays and files of the right kind). `FoundByOwnName`
is not inductive: `_add_frame` does not check whether an old frame is still found
but whether the new name begins the name of an old one. What it keeps true is
`NoneHidden`, no frame's name begins the name of a frame before it, and with that
the first frame that matches a name of the list is its owner. `AddKeepsInv` is used
for `fgen_add_frame` and for both loads. The type part carries the indices: a load
never reads past its array or file.

**Checksum** (`ChecksumTypeCorrect`, `ChecksumSumFits`, `ChecksumVerdictTells`,
`ChecksumZeroMeansNone`), from `ChecksumAssumption` (packets as `IsPacket` says, up to
65535 bytes, and any set of 16-bit values for noise). `VerdictTells` compares two runs
of the loop, so the induction needs what the first one left: `SenderInv` says that the
sender's sum after i words is `trace[i]`, `SentInv` that the words in flight are the
sender's but for the checksum, the complement of the reduced sum, and the change, and
`ReceiverInv` that the receiver's sum after i words is `trace[i]` plus the checksum, once its word was passed, plus
`delta`, once the changed word was. At the end the receiver's sum is congruent to
`delta`, and a folded sum is 0xffff exactly when the sum is positive and divisible by
65535; the arithmetic of folding is stated as lemmas first.

**Decode** (`TypesHold`, `TextFits`, `BuffersFreed`, `TextIsOfFrame`), from
`FramesAssumption` (a frame holds the headers its type fields announce, whole, within 16
bits of length, and stamps are inside it), `PiecesAssumption` (what handlers print has a
length, and every handler but Raw prints something) and `BoundsAssumption`. `BufferInv`
is what `_append` keeps over any sequence of calls: it adds to the two properties of the
buffer that there is no text without one and that pieces are appended during a call only.
`TextOfThisFrame` needs to know where in the frame the handlers are (`Walk`: the header a
handler is called for is at `data_off`, and the stamp is looked for behind the last
header) and how the pieces printed go on in those yet to be printed (`Order`). Both are
needed because a handler queues its pieces before the next is called, and the text is
judged only at the end.

**Mmap** (in `ResourceProofs`: `MmapTypesHold`, `RegionsHoldBuffers`, `RegionsUnmapped`, `HandlerRestored`), from
`MmapAssumption`. `MmapInv` adds what holds between mapping a region and touching it
(`InCall`: the handle is neither live nor given up, and records what the kernel mapped),
and that a handle that is neither live nor lost has nothing mapped, which is why a
fallback starts from nothing. The arithmetic of FGEN_ALIGN_CEIL is `AlignCeil`.

**Encode** (`EncodeTypes`, `LengthsReachTheEnd`, `ChecksumsAreFinal`, `HeadersStayIntact`,
`FailsOnlyIfMalformed`, `RoundTripEncodes`), from `EncodeAssumption` (texts are sequences of
layers, and 40 bytes for each of MAX_LAYERS layers stay below 65536; FGEN_MAX_LAYERS is 32); sizes, appends and fills are any integers.
The properties speak of a frame that is done, while a handler does one half of its work
on the way into the recursion and the other on the way out. The inductive invariant
`IInv` therefore says at each depth what the handlers that have returned have left, and
what those still to return must find. `Shape`: the table of layers is that of this text,
whatever frame was encoded before. `Verdict`: on the way in all layers passed have
parsed; on the way out an error is one of a malformed text, and without one all layers
have parsed, the tags further in are not doubled, and `ret` is the type of the layer
left last, which is how a handler tells Dot1q in Dot1q. `Lengths`: the lengths filled in
so far reach the end of the frame, which does not move while handlers return. `Layout`:
headers lie behind one another (Ether at the start), and each write that is no checksum is in
its own layer's header; the case that needs an argument is a Payload whose size option
cuts the frame below the headers that precede it (`PayloadEnd`), or whose append does, being
negative: what the fill then replaces (`Refill`) is the headers that `Cut` names, and no other. `Sums`: a checksum begins at or behind
the IPv4 layer that computed it, so the layers that return after it, which lie before,
do not reach it. `RoundTripEncodes` shows that every step of `RoundSpec`, the specification
of the run, is one of `Encode`, so the theorems hold there, too.

**Strings** (`EveryCharOnce`, `FieldsAreCut`), from `StringsAssumption` (texts of any length and any
characters but NUL, arrays of any positive length). fgen_strqtok cuts the array it reads.
`QtokInv` says that every token found ends before the next begins and before the
character looked at (`Tokens`), so that no later cut reaches it; that the word being read
is behind all of them and has no NUL (`Word`); that the array has every character that is
to be kept (`Array`); and that such a character in front of the one looked at is in a
token or in the word (`Scan`).
`FieldsAreCut` is about fgen_strtok, whose loop `_encode_frame` runs once, and whose tokens
`_encode_opts` gives to it again one by one, all on the same array. `Loop` is what a turn
keeps: from `at` on the array is the string it was (`Unread`), and the tokens hold, in order
and without touching one another, the fields of that string that begin before `at` (`Read`,
counted by `RunsBefore`). `StrtokInv` adds, while a piece is cut, that the pieces behind it
are untouched and in order (`Pending`) and that the keys and values read lie in front of it
(`PairsKept`). What a step writes is inside the string the loop is in (`SameBut`), so it
reaches neither. The lemmas that carry it say what trimming and `strtok_r` do to a string in
an array and what that is on the string itself (`TrimHolds`, `StrtokFinds`), and that the
next run found is the next field (`OneRunMore`). A field is taken without the white space
around it, which `HeldWords` carries over, and `BlankStep` is the parameter of which nothing is left.

**Pktperf** (`TypesHold`, `NoQueueShared`, `RxQueuesSetUp`, `MbufsInOnePlace`,
`PacketsBuiltBeforeSent`, `PortsClosedLast`), from `ConfigAssumption` and
`PktperfAssumption` (a pool is finite, and a port has at most 16 queues,
MAX_QUEUES_PER_PORT); a mapping may name any of RTE_MAX_ETHPORTS ports, of which only the first
NumPorts are there. Two lcores have different queues
because a queue id is the count of the port at that time, and stays below it while the
count grows (`QidsCounted`), also when an lcore is mapped again or a mapping is broken
off; `SetupInOrder` says which queues are set up when a port starts. For the threads,
`PhasesInOrder` ties the steps of main to those of the lcores, `LockHeld` is mutual
exclusion on the spin lock of a port, and `BuiltOnce` says that an lcore past the lock
has found the packets built, and that nobody has taken an mbuf before; the second is what
makes the iteration over the whole pool safe. `NoneLost`, `NoneTwice` and
`HeldOnlyInBursts` are `MbufsConserved` with the steps at which an lcore may hold any.
`PortsClosedLast` needs that main waits for all lcores.

**Tty** (`TypesHold`, `NoResizeMissed`, `StdinKept`), from `TtyAssumption`. `SizeSeen`
says that a half of the size that was copied and has changed since is followed by the
notice, or by a handler that has still to set it, for any number of threads in the
handler. `StdinKept` assumes `~OtherColorThread`, the color functions on the thread of
the other calls; without it the property is false (see the table above). `ModesKept`
relates the modes of stdin to the flag, the input descriptor and what the color function
has loaded.

**Netdev** (in `ResourceProofs`: `TypesHold`, `SocketsClosed`, `ChangesAsAsked`, `FailuresReported`), from
`NetdevAssumption`. The properties speak of a function that returned; `CallOK` says what
a call has stored and seen fail between two system calls, `Overlaps` that of two changes
of one interface under way neither is alone, and `Progress` what a change that is alone
has made of the interface so far. That an error number is that of the last call that
failed needs each thread's `errno` to be its own (`CallOK`).

**Frames**, the loads (`FramesStay`, `StringsInOrder`, `OneFileComplete`): what a load
has added when it returns needs what it had added at each turn. `StringsSoFar` says that
in the middle of a load the list is the old one followed by the frames of the strings
passed; `FileSoFar` that it is longer by the number of headers above the line the reader
is at, every one of which is on the list and has text. Counting the headers passed one
by one is `OneMoreRead`. The action property `FramesStay` follows from how each step
changes the list.

Only model-checked:

- the liveness properties and the claims that a call returns (`LoadsReturn`,
  `DecodeReturns`, `AllocReturns`, `SignalEndsProgram`, `ResizeReaches`, `CallReturns`),
  which need fairness and are outside this prover;
- `OnlyTheEndIsLost` and `RoomyTextWhole` of `Output`: they compare the loop with what a
  recursive function and `FlattenSeq` compute from the text, and what those compute for
  every text needs induction over data, which the prover cannot do;
- `RoundTripKeepsLayers`: it compares the text of a frame with the subsequence
  (`SelectSeq`) of the pieces the whole decoder prints for it, again a recursive
  definition over data.

No module that is proved about reaches a RECURSIVE operator: the prover loses its SMT
backend there.

## Not modelled

- `fgen_print_string`, `fgen_print_frame`, `fgen_next_frame`: they read and print.
- The functions of `vt100_out.h` that print one fixed code each, the table of colours and
  attributes (a name of `Output` is one that has an entry), `fgen_log_set_level_str`, and
  the log's stack trace and exit, which end the program.
- Hexdump and the reads of `/proc`, sysfs and the clock in `fgen_system.c`: formatting
  or input without state. CRC tables: pure arithmetic too wide for TLC.
- In `Netdev`, the values read (an output is stored or not).
- In `Strings`, case conversion, `fgen_stropt`, `fgen_strcnt` and `mask_size`; the NULL
  that `fgen_strqtok` puts behind its last token, for which the caller's array needs one
  entry more than `maxtokens`.
- Header files of protocols: layouts, present in the models as sizes.
- In `Pktperf`, what DPDK does with an lcore whose pool or Tx queue was never made (`Usable`
  ends the model there; the set-up that leads to it is `StartedPortsTransmit`), time (a burst may be due at any turn), byte counters, and the caches
  of the mempool (taking a burst may fail with mbufs left).
- In `Pktperf`, more than MAX_QUEUES_PER_PORT queues on a port: queue ids index arrays of
  that length, and the configuration never compares them with it (`Usable` ends the model
  there, too).
- In `Mmap`, several threads: the handler and the jump buffer are static, and the code
  makes no claim to be used from two threads.

## Plan

1. `Salloc`, `Frames`, `Checksum` with proofs; `Encode`, `Decode`, `Mmap`, `Pktperf`,
   `PktperfConfig`, `Strings`, `Tty` checked. Done.
2. The compositions: `Pktperf` on what `PktperfConfig` left, `Decode` on what `Encode`
   left (`RoundTrip`); `Output` and `Netdev`. Done.
3. Proofs about `Decode`, `Mmap`, `PktperfConfig` and `Pktperf`, `Tty`, `Netdev`, and the
   loads of `Frames`. Done.
4. Proofs about `Encode` (`HeadersIntact`, `LengthsReachEnd`, `ChecksumsFinal` and
   `FailsIffMalformed` from one invariant over the handlers entered and returned) and
   `Strings`. Done.
