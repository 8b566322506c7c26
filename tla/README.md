# A TLA+ model of mini_iperf

mini_iperf (`src/Lab2`) measures a network path: a client sends numbered UDP
datagrams to a server for a number of seconds; the server counts them and, over a
TCP connection, reports throughput, goodput, loss and jitter per interval; the
client prints the reports. This directory models that program in TLA+, checks it
with TLC on small instances, and proves its invariants, and that its parts implement
their abstract specifications, with TLAPS for every value of the parameters.

The rest of the repository (Lab1 measurements, Lab3 and Lab4 router configurations
and reports, the vendored plotting scripts) holds no program logic and is not modelled.

## The system

| component | code | state | operations | interacts by |
|---|---|---|---|---|
| options and start-up | `mini_iperf.c` | `experiment_options_t`, `udp_fd_list`, `tcp_fd_list` | `main`, `setUp_required_options`, `sig_handler`, `getMetric`, `convertToBps` | calls one of the three drivers below |
| client of one stream | `mini_iperf_client.c` | sockets, `lastsend`, start time | `init_iperf_client`, `start_experiment_client`, `checkforstats`, `terminate_iperf_client` | TCP headers out, TCP reports in, UDP out |
| bandwidth control | `send_wbandwidth`, `initBandwidthControl` | `bandwidthControl_t` | send one datagram and sleep | called by the client's loop |
| server of one stream | `mini_iperf_server.c` | sockets, the counters of the receive loop | `init_iperf_server`, `start_experiment_server`, `send_stats`, `checkForTermination`, `terminate_iperf_server` | TCP headers in, reports out, UDP in |
| stream statistics | `start_experiment_server:548-609` | `stats`, `missing_packets*`, `total_packets*`, `prevtime`, `interval_max` | count a datagram, close an interval | inside the server's loop |
| jitter | `updateJitterTimes`, `calculateJitter`, `*JittersArray`, `getJitterStandardDeviation` | three time stamps, a growing array | update, grow, clear | inside the server's loop |
| parallel streams | `conduct_experiment_client_parallel`, `conduct_experiment_master_server`, `init_multiple_iperf_streams` | threads, fd tables | one thread per stream on each side, after a "go" message | shared fd tables, `exit` and `die` from any thread |
| one-way delay | `measure_one_way_delay_*`, `initNTPconnection`, `getTimeFromNTP` | NTP socket, time stamps | ask NTP, send or receive | UDP to an NTP server, UDP between client and server |
| array list | `utils.c` | `arrayList_t` | add, resize, remove all | not used by the program |

### What is hard in it

* **Two processes that watch two channels.** The server looks at the TCP connection
  only after a UDP datagram, the client looks at it once per datagram it sends. What
  happens at the end of an experiment depends on the order of a last datagram, a
  termination header, a last report and two closes.
* **Interrupts and resets.** Either process may end between any two calls of the
  other. Closing a socket with unread data resets the connection, and the survivor
  ignores most of the results that say so.
* **A clock read once per datagram.** An interval is closed by the first datagram of
  a second that is a multiple of the interval. A pause leaves intervals out, and the
  label of a report is a counter of its own.
* **A report in the middle of the accounting of a datagram.** Part of the datagram is
  accounted before the report resets the counters, part of it after.
* **One comparison for loss, reordering and duplication**, in 32-bit arithmetic.
* **Threads that call `exit`.** The end of one stream ends the process.
* **Counters, arrays and products in machine words.** The jitter's time stamps have 0 for
  "not set", the array shrinks its limit but not its block, squares and byte counts are
  32 bits wide, options are truncated to 16.
* **A feedback of its own effect.** The pause of a datagram is raised or lowered by the rate
  that the last pause led to, and `nanosleep` refuses a second or more.
* **Waiting without a timeout.** The one-way-delay client waits for an NTP answer, its
  server for a datagram.

### What makes each component correct

* *Statistics*: labels never ahead of the clock, adjacent and an interval apart; loss at
  most 100% and, on a network that keeps the order, never overstated; goodput at most
  throughput; a division that is safe; misses that losses and exchanges explain.
* *Session*: the client always ends, and fails only when refused; the server ends
  normally only for a client that finished; no report is lost, repeated or reordered
  while the client lives; a connection is reset only by a process that has ended; the
  session as a whole is a measurement (`Measurement`).
* *Parallel streams*: no process ends normally unasked; thread and stream are on the same
  ports, and watch their own descriptors if the server's lists are long enough; the go
  message comes after the server's loop; the client ends.
* *Jitter*: no write beyond the allocation; average and deviation of the same datagrams;
  the jitter is the difference of the last two gaps; the deviation is never overstated.
* *Pacing*: the sleep stays below a bound; the rate comes back to the bandwidth.
* *Options*: the server measures the experiment the client has, but for one value of
  `one_way_delay`; no divisor is 0.
* *One-way delay*: the client ends; the server ends normally only for a client that
  finished; the smoothed estimate is an average.

## Modules

| module | models | lines of the code |
|---|---|---|
| `StreamStats` | the server's accounting of one stream of datagrams | `mini_iperf_server.c:459-616`, `285-287` |
| `LossyStream` | one stream from end to end: the clients' numbering, a path that loses and reorders, and `StreamStats` | `send_wbandwidth`'s ids, `mini_iperf_client.c:364-399`, `mini_iperf_server.c:515-609` |
| `Measurement` | the promise of one measurement, without processes or sockets | abstract |
| `IperfSession` | a client, a server, their TCP connection and UDP flow, two clocks | `mini_iperf_client.c:50-113, 172-218, 304-399, 455-477`, `mini_iperf_server.c:41-118, 177-209, 343-366, 459-616, 640-658` |
| `ParallelStreams` | the main and stream threads of both sides | `conduct_experiment_client_parallel`, `conduct_experiment_master_server`, `init_multiple_iperf_streams` |
| `Jitter` | time stamps, jitters, their array, average and deviation | `mini_iperf_server.c:235-340` and the receive loop's use of it |
| `BandwidthControl` | the pacing feedback | `initBandwidthControl`, `calculateThroughput`, `send_wbandwidth` |
| `Startup` | the option loop of both hosts and the header between them | `mini_iperf.c`, `convertToBps`, the header's fields |
| `OneWayDelay` | the experiment of `-d` with the NTP server and the heap | `measure_one_way_delay_client`, `measure_one_way_delay_server`, `getTimeFromNTP` |
| `StreamStatsProofs`, `LossyStreamProofs`, `IperfSessionProofs`, `ParallelStreamsProofs`, `JitterProofs`, `BandwidthControlProofs`, `StartupProofs`, `OneWayDelayProofs` | the proofs, one module for each component | |
| `MC...` | instances for TLC | |

`LossyStream` composes the sender, the path and `StreamStats`. `IperfSession` implements
`Measurement`. `ParallelStreams` and `OneWayDelay` take over where `IperfSession`'s
handshake ends, and `Startup` says what that handshake carries. The exact lines of every
definition are in `PROJECT.json`, `map`. The definitions called "Mutant" in the comments
are plausible mistakes, put in place of the definition beside them to see that the
properties notice; they are part of no specification.

### StreamStats

The variables have the names of the code's. `elapsed` is what `time_elapsed` would be
if a datagram came now; `report` is the last `statistics_t` given to `send_stats`;
`status` becomes `"sigfpe"` when an integer division by zero kills the process.
The body of the loop for one datagram (lines 548-609) is one action, in three
exclusive forms: `CountPacket` (no report due), `ReportInterval` (due) and
`DivideByZero` (due with no datagram counted). `AccountPacket` is the part that comes
after the report and is common to the first two. `uint32_t` arithmetic is modulo
`Word`. The datagrams come from an environment: `NextFifo` increases the id each time
(drops), `Next` allows any id in `0..MaxId`: reordering, duplicates, and the opening
datagram, whose id is uninitialized memory. A datagram shorter than `udp_header_t` is
possible: `send_wbandwidth` sends 8 bytes when the length it was given wraps below the
header's. The jitter of a datagram takes no part in the control; it is in `Jitter`. The
output file and the printing are left out.

### IperfSession

`cpc` and `spc` name the call each process is about to make, or how it ended. A step is
one call that the other process can notice, with the local computation up to the next.

| client action | code | server action | code |
|---|---|---|---|
| `ClientResolve` | `initNTPconnection`, called by every client | `ServerListen` | socket, bind, listen |
| `ClientConnect` | `connect`, refused if nobody listens | `ServerAccept` | `accept` |
| `ClientSendHeader` | the initialization header | `ServerReadHeader`, `ServerReadNothing` | `recv`, which returns 0 at the end of the stream |
| `ClientFirstDatagram` | first `sendto` | `ServerBind`, `ServerDiscardFirst` | UDP `bind`, the discarded datagram |
| `ClientStartClock` | `clock_gettime` of `start` | | |
| `ClientCheckStats` | `checkforstats`: at most one report | `ServerCount`, `ServerReport`, `ServerDivideByZero` | one datagram |
| `ClientSendDatagram` | `send_wbandwidth`, `lastsend` | `ServerSendStats` | `send_stats`, or its failure |
| `ClientSendTerm`, `ClientClose` | `terminate_iperf_client`, return from `main` | `ServerCheckTerm` | `checkForTermination`, `terminate_iperf_server` |
| `ClientFault` (to `"killed"`) | SIGINT, or any call that dies | `ServerFault` | the same |

`ClientEnd` and `ServerEnd` are the closing of the sockets, by `clean_up` or by the
kernel. TCP is modelled by the two receive queues: what is sent is in the peer's queue
at once, which loses no behaviour because a late segment is a late reader. A close
with unread data, and data sent to a closed socket, cause a reset (`srvRst`,
`cliRst`). While the flag is set a send may fail or still succeed, since the reset may
not have arrived; queued data can still be read, as on Linux. A `recv` that reports a
reset is ignored by the code and hence no step of its own. UDP datagrams are counted:
what `StreamStats` says of their ids does not change the control. They are lost when no
socket is bound, when the buffer (`MaxQueue`) is full, and, with `Lossy`, at any time.
The interval bookkeeping of the server (`prevtime`, `interval_max`, and `counted` for
`total_packets_so_far # 0`) is that of `StreamStats`.

A header read from a connection that closed first is uninitialized memory. The model
lets it read as a single-stream experiment, or stops in `"undefined"`, where the code
would start threads or a one-way-delay experiment.

The clocks (`TickClient`, `TickServer`) are those of two hosts: the same rate, any
phase, so their second boundaries alternate. Each process counts the boundaries since
its own start. The client reads its start after its first `sendto`, and the server may
have received that datagram and started by then: `lag` is history, the boundaries the
client's clock passed in between, at most `MaxLag`. `PrintedIsPast` counts them:
`printed` is at most `lag + cElapsed + 1`. Without `lag` it is not true: with an interval
of 2 a label can be two seconds ahead of `cElapsed`, and TLC finds that in the bounds of
`session_faults`.

### LossyStream

`sent` is each client's `packet_id`, `path` what is on its way or in the socket's buffer,
`lost` and `exchanged` count what the path did. `Send` is the opening `sendto` (id 0 in
`path`) and then `send_wbandwidth`; `Lose` and `Exchange` are the network's; `Discard` is
the first datagram that arrives, whichever it is; `Receive` is `StreamStats`' accounting
of the head of `path`. The UDP socket is not connected, hence `Clients` may be several.

### ParallelStreams

`cmain`, `smain` and the functions `cthread`, `sthread` are the program counters of the
threads; `client` and `server` say how a process ended, which ends all of its threads.
The main threads connect at offset 0, the header is sent, the server creates its threads
(each with an options record of its own), sends the go message, and joins; the client
creates its threads, and joins. Thread k of each side runs at offset k. The measurement
of one stream is one state, `"measure"`: it is the subject of `IperfSession`, and what it
can do to its process is an action here (`StreamMeasure`, `ThreadTerminate`, `ThreadDies`).
`Port` is converted and offset as `init_iperf_client` does it, in that order.

`pthread_create` may fail (with `Faults`). Nobody looks at its result: the thread is
`"unset"`, the loop goes on, the go message is sent, and the handle that was never written
is joined. That join is undefined: it may return at once (`ClientJoin`, `MasterJoin`),
kill the process, or wait for ever (`ClientJoinUnset`, `MasterJoinUnset`, `"hung"`).

The server's `udp_fd_list` and `tcp_fd_list` have `own + 1` entries each, where `own` is
the `parallel_streams` of its own options: given with `-n`, or left over from the heap
(`OwnStreams`). They are two pieces of one memory, `fds`, with `Padding` entries' worth
between them (`UdpCell`, `TcpCell`); entries beyond an end are cells of that memory too.
`ServerStores` is a store into a cell: it overwrites what is there, and outside both lists
it may instead end the process in `"undefined"`. Thread k stores its connection at
`mini_iperf_server.c:116` and its UDP socket at `:649`, and watches what it then finds in
its entry of `tcp_fd_list`: a UDP socket there reads as a termination header
(`ReadsAsTermination`), whose payload is uninitialized memory. A header that never came
(`ThreadReadNothing`) names any entry, or one outside the process.

### Jitter

A `struct timespec` is a number of ticks; `tv_nsec` is `t % Second`, so that 0 is both
"not stamped" and a whole second. `Count` and `Report` are the body of the receive loop
as far as it concerns the jitter; `ReallocFails` is the null pointer that is written
through. The array is a record of `sizeLimit`, `fillSize`, the elements, and `allocated`,
what the last `realloc` asked for. `stamps`, `write` and `measured` are history: the true
stamps, the last write with the size of the block at that time, and the jitters measured
since the last report, in an array that is never full and whose elements are not cut to
32 bits.

### BandwidthControl

`Send` is one call of `send_wbandwidth` with the time since the last reading of the clock
chosen from `Works` (from `Uptimes` at the first call, whose `bandwidthEnd` is cleared).
The double arithmetic is that of exact quotients, except that one that is whole may be
truncated to one less. `Pause` is `nanosleep` with its refusal of 10^9 ns or more.

### Startup

Both hosts run `main`'s loop option by option (`Parse`), in any order, from a structure
that is only partly cleared (`InitialOptions`: each field that is not set has leftover
bytes of its own), then `setUp_required_options`; `Connect` is
the header's conversion on one side and back on the other. `atoi`'s value is truncated to
each field. A number is `[opt, num, metric]`; addresses and file names are left out.
`one_way_delay` is an int sent in 16 bits: `SameExperiment` says that the two hosts take
different measurements exactly when it is a multiple of 2^16, and not 0, on the client.

### OneWayDelay

`cpc` follows `measure_one_way_delay_client`: ask, wait for the answer, send, and one more
round after the duration; `start` is read after the first `sendto` (`ClientStartClock`, by
`MaxStart` at the latest). The NTP server is external: it answers, refuses, or the request
or the answer is lost; with `NtpFails` the write of the request may fail as well, and
`die` ends the client. What that does to the TCP connection is in `IperfSession`. A measurement is 8 bytes in a chunk of the heap that is never freed;
`Readable` says whether the whole datagram can be read from there. `spc` follows the
server: a discarded first datagram into a pointer never set (`Pointers` are the outcomes
of that), then in turn a look for the termination header and a blocking receive.
`estimate` is smoothed to the tick below.

### Measurement

What the two users of a measurement see: `Begin`, `Elapse`, `Log` an interval that has
passed, `Show` the next logged interval, `Request` the end, `Complete` on request,
`Abort`. `IperfSession` implements it under the mapping at the end of that module:
`logged` is `interval_max`, `shown` is `printed`, and the phase is read off `spc`.

## What TLC checks

| run | shows | bounds |
|---|---|---|
| `stats_any` | types, labels behind the clock, loss at most 100%, agreeing counters, safe division, spaced reports; any ids, full and short datagrams | Interval 2, 5 s, 5 datagrams, ids 0..5 |
| `stats_fifo` | goodput at most throughput, loss not overstated | the same, one length, in order |
| `path_any` | the misses are at most the losses and three for each exchange; the path implements the environment of `StreamStats` | Interval 1, 2 s, 5 datagrams counted, ids up to 5, 2 exchanges |
| `session_faults` | types, normal end only when complete, reports in transit, nothing from the future, resets only by a closed client, only a refused client fails, refinement of `Measurement`; the client ends; the server ends if a datagram follows the termination header | Duration 3, Interval 2, 5 s, a lag of up to 2 s, 2 queued datagrams, losses and faults, fair scheduling |
| `parallel_faults` | types, normal ends are requested, streams do not mix, go means created; the client ends or waits for a thread that was never created | 2 streams, the server's own 0, 1 or 2, lists that touch, faults, fair scheduling |
| `jitter_any` | types, writes within the allocation, average and deviation of the same datagrams, the jitter of the last three, a deviation never above the true one | 4 ticks a second, words of 16 and 256, array of 1, 6 datagrams, 6 s |
| `pacing_fast` | the sleep is bounded, the stream slows down and speeds up again and again | 1000 ticks a second, a datagram takes 80; work of 3, 7 or 20 |
| `startup_any` | types, the same experiment on both sides but for a `one_way_delay` whose low half is 0, nothing is zero that divides | up to 3 options on each host, bytes of 4 values, leftovers that differ from field to field |
| `delay_any` | types, normal end only when complete, the estimate is an average; the client ends unless an NTP datagram is lost; the server ends on a header in time | Duration 2, the clock in half seconds, 2.5 s, a start up to a second late, heap of 7 chunks, 2 queued datagrams |
| `session_hang` | *violation*: the server may never end | Duration 1, no faults, no losses |
| `stats_sigfpe` | *violation*: the first counted datagram may divide by zero | as `stats_fifo` |
| `parallel_exit` | *violation*: the first stream to finish ends the server | 2 streams, no faults |

**Why the bounds are enough.** The statistics keep one previous id, one previous
second and the counters of one interval; five seconds with interval 2 hold two reports
and an interval without any, and five ids hold gaps of several packets, repetitions and
every reordering of neighbours. Two exchanges reach the three misses that one can cause,
and one exchange that undoes another. In a session the client has two rounds that differ
(before and after `lastsend`), the queues matter when empty, non-empty and full, and a
client of three seconds with a lag of two lets two reports be in transit at once. A lag
of two seconds is one interval, the least that puts a report of the server before the
client's start. Two streams are a first and a last one: the loops that create and join
threads tell no more apart than created, refused and to come, three streams take TLC past
its time, and the theorems are for any number. The server's own 0, 1 and 2 streams are
lists that are too short by two entries and by one, and long enough; touching lists
(`Padding` 0) are the worst case, as an entry beyond the first is then one of the second.
The other runs of `ParallelStreams` have the 0 and the 7 entries' worth between two
blocks of `malloc`. An array
of one element grows three times in six datagrams and is cleared and grown again. The
ticks of `Jitter` and the bytes of `Startup` keep the relations of the code's widths: a
word holds fewer squares than differences, 16 bits are two bytes and 32 are four, and a
giga is a fourth of a word. `BandwidthControl` has a word 4.295 times the second, as
2^32 is to 10^9. `OneWayDelay`'s heap of seven chunks is enough for a whole experiment
of few datagrams, and ends in one of many. `Word` is 1024 in the statistics so that the packet counters do not wrap;
the short datagrams do wrap the byte counter. The clocks stop at `MaxElapsed` or
`MaxTime`, which is later than the client's duration, so no client is cut short.

**Deadlock** is checked in `pacing_fast` only: the pacing goes on as long as the
experiment. Elsewhere both processes end, and the bounds stop the clock.

**Fairness.** An operating system schedules a process or thread whose call does not
block. In `IperfSession` that is `WF` on the steps of each process and on each clock; in
`ParallelStreams` on the client's main thread, the server's main thread and each stream
of the client, and not on the server's stream threads, some of whose calls wait for
datagrams; in `OneWayDelay` on both processes, the clock, and the NTP server for
requests that are not lost; in `BandwidthControl` on the one process. Nothing is assumed
of the network, and faults are never forced. Which step a thread takes is decided by its
program counter, so weak fairness of the whole thread is enough.

## Findings

Three runs are violations of what the code's own comments say.

1. `session_hang`: `mini_iperf_server.c:544` goes back to `poll` when no datagram is
   there, before `checkForTermination`. If the last datagram was consumed before the
   termination header arrived the server spins for ever. The client's last datagram and
   its header are sent one after the other, so a fast server is the one that hangs.
2. `stats_sigfpe`: the division at `mini_iperf_server.c:286` with no datagram counted.
3. `parallel_exit`: `terminate_iperf_server` (`mini_iperf_server.c:178`, "terminates both of
   the iperf communication channels") calls `exit`, which closes those of every stream.

### Further counterexamples

Each of these configurations checks one property that TLC finds violated. They stand
beside the runs above, which show the conditions under which the same code is right. The
comment of each property quotes what it states.

| configuration | property | what the code does |
|---|---|---|
| `stats_label` | `LabelIsElapsed` | `interval_max` is not read from the clock: after a pause the labels lag (`mini_iperf_server.c:569`) |
| `stats_burst` | `MissingIsExact` | one miss for a gap, not for each missing packet (`mini_iperf_server.c:600`) |
| `path_reorder` | `LossIsReal` | a datagram out of order counts as missing |
| `path_two` | `LossIsReal` | the datagrams of a second client count as gaps of the first (`mini_iperf_server.c:548`) |
| `session_unread` | `ReceivedReportsPrinted` | the client closes without a last look at the reports (`mini_iperf_client.c:111`) |
| `parallel_refused` | `RefusedStreamIsReported` | a stream may connect before its server thread listens; `die` ends the client (`mini_iperf_server.c:24`) |
| `parallel_create` | `NoStreamIsSkipped` | a thread that cannot be created is skipped in silence (`mini_iperf_client.c:431`) |
| `parallel_table` | `EntriesExist` | `tcp_fd_list` has an entry for the server's own streams, not the client's (`mini_iperf_server.c:116`) |
| `jitter_square` | `DeviationIsExact` | squares of `uint32_t` wrap from 2^16 ns on (`mini_iperf_server.c:330`) |
| `jitter_unset` | `JitterIsPossible` | the first two jitters come from time stamps not set (`mini_iperf_server.c:271`) |
| `pacing_slow` | `StreamSlowsDown` | a pause of a second or more is refused by `nanosleep`, and not slept (`mini_iperf_client.c:208`) |
| `startup_giga` | `PositiveBandwidthLimits` | `4G` is 0 in 32 bits: no limit (`utils.c:34`) |
| `startup_order` | `ClientTakesBandwidth` | `-b` before `-c` is refused (`mini_iperf.c:100`) |
| `startup_port` | `ListensOnGivenPort` | `-p` is the UDP port; the TCP port is fixed (`mini_iperf.c:79`) |
| `startup_unset` | `OneWayDelayWhenAsked` | `one_way_delay` is not cleared (`mini_iperf.c:51`) |
| `delay_ntp` | `ClientEndsAnyway` | the NTP answer is waited for without a timeout (`mini_iperf_server.c:164`) |
| `delay_hang` | `ServerEnds` | the server waits for a datagram, not for the header (`mini_iperf_server.c:428`) |
| `delay_heap` | `ClientCompletes` | the whole packet length is sent from an 8 byte measurement (`mini_iperf_client.c:288`) |
| `delay_printed` | `PrintedIsDelay` | what is smoothed and halved is the time since the server's start (`mini_iperf_server.c:443`) |
| `delay_pointer` | `ServerMeasures` | the server receives through a pointer never set (`mini_iperf_server.c:416`) |

The hazards behind them are listed in `PROJECT.json` with the line where they bite.

## What is proved

All for every value of the constants that satisfies the named assumptions.

* `StreamStatsProofs`. The inductive invariant `Inv` joins five properties that are not
  inductive alone: that the division is safe after the first packet needs that
  `total_packets_so_far` is zero only before it (`CountersAgree`), which needs that the
  counter does not wrap (`BoundAssumption`: fewer datagrams than `Word`); that labels
  stay behind the clock needs that `prevtime` is a multiple of the interval, so that a
  report is due a whole interval after the last (`MultiplesApart`). `CountersStayInStep` is
  about the counters themselves. The loss is a percentage also if its product wraps.
  `GoodputIsBounded` is for datagrams of one length; its invariant `PayloadInv` allows the
  open interval's goodput to be one payload larger than its throughput, which the closing
  datagram makes up. `LossIsNotOverstated` is for the network that keeps the order.
* `LossyStreamProofs`. `Refinement`: one client and the path implement the environment of
  `StreamStats`, the ordered one until the first exchange, for any number of exchanges. The
  invariant says that the ids in `path` rise, lie between what was counted and what was
  sent, and stay in range when neighbours are exchanged. `LossReal`: on a path that keeps
  the order, what was sent is counted, lost, on its way or discarded, so that the room
  between two ids counted bounds the misses by the losses (no datagram is shorter than its
  header there). `Misses`: with any number of exchanges, a potential. An id on the path (or
  the next one to be sent) is *broken* when the id before it, the last one counted for the
  first on the path, is not its predecessor: it will count as a miss if nothing else
  happens. `ExchangeInv` says that the misses counted and the ids that are broken are
  together at most the losses and three for each exchange. A loss breaks at most the id
  behind it; an exchange at most the two and the one behind them; a datagram that is
  counted with a miss was broken. The opening datagram is the special case: it may be
  counted with any id, so what stands behind it is broken, unless it is still going to be
  the one that is discarded. `AnyPath`: for any number of clients, what the
  path delivers is what `StreamStats` allows, so its theorems hold end to end.
* `IperfSessionProofs`. `Inv` adds to the types: nothing was reported before the first
  datagram; labels behind the clock; a termination header in the queue was sent, after
  the duration; only a closed client resets; the server runs only after the client's
  first datagram and its clock is at most a second ahead of the time since then
  (`lag + cElapsed`); a client not yet or no longer running
  has no queue; the reports in transit. The theorems `NormalEnd`, `NoReportLost`,
  `NothingFromTheFuture`, `ResetOnlyAfterClose` follow. `OnlyRefusedFails` needs `QuietInv`:
  while the server has not been interrupted, the client is reset only when it has nothing
  left to send, and nothing it sends before its termination header stays unread but the
  first header, so no send of it fails.
  `Refinement` shows that every step is a step of `Measurement` or leaves it unchanged.
* `ParallelStreamsProofs`. For any number of streams, any port, any own options of the
  server and any memory between its lists, with threads that cannot be created. `GoInv`:
  the client creates threads only after the go message, and once the server is about to
  send it its loop is over; `EndInv`: a thread past its termination header has requested,
  and a client that is done has only such threads and unset ones; `MixInv`: a thread's
  record has its own offset and the client's port; `FdInv`: a UDP socket is found among
  the connections only when the lists are too short, and with an own `parallel_streams` of
  N or more every entry holds nothing or its own descriptor. `TypeCorrect`, `NormalEnd`,
  `NoMixing` and `GoAfterCreation` follow.
* `JitterProofs`. For any clock, gaps, array size and words that hold the counters.
  `ArrayInv`: the limit is at most the allocation, the fill at most the limit, and the limit
  is the initial one or at most twice the datagrams, so that it does not wrap when it
  doubles. `StampInv`: the time stamps are the last ones, as far as they are set.
  `WithinBounds` and `JitterRight` follow, and `TypeCorrect`. What the loops over the array
  compute needs induction on their length: the library's induction theorem has an operator
  as a parameter, so `Induction` is proved here for sets, from the least element of a set of
  naturals (`WFMin`), and `Total`, a recursive function, is shown to be what its equation
  says (`TotalIsSum`) and to grow by the element that is added (`TotalOfOneMore`). `SumInv`
  adds that the sum and that of the elements differ by whole words, which holds because
  2^64 is a multiple of 2^32. `SumMatches` follows. `DeviationRight`: `MeasuredInv` says
  that the array holds the low words of the jitters measured since the last report, over
  all growths and shrinks; a wrapped square is at most the square (`SquareShrinks`), so
  their total is (`TotalGrows`), its mean, and the integer root (`RootGrows`), which
  exists (`RootExists`).
* `BandwidthControlProofs`. `PauseBounded`: `Paced` says that the last pause was `sleeptime`
  or `sleeptime` is at most a datagram's time. A rate above the bandwidth means that the
  last pause was shorter than that time, so what it is raised to is at most one step
  above it, less than the second at which `nanosleep` refuses. `TypeCorrect`.
* `StartupProofs`. `HeaderFaithful`: the conversions are each other's inverse in every
  16 and 32 bit field for bytes of any size (`htons` and `htonl` twice are the identity),
  the offset is 0, and what is left of `one_way_delay` on the server is its low half,
  whatever it was. `NoZeroes` and `TypeCorrect` for any values given and left over.
* `OneWayDelayProofs`. For any tick, duration, heap and buffer, and any outcome of the pointer
  that is not set. `ClockInv`: no datagram is queued and the server has not started before
  the client's first `sendto`, so that the clock's place in the second, which is all that
  matters until then, disturbs no time stamp, and every stamp is in the past. `EndInv`: only a client that has seen its duration pass asks
  for the end. `EstimateInv`: the estimate is made of samples no greater than the time since
  the start, which a weighted average keeps and the clock only loosens. `TypeCorrect`,
  `NormalEnd` and `EstimateBounded` follow.

Every invariant and every action property that a run checks is a theorem.

**Only model-checked**: the liveness properties `ClientEnds` (of three modules),
`EndsOnTrafficAfterTerm`, `EndsOnTermInTime`, `StreamSlowsDown` and `StreamSpeedsUp`
(fairness and `ENABLED` are out of the prover's reach), and that the findings and further
counterexamples really happen, which a behaviour shows and no proof could.

## Not modelled

* Printing and files: `printStatisticsPerSeconds`, `output_to_file`, `printTCPheader`,
  `printOptions` format what no other part reads back. `-a` and `-f` only pass names.
* CRC32 (`util_crc32.h`): vendored, and the server never verifies the checksum.
* The array list (`utils.c`): no part of the program calls it.
* `calculateStatistics`, `calculateOWD`, `modify_packet_len`, `free_threads`,
  `jitter_to_ms`, `detect_secchange`, `remainingnsec`: never called.
* The wait duration (`-w`): it is sent in the header, as `Startup` has it, and never used.
* Inside a parallel stream, the measurement itself; several clients in a session (their
  effect on the statistics is in `LossyStream`).
* Measurement data, plots, router configurations and reports: no program logic.
