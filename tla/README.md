# A verification project for the streaming image processor

The repository is a gateway (Go) in front of image processors (C++ with a memory
arena, and a Go implementation for comparison). A client posts frames over HTTP or
a WebSocket, the gateway forwards them over gRPC, a processor filters them (blur,
sharpen, edges, grayscale) and the results travel back. This directory holds TLA+
models of that code, the TLC configurations that check them, and proofs for TLAPS.

Every definition is translated from the source; `PROJECT.json` ("map") names the
lines each stands for. Paths below are relative to `src/`.

## 1. Inventory

| Component | State | Operations | Hard behaviour | What makes it correct |
|---|---|---|---|---|
| **MemoryArena** `processor-cpp/src/arena` | blocks, `current_block_`, five counters | `allocate`, `reset`, `clear`, move | falling back to a new block, what a reset keeps, ownership after a move | regions never overlap, lie aligned inside owned blocks; counters agree with blocks |
| **ProcessMediaStream** `processor-cpp/src/server/grpc_server.cpp:65-301` | per call: arena, mode, batch counter; shared: the atomics of `ServerStats` | read, check, process (arena or heap), count, publish, raise the peak, write, reset | handlers interleave on the atomics; three ways out; cancellation at any moment | `active_arenas` exact, no frame counted on one side only, peak covers every arena, one reply per chunk, use bounded by a batch, handlers end |
| **Reports** `GetStats`, `metrics_server.cpp:62-135` | what has been read so far | one load per counter | counters are read at different moments | sums and totals of a report stay consistent |
| **ImageProcessor** `processor-cpp/src/processing` | loop positions, the arena's bytes | four filters, vector loops with scalar rests | seams between the loops; bytes a filter leaves unwritten in reused memory | every tap added once, every pixel stored once, replies made of their own frame |
| **ThreadPool** `grpc_server.cpp:11-47` | `stop_`, workers, a queue nothing fills | worker loop, `shutdown` | wake-ups missed around `stop_` | shutdown joins |
| **Processor lifecycle** `main.cpp`, `grpc_server.cpp:466-503`, `metrics_server.cpp:37-60,137-222` | gRPC server, metrics thread, listener, `running_` | start, signal handler, `stop()`, accept loop | a handler interrupts main anywhere, or another handler, or runs on another thread; all stop the metrics server; silent clients; a taken port | the service outlives who uses it, `std::terminate` has known causes, a signal ends the process |
| **Stream handler and gRPC client** `gateway/internal/http/handlers.go:314-427`, `gateway/internal/grpc/client.go:56-110` | four goroutines, four channels, the context, the connection | read a frame, offer, send, receive, push, select, write | back-pressure in a ring; errors, disconnects and deadlines at every step; two ready cases of a select | order, no loss while the request lives, every request ends, no goroutine left |
| **RateLimiter** `gateway/internal/metrics/metrics.go:131-188` | token channel, ticker | refill, allow | bursts against refills | admissions in any window bounded |
| **Frame, WebSocket, health and routing handlers** `handlers.go:211-311,430-538,565-619`, `client.go:113-134` | one call per frame or message | decode, route, process, save the run, reply | deadlines, errors of the store that are dropped, a client kept for the length of a socket | requests finish before the connections close |
| **ProcessorPool** `client.go:150-277` | clients, sticky index, round-robin counter, read-write lock | `Get`, `SetSticky`, `HealthCheck`, `Close` | test and store of the index apart; the lock held over remote calls | balanced turns; sticky means sticky; `Close` gets its lock |
| **Accounts, tokens, sessions** `auth/token.go`, `handlers.go:60-200`, `pages.go` | signed tokens, carried in a cookie and in the browser's localStorage | register, login, logout, verify, redirects | two places for one token, tabs that share them, a token split at `:`, expiry, lost answers | a token is for an account whose password was supplied; a history shows one's own runs; a visit comes to rest |
| **Store** `storage/postgres.go`, `db/schema.sql` | users, sessions, runs | inserts and queries, start with retries | unique names under concurrent registration; a commit whose answer is lost | as above |
| **Panel page** `gateway/cmd/server/main.go:170-1415` | `videoDemo`, `loadStats`, radio buttons, displays, timers | camera stream over a socket, load generator, routing switch, polling | every `await`, timer and event is a point where a click or another answer comes in; a flag shared by sockets | what was started can be stopped; frames in flight bounded; counters add up; displays catch up |
| **Go processor** `processor-go/cmd/server/main.go` | `kernelPool` and its buffers, atomics, `main` | the same service, reports, graceful stop | buffers returned while still in use, their contents left over; a signal before `Serve` | replies made of their own frame, reports that lag by no more than the streams, calls end before the process |
| **Gateway process** `gateway/cmd/server/main.go` | HTTP server, pool, store | start with retries, listen, signal, shutdown | shutdown racing requests, a failing listen | requests finish or Shutdown gave up after 10 s; a signal ends the process |
| Demo pages `demo/*.html` | browser scripts | upload, compare, runtime pages | — | — |
| Gateway metrics, load test, benchmarks, generated code, deployment | — | — | — | — |

How they interact: the gateway's rate limiter admits a request, the handler takes a
client from the pool and drives a gRPC stream; the processor's handler owns one arena
for the length of the stream, the filters allocate from it, and `ServerStats` is the
only state the handlers share with each other and with the metrics thread. `main`
ties the gRPC server and the metrics thread together when the process stops. The Go
processor serves the same calls with a goroutine each; its streams share the kernel pool
and the counters. In front of the gateway's handlers stand the tokens: pages are loaded
with the cookie, their scripts' calls carry the stored token, and the panel's scripts talk
to the same handlers by sockets, by fetches and by timers.

## 2. Modules

| Module | Models | Built on |
|---|---|---|
| `ArenaState` | the member functions of one arena as operators on a record | — |
| `RegionAllocator` | the abstract promise: owners hold disjoint sets of extents | — |
| `MemoryArena` | a set of arena objects, one action per member function | `ArenaState`, refines `RegionAllocator` |
| `MediaStream` | `ProcessMediaStream`: one process per call, one step per atomic | `ArenaState` |
| `MetricsScrape` | reports read while the handlers run | `MediaStream` |
| `BlurPasses` | the AVX2 build of `convolve_separable`, pixel by pixel | — |
| `FilterOutput` | what each byte of a reply was computed from, over a reused arena | `ArenaState` |
| `InOrderPipe` | the abstract promise of a stream: results in the order of the frames | — |
| `StreamPipeline` | one `/api/stream` request in the gateway | refines `InOrderPipe` |
| `ThreadPool` | the workers and their shutdown | — |
| `ProcessorLifecycle` | start, signals and stop of the C++ process | `ThreadPool` |
| `RateLimiter` | tokens, ticks, admissions | — |
| `ProcessorPool` | what a step of a caller does to the pool | — |
| `Gateway` | requests from admission to reply, over the pool, and main's shutdown | `RateLimiter`, `ProcessorPool` |
| `GoProcessor` | streams, kernel pool, reports and process of the Go processor | — |
| `Accounts` | the gateway's start, accounts, tokens, pages and calls of the tabs of some browsers | — |
| `ControlPanel` | the scripts of the panel in one of these tabs | `Accounts` |
| `MemoryArenaProofs`, `BlurPassesProofs`, `StreamPipelineProofs`, `ProcessorLifecycleProofs`, `GoProcessorProofs` | theorems | the module each is named for |
| `MediaStreamProofs` | theorems about the handlers and the reports beside them | `MetricsScrape`, an instance of `MemoryArenaProofs` |
| `GatewayProofs` | theorems about the limiter, the pool and their requests | `Gateway` |
| `ControlPanelProofs` | theorems about the accounts, and about the panel beside them | `ControlPanel` |

`MC*` modules only give constants for TLC. Operators called "Variant" are plausible
mistakes in the code, stated next to the definition they would replace; no
specification uses them. They show that a property can fail.

**MemoryArena.** Each public function takes `mutex_` for its whole body, so a call is
one step; `regions` is a history of the pointers callers may still use. A block is an
address, a size and an offset, and addresses are chosen by the system, because the
code pads by address. Sizes are natural numbers: the wrap of `size_t` and an alignment
of 0 (which no caller passes) are outside the model. `clear` is also the destructor.

**MediaStream.** `pc` is the place in the handler between two accesses of shared
atomics; what a thread does to its locals goes with the next access. `Cancel` is
external and may come at any time. `RaisePeak` is one turn of the
`compare_exchange_weak` loop; a spurious failure reloads the value just read and is
covered by the failing branch or by stuttering. A frame's processing
(`process_chunk_arena`, `process_chunk_heap`) is one step with the allocations it
makes and counts, and may throw. The heap path counts each vector as it is made, here in
one step with the frame, and may throw before the first; no property tells the counts of
one frame apart. Times and byte totals are left out. Blocks are always
granted: what the code does with the `nullptr` it does not test for is undefined.

**MetricsScrape.** Three of the counters of `build_metrics`, in its order; the others
are not compared with them. A report begins only in runs whose clients are among
`ReportedClients`, since a report does not touch what the handlers do.

**BlurPasses.** Width, height and kernel are picked once. The horizontal pass adds
taps to one pixel, by registers and then one by one; the vertical pass stores a row by
registers and then one by one. `Lanes` is 8 in the code. Pixel values are abstracted to
"which taps were added" and "which pixels were stored".

**FilterOutput.** A byte is abstracted to its origin: the frame it was computed from,
zero, or never written. The regions come from the arena's own operators, so reuse after
a reset and the fall-back to a new block are those of `ArenaState`.

**StreamPipeline.** A frame is its sequence number. Each goroutine has a place in `pc`
and at most one element in `hand`; Go channels are bounded queues plus `closed`. The
gRPC call, the processor, the connection and its client are external. The pipeline
models the connection's deadlines (`ReadTimeout`, `WriteTimeout`) as one event that may
come while the handler runs, if the client is slow enough. That a handler may write while
the request's body is unread, and learns of a disconnect at once, is assumed of net/http;
HTTP/1 is less generous. A frame larger than the pooled buffer of 640×480 panics
(`ReaderPanics`, `handlers.go:361-369`): the README names no limit for `width` and `height`,
the panic takes one step and no interleaving, and no run is spent on it.

**ProcessorLifecycle.** One function handles SIGINT and SIGTERM, and `handler[k]` is the
place of its k-th activation. As on Linux, a signal goes to the main thread unless that
thread is handling the same number: the other number interrupts the handler, a repeat runs
on another thread (`on`). Main, and the metrics thread, move only while no handler runs on
them. `MetricsServer::start()` is three steps (`running_`, the thread, its move to
`thread_`), so that a signal may find it half done. `running_.exchange` decides who stops
the metrics server. When main leaves, the destructors run in the reverse order of
construction: the metrics server, then the service with its `ThreadPool`, whose workers wait
since the service was built.

The process may end by `std::terminate` and may hang, and the model keeps both apart from a
proper exit. `causes` is a history of what `std::terminate` can come from: a refused port, a
`stop()` inside `start()`, a `stop()` on another thread; `CleanEnd` says there is no other.
A hang is a handler that waits for its own thread (`WaitsForItself`: it calls `Shutdown()`
inside the `Shutdown()` it interrupted, or on the thread of a call that `Shutdown()` waits
for), a silent metrics client, or a worker of the pool: `shutdown()` takes no mutex, so a
worker between its test of `stop_` and its sleep misses the notification and is joined for
ever (`Missing`). `SignalStops` and `PoolEnds` say that nothing else prevents the end.

The gRPC server is external: `Shutdown` refuses calls and waits for open ones, and a second
`Shutdown` waits for the first. A handler reads `g_metrics` or `g_server` in one step with
the call it makes, so a handler on another thread that keeps the pointer beyond main's
destructors is left out. Main and the metrics thread share `server_fd_` and `thread_`
without a lock; the races on them appear as the orders of their steps. The
async-signal-safety of what a handler calls, and the reuse of a closed descriptor number,
are outside the model.

**RateLimiter.** Time is counted in ticks of the ticker. The goroutine receives a tick and
then sends a token: while it holds one tick (`held`) the ticker's channel may take the next
(`pending`), so two admissions more than the bucket and the ticks of a window are possible.
`at` is a history of admissions for the properties.

**ProcessorPool and Gateway.** `ProcessorPool` has the pool's fields and one operator
per step of a method: `Get` is two steps, the load of `sticky` and the increment of
`current`, with the read lock held in between; `SetSticky` reads the length under the
lock and stores without it; `HealthCheck` holds the lock from its first call to its
last. `closing` is a writer that waits: Go's `RWMutex` then lets no new reader in.
`Gateway` gives the operators their callers. `pc[r]` is a request's place in its
handler; frames and sockets come once, probes and administrators repeatedly. `Admit`
is the middleware with what the handler does before `Get`; refusals in between are its
second disjunct. A call ends with a result or an error, which the pool cannot tell
apart. `promise` and `want` are histories for `StickyRoutes`, `turns` for
`TurnsBalanced`. The store is left out: its errors are ignored by these handlers. The
tick bound stops the clock, not the gateway.

A socket keeps the client it got, and `SetSticky` does not move it: `StickyRoutes` asks
of requests that were admitted after the change, which is what the code can give.

**GoProcessor.** A stream is its goroutine; `Get`, `Put`, each pass of the blur and each
atomic increment are steps. A kernel's coefficients are named by the radius they are for,
so that what a pass reads tells whose kernel it was; the pixels of a reply are abstracted
to the coefficients of its two passes, and for the other filters to what border and inside
are made of. `CollectGarbage` is what `sync.Pool` may do at any time. Radii are in sixths,
the unit of the kernel's size. Reports load the counters that are divided by one another.
`ReportsLag` bounds their difference by the streams there ever were, not by those open now:
a report may be slow, and each stream adds at most one frame to what it missed. For the
gateway's calls of one frame that is a weak bound.

**Accounts.** A tab has a page, a path it is navigating to, the calls it has in flight and
at most one login or registration, which passes through `sent`, `answered` (the gateway),
`read` (the browser kept the cookie) and done (the script kept the token). Leaving a page
gives its calls up (`heard`), the gateway goes on with them. A token carries `by`, the
password that was supplied for it, a history for the properties. What a person does is
bounded by `Visits`, where one visit picks the tabs' browsers, the forms and how often each
tab is used. Signatures cannot be forged and passwords not guessed in the model.

**ControlPanel.** Next to `videoDemo` the module keeps what there really is: every
camera, interval and socket, by the call of `startVideoDemo` that opened it. A visit uses
one part of the panel, since the parts share no variable but the mode; the load generator's
sums of latencies and bytes move with its counters and are left out.

Two histories mark where the scripts do lose track. `beside` holds the starts that were
under way together with another one: the later one takes what `videoDemo` refers to, and the
earlier one's camera, interval or socket is left on with nothing to stop it.
`CameraCanBeStopped` speaks of every other start, beside starts that overlapped and across
switches of the mode in any `await`; what such a start has on can be stopped by the button,
unless its `play()` failed, after which the camera is on and the button stays disabled.
`FramesInFlightBounded` holds until two starts overlap. `torn` is a reset of the load
counters between the two counts of a message; `LoadStatsAddUp` is an inequality and does not
tell a request that is counted twice. Each exception is needed: TLC violates the property
without it. `DisplayCatchesUp` is about where the displays end; that an answer of an earlier
refresh may meanwhile replace the person's pick is in the model and contradicts no property.

## 3. Runs

| Run | Bounds, and why they are enough | What it shows |
|---|---|---|
| `arena` | two arenas, block sizes 4 and 6, requests of 3 bytes with an alignment of 4 and one that is no power of two, at an address that is not aligned; three blocks, three allocations, a reset: padding, overflow of a block, requests larger than a block, reuse after reset and moves in both directions all occur | disjoint, backed, aligned regions; exact counters; refinement of `RegionAllocator` |
| `stream` | two streams of three chunks and one, either mode, reset every two frames, a block that holds one frame: a batch, its tail and the first frame of the next batch occur, and two handlers meet in every pair of steps ; reports are read on a stream of three chunks beside one that opens and closes | the shared counters, the peak, one reply per chunk, the bound on use, reports that cover their frames; every handler ends |
| `blur` | widths 1–9, heights 1–3, kernels 3 to 31 taps with registers of 4 | the loops meet: each tap once, each pixel once |
| `filters` | frames of 5×3, registers of 2, both modes, all filters | *violation*: sharpen and edges leave the border to what the arena held |
| `pipeline` | capacity 1 for every queue; three frames of fitting and other sizes with all failures, and ten frames against a client that reads nothing before it has sent all, which fills the nine places between the body and the wire | order, conservation, termination and no leak, refinement of `InOrderPipe` |
| `pipeline_delivery` | two frames, nothing fails | *violation*: a clean end may lose answered frames |
| `lifecycle` | two signals, a call, a scrape, two workers, a port that may be taken: a handler inside the other's, one on another thread and a signal inside `start()` occur, and a call or a scrape is in progress at each. Deadlock is not checked, since the process really may hang (`WaitsForItself`, `Missing`) | the service is destroyed when nobody uses it, what `std::terminate` comes from, a closed listener accepts nothing, exit |
| `lifecycle_silent` | one signal, which finds main waiting and the gRPC server up; one silent metrics client | *violation*: the handler joins the metrics thread for ever and does not come to shut down the gRPC server |
| `rate_limiter` | a bucket of two tokens, four ticks: a full bucket, a held and a pending tick meet in one window, so that the bound is reached (one less is violated) | bursts bounded |
| `gateway` | two processors, two frames, a socket with any number of messages, a prober and an administrator who come repeatedly with the first index, an index that does not exist or a negative one, which means round-robin; one token and one tick, so that a burst is refused and refilled | routing follows `SetSticky`; turns balanced; the pool closes after the requests; a signal ends the process |
| `go_processor` | two streams of two chunks and one: a narrow blur, a filter without a kernel, a refused chunk and a blur whose radius exceeds the kernel buffer of 5; two buffers, one per stream; the pool may be emptied and a signal may come at any moment | replies unmixed, reports that lag by at most the number of streams, no call cut short, a signal ends the process |
| `browser` | seven kinds of visit: one tab for longer than its tokens live, also with a name that has a `:` and with one failure of `/api/me`; two browsers that want one name; two tabs of one browser; one tab that changes its account and sends a frame; and one tab for each part of the panel, with up to three presses of the start button (four frames each for two starts, one for a third) and switches of the mode; three messages; two refreshes in flight and three changes of the gateway | tokens earned, histories one's own, visits that come to rest; cameras that can be stopped, frames in flight, load counters, displays that catch up |

The violations are differences between the code and what its comments, messages or
README say; each has an entry under "findings" with the quoted line. In `pipeline`, the
request with ten frames does get stuck for good when no deadline may pass (set
`slow` to `FALSE` in `MCStreamPipeline`): the deadlines of the HTTP server are what
ends it.

`FilterOutput` has only the violating run: that the blur stores every pixel is
`OutputStoredOnce` of `blur`, and grayscale and the heap variants have no seam.

An arena of several blocks goes back to the first one at a reset and never uses the later
ones again (`memory_arena.cpp:114`): `UseBounded` speaks of bytes in use, not of bytes
owned, and `MemoryArena` shows the blocks left behind as `RegionsDisjoint` allows them.

### Fairness

* `MediaStream`: weak fairness of each handler. Every call has a thread the system
  schedules, and gRPC's `Read` returns when the client ends or is gone. Nothing obliges
  a client to cancel. `StreamsClose` starts at a read: clients send a bounded number of
  chunks in the model.
* `StreamPipeline`: weak fairness of every goroutine, of the processor and of a client
  that reads, and of time (`DeadlinePasses`, only for slow clients). Nothing obliges a
  client to disconnect. A select with two ready cases may take either for ever; no
  property needs more.
* `ProcessorLifecycle`: weak fairness of main, each activation of the handler and the
  metrics thread, and open calls end: `Shutdown()` has no deadline, so without that the process would wait,
  as the code does. No signal has to come. A silent client's `recv` is not enabled and
  gets no fairness.
* `Gateway`: weak fairness of each handler's own steps, whose calls have deadlines, and
  of main once it was signalled (`Stop`; Shutdown's deadline is one of its disjuncts).
  Nobody has to send a request, a message or a signal, and the ticker need not tick.

* `ProcessorLifecycle`'s workers: weak fairness of each, but none of spurious wakeups.
* `GoProcessor`: weak fairness of the goroutines, and calls end: the gateway's contexts are
  cancelled. No chunk, signal, report or garbage collection has to come.
* `Accounts`: what a page asks is answered (the gateway's calls have deadlines), and a
  navigation arrives. Strong fairness of the refusal of `/stats` only: a panel that is left
  and loaded again and again because `/api/me` is refused gives up its other calls each
  time, and the round ends when one such answer comes before the page is replaced. The
  code does not order the two answers; that the later one always loses would need an
  unfair network, and weak fairness alone lets it.
* `ControlPanel`: intervals fire, and answers to polls, refreshes and posts come or fail.
  The person and other administrators need do nothing.

## 4. Proofs

All checked by TLAPS for every value of the constants.

* **`MemoryArenaProofs`** — the inductive invariant is `TypeOK /\ RegionsBacked /\
  RegionsDisjoint /\ CurrentBlockOwned`. Disjointness alone is not inductive: a new
  region starts at the block's offset, so one needs that every region in use ends at or
  below it (`RegionsBacked`), and that `current` points into the blocks that are owned
  (`CurrentBlockOwned`). Lemmas about alignment (`AlignUp` is at least its argument, a
  multiple of the alignment, and less than an alignment away) carry the arithmetic. From the
  invariant: `TypeCorrect`, `RegionsStayBacked`, `NoOverlap`, `CurrentBlockStaysOwned`
  and `Refinement`, that every step of the arenas is a step or a stutter of
  `RegionAllocator`. `RegionsBacked` includes that a block's used part ends inside the block.
  `CountersTellTheBlocks` is about three of the five counters: used and allocated bytes are
  sums over the blocks, and no use exceeds the peak; the lemmas say what a sum does when one
  block is appended, filled or emptied. Allocations and resets are only counted.
* **`MediaStreamProofs`** — reports only read (`ReportsOnlyRead`), so everything is proved of
  `Init /\ [][Next]_vars` and carried over to `ScrapeSpec`; and of a step of one stream,
  since the others' parts of the invariants only look at what that step leaves alone.
  `Places` says how many chunks are unanswered where the handler stands, hence
  `RepliesFollowChunks`. `Budget` counts the frames of the batch that the arena holds, the
  one in the works included, and each takes at most `LargestFrame`: hence
  `ArenasWithinBatch`. `Covered` and `PeakSource` bound the published peak from both sides;
  what a handler has `seen` is at most the peak, because the peak never falls
  (`PeakIsPublished`). `CountersExact` is inductive with `Places`: a step moves its own
  stream in or out of the sets it counts. `FramesAllocated` says the frames counted, and
  those about to be, are covered by allocations; with `ReportSoFar`, which compares the
  loads made so far with the counters now, it gives `ReportsCoverFrames`. What an arena does
  with a frame's requests comes from an instance of `MemoryArenaProofs`.
* **`BlurPassesProofs`** — the invariant says where each loop can be: the taps added so
  far are the first k, the pixels written are the first `y * width + x`, and the vector
  loops stand at multiples of the register size. Hence `TypeCorrect` (no store outside
  the frame), `TapsMeet`, `TempIsComplete` (which no run checks) and `OutputIsComplete`.
* **`GatewayProofs`** — of the limiter, `BurstBounded` is not inductive: tokens in the
  channel, the tick the goroutine holds and the pending one are admissions still to come.
  `BudgetKept` counts them, and
  `TypeOK /\ BudgetKept` is inductive; the gateway's steps change the limiter only by its
  own actions. Of the pool, `PoolInv` says where each kind of request can be and what
  client it has got there (`Places`, `Gotten`); with the read lock's holders it is
  inductive, hence `PoolTyped`. `ShutdownFits` adds that once Shutdown returned in time no
  request it waits for is in progress, and none can begin (`ConnectionsOutliveRequests`).
  `TurnsFit` says that the turns are the counter's quotient and remainder (`TurnsAreFair`).
  `StickyFits` says that a promise stands only while no `SetSticky` is between its test and
  its store, and is kept at every place a request passes (`StickyIsHonoured`).
* **`StreamPipelineProofs`** — `FramesConserved` says what the queues and hands make up
  together; the invariant says where each of them starts and ends (`Follows(s, i)`: s holds
  i + 1, i + 2, ...), so that a step only moves a boundary. `Forward` is the way of the
  frames: nothing is missing while the sender runs, and when it has ended either all is
  sent or the call has failed. `Backward` is the way of the results, unbroken while the
  connection is open and the handler has not given up; `Cancelled` says that the context
  ends only with one of the two, which is why the receiver never drops a result before.
  What reached the client or the wire follows in order whatever fails, hence `Refinement`.
* **`ProcessorLifecycleProofs`** — the invariant ties the places of main, the activations
  of the handler, the metrics thread and the server together: who runs `stop()` is still
  there (`Acts`, `StopperFits`), the thread is born inside `start()` and is joined only when
  it has ended (`ThreadFits`), calls are open only while the server is up or draining
  (`ServerFits`), and a thread that accepts after the close finds the listener closed
  (`ListenerFits`, hence `ClosedMeansClosed`). `ServiceIsUsedNoMore` is `ThreadFits` and
  `ServerFits` read where main destroys the service. `TerminateHasCauses` needs `CausesFit`:
  a thread that nobody will join any more, or that is joined elsewhere than on main, has one
  of the three causes behind it. Signals on any threads and silent clients are allowed: they
  keep the process from ending, never the order.
* **`GoProcessorProofs`** — three invariants. `ProcessFits`: calls are opened only by a
  server that serves, hence `CallsEnd`. `KernelInv`: a buffer is held by one stream or lies
  in the pool, never both (`Sharing`), and what a stream has computed so far is what its
  chunk would give alone (`Own`), hence `OwnReplies`. `CountInv`: two counters differ by at
  most the number of streams whose place lies between their increments (`CountersFit`),
  and what a report has loaded is no more than what the counters are now (`ReportFits`);
  the loads come in the order of the increments, hence `LagIsBounded`.
* **`ControlPanelProofs`** — first the accounts alone (`TokensEarned`, `HistoriesOwn`).
  That the tokens at rest are earned is not inductive: a token may be
  on its way to the browser while its tab leaves, and a row of `runs` may be written after
  the tab logged in as somebody else. The invariant says it of cookies, storage, scripts,
  answers and calls (`JarFits`, `TabsFit`), that names and ids are unique (`UsersFit`), and
  that each run carries the password of the account it is stored under (`RunsFit`).
  The panel's actions use the accounts only by their own operations, so the same invariant
  holds of `PanelSpec` (`PanelKeepsAccounts`). `LoadCountsFit` needs the messages that were
  counted as requests and not yet as outcomes: their number joins the sum in `LoadFits`.
  For the camera stream, that what is on can be stopped is not inductive: a start takes its
  camera, socket and interval one after the other, and each time replaces what `videoDemo`
  refers to. `SoloFits` says of each start that overlapped with no other that what it holds
  is referred to (`Referenced`) and that the button can stop it (`Stoppable`); it needs that
  a start which finds an earlier one under way makes both overlap (`Aside`), and that what
  such a start held is gone once a later one has begun (`Cleared`), since that one stops it
  first: hence `CamerasAreStopped`. `VideoFits` adds, as long as no two starts overlapped,
  that only the last one is under way (`LastStarts`) and finds free what it is about to take
  (`Free`). Then `FramesFit` bounds what the socket in use has unanswered when
  `pending` is not set; a late end that clears the flag is an earlier socket's
  (`LastUsed`), which from then on counts as closed: `FramesInFlight`.

Assumptions are those of the modules (`ArenaAssumption`, `MemoryArenaAssumption`,
`MediaStreamAssumption`, `BlurAssumption`, `RateLimiterAssumption`,
`ProcessorPoolAssumption`, `GatewayAssumption`, `StreamPipelineAssumption`,
`ProcessorLifecycleAssumption`, `GoProcessorAssumption`, `AccountsAssumption`,
`ControlPanelAssumption`): sizes, alignments, rates, register widths and bounds are numbers,
the sets of streams, chunks and buffers are finite, the frames' requests come from a finite
set (so that there is a largest one), the kinds of requests are disjoint, there is a buffer
for each stream (a `sync.Pool` makes one when it has none), and visits have the fields the
tabs ask for. TLC evaluates them in the runs.

Induction over data. The library's induction theorems take an operator, which the installed
backends cannot instantiate. Where a sum over a set or a fold over a sequence is needed, the
proofs use a property as a set instead: `SetInduction` and `NumberInduction` say that a set
of subsets, or of numbers, that contains the first and with each the next one contains all;
they follow from the well-foundedness of strict inclusion, by a least counterexample.

Only model-checked: all liveness (`StreamsClose`, `HandlerReturns`, `NoLeak`, `SignalStops`,
`PoolEnds`, `ShutdownEnds`, `SignalEnds`, `VisitsSettle`, `DisplayCatchesUp`), which is out of the
prover's reach, and the violations. Every safety property of a passing run is a theorem.

## 5. Not modelled, and why

* `ThreadPool::enqueue`: nothing calls it.
* The store's `auth_sessions`, which is written at a login and never read; the order and
  the limit of a history's rows.
* `HandleAdminProcessorsStats` and `HandleRuntime` of the gateway, which read and print;
  the demo pages, whose scripts poll and draw as the panel's do.
* The Go processor's frame and temp pools, which nothing uses, and its gauges.
* ArenaMarker and ThreadLocalArena: nothing in the processor uses them.
* The arithmetic on pixel values and floating point; `size_t` overflow; the use of a
  `nullptr` output; data races on descriptors. Prometheus counters of the gateway; logging.
* The HTTP and gRPC libraries, modelled only from how the code uses them.
* Generated code, deployment and dashboards.

## 6. Plan

The order in which the modules were built is the order of section 2: the arena and the
handler that uses it, the stream through the gateway, the two processes' ends, the pool
and the requests around it, and last what a browser does. What is left:

1. Proofs beyond the runs' properties: the places a stream handler of the C++ processor and
   a request of the gateway go through as the steps of an abstract handler, and the
   invariants that the liveness arguments rest on (a lock that is waited for has a holder
   who does not wait, a queue that is full has a reader).
2. Reads that are left out: the processors' statistics page and `HandleRuntime`
   (`handlers.go:622-706`) and the demo pages, as callers of the pool that hold no state.
3. Larger instances: two administrators in `Gateway`, a second panel that is open at the
   same time, three streams of the Go processor.
4. A build without AVX2 for `BlurPasses`, whose scalar loops have no seams but other bounds.
