# TLA+ models of the MapReduce master and workers, the Gee router and the geerpc server (Let-s-Go)

This directory models the `mr` package of the repository with TLA+ and checks
it with TLC. The package is a MapReduce master in `src/unnamed/part_000` lines 1–229
(`master.go`) and workers in `src/unnamed/part_001` lines 45–264 (`worker.go`).
The Gee web framework's router (`router.go`, `src/unnamed/part_000` lines
271–365) and its engine and router groups (`gee.go`, `src/unnamed/part_002` lines
56–185) are modelled as well, with the routing trie (`trie.go`,
`src/Geektutu/Gee/main.go` lines 71–136) and the geerpc server (`server.go`,
`main.go` lines 137–389). The rest of `src/` (Recovery, the geerpc codec, the
test script, the example server in `main.go` lines 1–70) is inventoried below
and is not modelled.

## 1. Inventory

### Components

| Component | Source | State | Operations |
|---|---|---|---|
| Master | part_000 1–229 | `TaskQueue` (buffered channel, capacity `max(nReduce, len(files))`), `TaskMeta` (id → status, StartTime, TaskPtr), `Phase`, `InterMediates` (bucket → file list), the global mutex `mu` | `MakeMaster`/`createMapTask`, `AssignTask`, `TaskCompleted`, the `processTaskResult` goroutine, `createReduceTask`, `allTaskDone`, the `catchTimeOut` goroutine, `Done` |
| Worker | part_001 45–264 | the current task; files on the local disk | the `Worker` loop, `getTaskFromMaster`, `mapper`, `reducer`, `writeToLocalFile`, `readFromLocalFile`, `taskCompleted`, `call` |
| Test script | part_002 1–55 | — | starts one master and two workers, then compares the output with the sequential one |
| Gee router | part_000 271–365 | `roots` (method → trie), `handlers` (key → handler) | `parsePattern`, `addRoute`, `getRoute`, `handle` |
| Gee engine | part_002 56–185 | groups (prefix, middlewares, parent), router, templates | `New`, `Group`, `Use`, `addRoute`, `GET`/`POST`, `Static`, `ServeHTTP` |
| Gee trie | main.go 71–136 | `Node` (pattern, part, children, isWild) | `matchChild`, `matchChildren`, `insert`, `search` |
| geerpc server | main.go 137–389 | `serviceMap`; per connection the sending mutex, the WaitGroup and, per request, the `called`/`sent` channels | `Register`, `findService`, `ServeConn`, `serveCodec`, `readRequest`, `handleRequest`, `sendResponse` |
| Gee Recovery | part_000 230–270 | — | `trace`, the `Recovery` middleware |
| geerpc codec | part_001 1–44 | `NewCodecFuncMap` | `init` |
| Gee example | main.go 1–70 | — | route set-up |

### How the parts interact

Workers call the master over net/rpc. The calls are synchronous. Every master
handler takes the package-global `mu` for its whole body, so each handler runs
as one atomic step. There are four kinds of concurrency:

- Several workers run their loops at the same time.
- Each accepted `TaskCompleted` spawns a `processTaskResult` goroutine. That
  goroutine takes `mu` again later, so the merge and the phase change are
  decoupled from the report.
- The `catchTimeOut` goroutine runs a sweep every 5 seconds. Each sweep re-queues
  every task that has been InProgress for more than 10 seconds. It never cancels
  the worker that is still running the task.
- Workers share the local disk. Each one writes temp files and renames them to
  `mr-<map>-<bucket>` and `mr-out-<bucket>`.

### What is hard

- Late goroutines, late reports and re-queued tasks can interleave in any order.
- Worker processes can die at any step.
- A task can be executed twice.
- The channel is bounded, and it is written while `mu` is held.
- A task popped from the channel is looked up in whichever `TaskMeta` is
  current, whatever phase the task belongs to.

### Properties that make the system correct

- Every key reaches exactly one output file, with all of its values.
- Results are merged at most once.
- The phase moves only when every record is Completed, and Exit is terminal.
- The master never blocks and never crashes.
- Every file a reducer reads exists.
- `Done()` eventually becomes true.

The geerpc server is concurrent on its own. `serveCodec` reads requests
in a loop and starts one `handleRequest` goroutine per request, and each of
those starts one more goroutine that calls the service. Responses from all of
them, and `serveCodec`'s own reply to a request whose body does not decode,
share the connection. The `sending` mutex keeps each header and body together.
A `WaitGroup` holds the close back until every `handleRequest` returns. With a
`HandleTimeout` in the client's Option, `time.After` races the service call
in a `select`.

For geerpc the properties that matter are:

- Responses never interleave on the wire.
- A request gets at most one response, even when its timer races the call.
- The connection closes only after every accepted request is answered.
- Every goroutine returns.

The hazards behind these properties are listed, each at its source line, under
`hazards` in `PROJECT.json`.

## 2. Modules

- **`MRCoordinator.tla`**: the master.
  - Variables:
    - `queue` is `TaskQueue`.
    - `meta` is `TaskMeta` (status and TaskPtr).
    - `order` lists the InProgress ids by StartTime.
    - `phase` is `Phase`.
    - `inter` is `InterMediates`.
    - `pending` is the bag of tasks whose `processTaskResult` goroutine has
      not yet run.
    - `sweeping` means the `catchTimeOut` goroutine is alive.
    - `hung` means a channel send is blocked while `mu` is held.
    - `panicked` means the master died of a nil `TaskMeta` dereference.
  - Actions follow the handlers:
    - `AssignTask` has three outcomes: pop, panic, or Wait/Exit.
    - `TaskCompleted` has three outcomes: stale phase, duplicate, or accept.
    - `ProcessMapResult` and `ProcessReduceResult` are the two branches of
      `processTaskResult`.
    - `CreateReduceTask` either fits in the channel or overflows it.
    - `CatchTimeOut(k)` and `CatchTimeOutReturn` are the sweep.
  - Time is abstracted to dispatch order. Ages only grow, so the tasks older
    than the threshold are always the k oldest InProgress ones.
  - The sweep visits the records in Go's random map order. The model picks that
    order with `\E` over the permutations.
- **`MapReduce.tla`**: extends the master with the workers and the disk.
  - Variables:
    - `wstate[w]` holds the worker's position in its loop and its task.
    - `files` is the set of intermediate files renamed into place.
    - `out[r]` is the content of `mr-out-r`, given as the files it was reduced
      from.
  - Actions:
    - `GetTaskFromMaster` and `ReportTask` are joint steps of one worker and
      the master.
    - `Mapper`, `Reducer` and `Sleep` are worker steps.
    - `CallFails` is `os.Exit` when the master is gone.
    - `WorkerCrash` is the environment killing a worker.
    - `ProcessTaskResult` is a goroutine step.
    - `Reclaim` is a sweep that finds stale tasks.
  - Data is abstracted to provenance. A file is named by (map id, bucket), and
    its content is fixed because `mapf` and `ihash` are deterministic. An output
    is the sequence of files its reducer read. The sort and group of `reducer`
    and the JSON encoding are therefore left out.
  - Each worker write of R files, or of one output, is collapsed into one step.
    Each file is renamed atomically. A crash part-way through leaves only files
    whose content is always identical, and no reader looks at a file before it
    is reported.
  - `Job` instantiates `MRJob` with the phase and the Completed records of
    the current `TaskMeta` as its completed tasks. `ImplementsJob` is
    `Job!Spec`.
- **`MRJob.tla`**: the job spec.md promises. `phase` and `done` change by
  `Complete(i)`, a task of the current phase completed, and by `Advance`,
  once every task of the phase is done. The Reduce phase starts with no task
  done, and Exit keeps the Reduce tasks done.
- **`GeeRouter.tla`**: the Gee engine and router.
  - Variables:
    - `groups` is `engine.groups`: prefix, middlewares and parent index.
      `groups[1]` is the engine's own group with the empty prefix.
    - `roots[m]` is method m's trie, a `GeeTrie` value.
    - `handlers` maps the key `<<method, pattern>>` (the code's
      `method-pattern`) to the handler: the group whose GET, POST or Static
      registered it, and for `createStaticHandler`'s handler the
      `absolutePath` its `StripPrefix` removes. A later registration of the
      same key replaces it, as in the Go map.
  - Actions are the registration calls: `Group`, `Use`, `AddRoute`
    (`RouterGroup.addRoute`, through GET or POST) and `Static`. The last two
    call `RouterAddRoute` (`router.addRoute`: trie insert and handler key).
    `Static` registers `PathJoin(relativePath, "/*filepath")` with the root
    `StaticRoot`, which is `path.Join(prefix, relativePath)`.
  - `PathClean` and `PathJoin` are `path.Clean` and `path.Join` on
    strings without `.`. `StripsPrefix`, `ServedName` and `DirName` are
    what `http.StripPrefix`, `http.FileServer` and `http.Dir.Open` do with
    the names. The parameter name `filepath` is the one-character name `b`.
  - Requests are not actions. Registration runs before `Run`, and
    `ServeHTTP` only reads the engine. Each request is therefore a pure
    function of the state, and the properties quantify over every request
    path up to 5 characters:
    - `SearchResults` is `getRoute`'s call of `search`.
    - `GetRoute` is `getRoute` with its parameter-binding loop, `BindParams`.
      `IndexInRange` is the condition under which that loop does not index
      `searchParts` out of range.
    - `ServeMiddlewares` is `ServeHTTP`'s selection loop.
    - `HandlerKey` is `handle`'s lookup.
  - Strings are sequences of characters over `/ a b : *`. This is because
    `strings.Split`, `strings.HasPrefix`, `strings.Join` and the prefix
    concatenation decide the behaviour. `Split`, `Join` and `parsePattern`
    are RECURSIVE operators.
- **`GeeTrie.tla`**: the routing trie as pure operators.
  - A trie is a function from node positions to nodes. A position is the
    sequence of parts from the root, so `n.part` is the last one. A node is
    `[pattern, children]`, with children listed in insertion order, which is
    the order `matchChild` and `matchChildren` scan.
  - `Insert` and `Search`/`SearchChildren` are RECURSIVE, step for step as
    `insert` and `search`. That includes `matchChild` returning the first
    wild child for any part, and `search` stopping at a `*` node.
- **`GeeRPCServer.tla`**: one geerpc connection and the `Register` calls.
  - Connections share only `serviceMap`, so one connection racing `Register`
    shows everything a connection can meet.
  - Variables:
    - `opt` is the client's Option, including `HandleTimeout`.
    - `stream` is the client's messages: requests, then EOF.
    - `serviceMap`: service name → method names.
    - `lpc` is where `ServeConn`/`serveCodec` is, and `rd` is the next
      message it reads.
    - `reqState[i]` is what `readRequest` made of request i.
    - `hpc[i]` is where `handleRequest` is, and `gpc[i]` is where its
      service-calling goroutine is. `gerr[i]` means the call returned an error.
    - `lock` is the holder of the `sending` mutex, `wg` is the WaitGroup
      counter, and `wire` is the frames written.
    - `failed` is the requests whose `cc.Write` returned an error.
  - Actions:
    - `ReadRequest` has four outcomes: end of stream, `findService` failure
      (nil request, break), unreadable body (reply, continue), or
      `wg.Add` and `go handleRequest`.
    - A send on the unbuffered `called` or `sent` channel is a joint step of
      both goroutines: `Receive` and `Sent`.
    - `Timeout` is the `time.After` case firing, at any point while the
      `select` waits.
    - `sendResponse` is three steps, lock, header and body-and-unlock,
      because `cc.Write` encodes the header and the body in turn. It appears
      in `InvalidLock/Header/Body`, `CallerLock/Header/Body` and
      `TimeoutLock/Header/Body`.
    - Fault model: `cc.Write` (main.go:352) may fail, at most `MaxWriteFails`
      times. The codec is not in `src/`, so the failure is a choice: nothing
      is written (`WriteFails` in the header step), or the header alone
      (`WriteFails` in the body step). After a failure the remaining frame is
      skipped. `sendResponse` only logs the error and its deferred `Unlock`
      still runs, so the body step releases the mutex on every branch.
  - Data: service and method names are character sequences, because
    `findService` splits at the last `.`. A body is `ok` or `bad`, and a
    service call returns an error or not.
- **`GeeRPCResponses.tla`**: the abstract connection. Requests are accepted,
  each is answered by one whole response at most once, and the connection is
  closed after all of them. `GeeRPCServer` maps onto it:
  - `pending` is the requests `readRequest` returned.
  - `responses` is the wire read two frames at a time.
  - `lost` is `failed`; its `Lose` action is a write failing.
  - `closed` is `lpc = "closed"`.
- **`MC_GeeRouter.tla`**: gives the strings passed to `Group` (`/a`) and to
  GET/POST (`/:b`, `/*b` and `/ab`) as definitions.
- **`MC_GeeRPCServer.tla`**: two receivers both named `S`, so the second
  `Register` hits the duplicate case. It defines four service methods (`S.M`,
  `S.N`, the unknown `T.M` and the ill-formed `SM`) and five Options: valid
  with and without a timeout, a wrong magic number, the JSON codec (not
  registered), and bytes that do not decode.
- **`MC_MapReduce.tla`**: instantiates the model for TLC and defines symmetry over
  the workers, who run identical code.

## 3. Runs

All runs use two workers. CHECK_DEADLOCK is FALSE everywhere for two reasons:
the job really stops (workers exit and the goroutines finish), and the one real
deadlock, the blocked send, is checked as part of `MasterServes`.

| Run | cfg | Bounds | Checks | Result |
|---|---|---|---|---|
| faults | MC_faults.cfg | 2 files, 1 bucket, 1 worker death, 1 sweep | TypeOK, ResultsOnDisk, SweepHasRoom | pass (106k states) |
| live | MC_live.cfg | 2 files, 2 buckets, no deaths, no timeouts | Termination under weak fairness | pass |
| lost_output | MC_lost_output.cfg | 2 files, 2 buckets, no faults | OutputCorrectAtDone | violation |
| double_merge | MC_double_merge.cfg | 2 files, 1 bucket, 1 sweep | MergeAtMostOnce | violation |
| halt | MC_halt.cfg | 2 files, 1 bucket, 1 sweep | MasterServes | violation |
| job | MC_job.cfg | 2 files, 2 buckets, no faults | ImplementsJob (refines `MRJob`) | violation |
| gee | MC_gee.cfg | 2 groups, 1 middleware each, 2 routes or Static calls, paths ≤ 5 chars | TypeOK, GetRouteIndexInRange, StaticServesCheckedFile | pass (486 states) |
| gee_prefix | MC_gee_prefix.cfg | same | MiddlewaresScoped | violation |
| gee_unreachable | MC_gee_unreachable.cfg | same | RoutesReachable | violation |
| rpc | MC_rpc.cfg | 1 connection, ≤ 2 requests, 5 Options, 2 receivers, ≤ 1 failed write | TypeOK, WireFramed, AtMostOneResponse, ResponseBeforeClose, Termination, GoroutinesFinishNoLimit, ImplementsResponses | pass (16180 states) |
| rpc_leak | MC_rpc_leak.cfg | same, no failed write | GoroutinesFinish | violation |
| rpc_no_reply | MC_rpc_no_reply.cfg | same, no failed write | EveryHeaderAnswered | violation |

### What the results show

- **The master's bookkeeping matches the disk (`ResultsOnDisk`).** Whatever the
  master accepted is on disk, and a reducer never reads a missing file. This
  holds across worker deaths, time-outs and duplicate runs.
- **Sweeps never block (`SweepHasRoom`).** The timeout sweep's sends never block:
  queued tasks plus InProgress records never exceed the channel's capacity. The
  blocked-send branch of the sweep is therefore dead code, and the model leaves
  it out.
- **Five bugs in `master.go` (the `findings` in `PROJECT.json`):**
  - The deferred merge loses a Map task's output, even without any fault
    (`lost_output`).
  - Re-queued tasks let a Completed record return to InProgress, and its files
    are then merged twice (`double_merge`).
  - Stale tasks fill the channel, and `createReduceTask` blocks with `mu` held.
    In the same configuration, a stale Map task popped in the Reduce phase
    dereferences nil. `halt` checks both as `MasterServes`; TLC's shortest
    trace is the blocked send.
  - The master does not implement the job of spec.md sections 3 and 4.1
    (`job`), even with reliable workers. `MRJob.tla` says the phases run
    Map, Reduce, Exit, a Completed record stays Completed, and Map → Reduce
    fires once. Its refinement mapping takes the Completed records of the
    current `TaskMeta` as the job's completed tasks. A Map result whose
    goroutine gets `mu` after the phase became Reduce still runs the Map
    branch of `processTaskResult`. There `allTaskDone` reads the Reduce
    records. Once they are Completed, it calls `createReduceTask` again,
    which resets them to Idle and queues every Reduce task a second time.
    The same late goroutine, run after Exit, can also set the phase back to
    Reduce.
- **`getRoute` never indexes out of range (`GetRouteIndexInRange`).** The
  node the real trie search returns never has more parts than the request.
  `insert` stores a pattern at the depth of its parts, and `search` stops
  there or at a `*` node.
- **The static handler serves what it checked (`StaticServesCheckedFile`).**
  `Static` routes `prefix + path.Join(relativePath, "/*filepath")`, but
  `createStaticHandler` strips `path.Join(prefix, relativePath)`. For every
  sequence of Group, Use, GET and Static calls, take a request that is under
  the static directory, is routed to the static handler and passes
  `StripPrefix`. FileServer serves it the file `fs.Open(c.Param("filepath"))`
  checked. Two cases lie outside the property and are listed as hazards:
  - `getRoute` parses the request path with `parsePattern`, which stops
    after a `*`-led segment. For `/b/*/a`, `filepath` is `*`, so the handler
    checks `/*` but serves `/*/a`.
  - `StripPrefix` compares strings, while the router matches segments.
    After `GET /:b` and then `Static("/b")`, the request `/bb/x` reaches the
    static handler through the wild node. It passes `StripPrefix("/b")` and
    is served `/b/x`, after `/x` was checked. `//b/x` passes the check and
    gets 404.
- **Two bugs in Gee:**
  - `ServeHTTP` selects middlewares with `strings.HasPrefix` on the raw path
    (`gee_prefix`), but routing goes through `parsePattern`'s segments. With
    the `/a` group and a root route `/*b`:
    - `/ab` runs the `/a` group's middleware.
    - `//a` is routed as `/a` and skips it. This is an authentication bypass
      if the middleware checks credentials.
  - `insert` descends into whatever child `matchChild` returns, and that
    includes a wild child for any part (`gee_unreachable`). TLC reports
    one of two shortest traces, depending on the workers' interleaving:
    - After `GET /*b`, `GET /:b` lands on the `*b` node and overwrites its
      pattern. `/*b` becomes unreachable, its handler key is orphaned, and
      the one-segment route `/:b` now serves `/b/b`.
    - After `GET /*b`, a group `/a` registers `GET /*b`. Its part `a`
      descends into the `*b` node, so `/a/*b` is stored below it. `search`
      stops at a `*` node, so `/a/*b` is never returned: `/a/b` is served
      by `/*b`, and the `/a` route's handler is unreachable.
- **geerpc responses are framed and answered once.** `rpc` checks every
  interleaving of two requests' `handleRequest` goroutines, their service
  calls, their timers, the loop's invalid-request reply, `Register` and one
  failing `cc.Write`:
  - `WireFramed`: every body follows its own request's header; a header
    without a body is one whose write failed.
  - `AtMostOneResponse`: a request racing its timeout is answered once. The
    unbuffered `called` channel stops the late goroutine.
  - `ResponseBeforeClose`: `wg.Wait` holds `cc.Close` until every handled
    request is answered or its write failed.
  - `ImplementsResponses`: the connection refines `GeeRPCResponses`, a
    failed write being a lost response.
  - Liveness under fair scheduling: the connection always closes
    (`Termination`); a failed write does not wedge it, because the deferred
    `Unlock` releases the mutex. Without a timeout, both goroutines of every request
    return (`GoroutinesFinishNoLimit`).
- **Two bugs in geerpc:**
  - With a timeout, once `time.After` wins the `select`, nothing receives
    on `called`. The goroutine that called the service blocks forever at
    main.go:325, one leak per timed-out request (`rpc_leak`).
  - A request for an unknown or ill-formed service gets no response
    (`rpc_no_reply`). `readRequest` returns a nil request (main.go:301), so
    `serveCodec` breaks and closes the connection. The comment at the
    invalid-request branch says such a request is answered with the error.

### Why the bounds are enough

- Two files and two workers are the smallest setting where two reports can race.
- One bucket with two files makes a stale Map id fall outside the Reduce ids,
  which is the panic case. It also fills the channel (capacity 2).
- One sweep is enough to re-queue both Map tasks, and each bug above needs at
  most one.
- With two sweeps or two buckets the faults run grows past ten million states.
- **Gee.** Two groups with one middleware each and two routes are enough to
  register a group route next to a root route. The strings are chosen so that
  every case occurs: `/a` against `/ab`, a parameter, a wildcard, and a
  group's pattern built by concatenation. Paths of up to 5 characters include
  `//a` and `/b/b`. `Static("/")` and `Static("/b")`, in either group, put
  the wildcard at a group's own prefix and one segment below it. The route
  `/*b` that `Static("/")` registers is also one of the GET routes, so a
  static handler can be replaced by a plain one. CHECK_DEADLOCK is FALSE because registration stops when
  the bounds are used up, after which the server only serves requests.

- **geerpc.** Two requests are the fewest that can race for the mutex, have
  one answered while the other times out, and mix a handled request with an
  invalid one. Two receivers of one name reach `Register`'s duplicate case.
  The four service methods cover every `findService` outcome, and the five
  Options cover every `ServeConn` outcome. One failed write reaches both
  failure points and a failure racing the other request's send. Three
  requests take about 4 min 14 s (452 206 states), so the run keeps two.
  CHECK_DEADLOCK is FALSE because
  the server stops once the connection is closed.

Each property of the passing runs has a mutant: a plausible bug in a mapped
definition that TLC then catches (`mutants` in `PROJECT.json`).

### Fairness

- **Workers.** Each worker's loop steps are weakly fair: the loop calls again
  after every reply.
- **Goroutines.** The master's goroutine steps are weakly fair: `mu` is released
  after every short handler.
- **geerpc goroutines.** `serveCodec`, each `handleRequest` and each calling
  goroutine is weakly fair. The Go scheduler runs a runnable goroutine, a
  service method returns, and a started `time.After` timer fires. `Register`
  is the application's call and is not assumed to happen.
- **Not fair.** Crashes and reclaim sweeps are environment events and are not
  fair. `Termination` is checked only without them: with them, the hang and
  panic runs already show that the job can stop making progress.

## 4. Not modelled, and why

- **The RPC transport, socket set-up and the `Example` handler.** They are I/O,
  out of scope in spec.md section 1.
- **Keys, values, `ihash` and `mapf`/`reducef`.** They are abstracted to file
  provenance. Determinism of the partition is assumed, as spec.md section 4.2
  states.
- **`getTaskFromMaster` on a failed call.** It returns the zero Task, a Map task
  with Input "", and `mapper` then exits the worker. This is folded into the
  worker's death.
- **Gee templates, `Run` and file contents.** `SetFuncMap`, `LoadHTMLGlob`
  and `Run` are template set-up and I/O. `Static` is modelled only up to the
  file names it strips, opens and serves. `path.Clean`'s `.` and `..` rules
  are left out because the alphabet has no `.`.
- **Recovery.** It formats a stack trace, and the model has no panics inside
  handlers to recover from.
- **geerpc codec.** It is a registration table filled in `init`. The gob
  codec's `Read`/`Write` are not in `src/`. A header or body is one frame
  that is read whole; a write either succeeds whole or fails as described
  under `GeeRPCServer.tla`.
- **geerpc `Accept` and several connections.** Connections share only
  `serviceMap`, and one connection racing `Register` covers that. Reflection
  (`newArgs`, `call`) is reduced to the call's error result.
- **The example server (`main.go` 1–70).** `main` registers four fixed
  routes, `Logger`, `Recovery` and templates, then calls `Run`. Its routes do
  not overlap, so registration is a special case of the `gee` run.
  `/panic`'s out-of-range index needs `Context` and `Logger`, which are not
  in `src/`.

## 5. Further work

1. **Done.** MRCoordinator and MapReduce with the runs above.
2. **Done.** `MRJob.tla`, checked by the `job` run, which fails because of
   the late-goroutine bug. Exact outputs remain `OutputCorrectAtDone`.
3. **`MapReduce` with more data.** Three files, two buckets, and a state
   constraint to reach the reclaim-during-Reduce paths.
4. **Done.** `GeeRouter.tla` and `GeeTrie.tla`, with the gee runs above.
5. **Done.** `GeeRPCServer.tla`, refining `GeeRPCResponses.tla`, with the rpc
   runs above.
6. **Done.** Gee `Static`, in the gee run.
7. **geerpc with three requests.** This is not needed for any property above,
   but it would show the mutex under three writers. Measured at 452 206
   states and about four minutes, it needs a state constraint or a smaller
   Option set to fit beside the other runs.
