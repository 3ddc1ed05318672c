# TLA+ models of code_portfolio

This directory holds TLA+ models of the programs under `src/`, the TLC configurations that
check them, and `PROJECT.json`. `PROJECT.json` is the machine-readable index:
- components;
- runs, with their expected results;
- mutants;
- the map from each definition to the source lines it translates;
- findings and hazards.

## The system

| Part | Source | What it is | Concurrency / state |
|---|---|---|---|
| Allocator | `src/Malloc_library/...mm.c` | A malloc/free/realloc/calloc library. Blocks have boundary tags, a "previous block free" bit (bit 1 of the header), seven segregated explicit free lists (FIFO at the tail), eager coalescing and a cached `largestfree`. The heap grows through memlib's `mem_sbrk`. | Single-threaded. The state is the heap words plus the globals `heap_listp`, `free_list[7]`, `endofflist[7]` and `largestfree`. |
| Tiny shell | `src/Tiny_Shell/...tsh.c` | A shell with job control. It keeps a job list and runs fg/bg/jobs. A SIGCHLD handler reaps or marks children; SIGINT and SIGTSTP are forwarded. | The main loop interleaves with asynchronous signal handlers that write the same job list. |
| Cache simulator | `src/Cache/csim.c` | Sets of lines with LRU counters; `findminmax` picks the victim. | Sequential; a state machine over the records of a trace. |
| Transpose | `src/Cache/trans.c` | Blocked matrix transposes. | Pure functions. |
| Proxy | `src/Proxy/proxy.c` | An HTTP proxy with one thread per connection. | Detached threads share the process: the heap-allocated connfd, and one exit when a csapp wrapper fails. |
| K-means | `src/Distributed_K_Means_MPI/points_par.c` (MPI), `points_seq.c`, `DNA_seq.c` | Clustering of points and DNA strands. | The MPI version has a root and workers that exchange tagged messages each iteration. |

The parts do not call one another. Each is a separate program.

## What is modelled: the allocator

- `Malloc.tla` models `mm.c`.
  - The heap is the function `mem` from word index to word value. `brk` is the break.
  - The variables `heap_listp`, `free_list`, `endofflist` and `largestfree` are the C globals.
  - Headers, footers and the next/prev links of free blocks are stored in `mem` at the byte offsets the C code uses. Because of this, a wrong offset in the code is a wrong offset in the model.
- Every helper is an operator that maps a heap record to the next one. The operators are composed in the order the C code calls them. A heap state that is used more than once is passed to a small named operator rather than bound by `LET`; for example, `SplitRest` is the tail of `place` and `MergeInto` the tail of coalesce cases 2–4. This keeps each intermediate heap written once and keeps TLC's coverage analysis linear. The helpers are:
  - `pack`, `get_size`, `makeprefree`, `remprefree`, `write_header`, `write_footer`;
  - `insertblock`, `removeblock`, `coalesce`, `extend_heap`, `mm_init`, `find_fit`, `place`.
  - Calls whose only effect is a printout (`mm_checkheap(1)` inside the helpers, `dbg_printf`) change nothing and are omitted.
- Each public call (`malloc`, `free`, `realloc`, `calloc`) runs to completion, so each is one atomic action, and it includes everything the call does.
- The client only frees or reallocates pointers it holds. `live` records them, with the size asked for. `last` records the last call, so that action properties can refer to it.
- `calloc(0, n)` traps. The model records the trap as `last.op = "SIGFPE"`, after which the process takes no more steps.
- `size_t` arithmetic is taken modulo `2^SIZE_BITS`, so that the overflow in `malloc`'s size adjustment is real in the model.
- `mem_sbrk` is not in `src/`. It is modelled from memlib's contract: it fails when the heap would pass `MAX_HEAP`.
- `AbstractAllocator.tla` is what the allocator promises, with variables `live` and `owned`:
  - an allocation gets a fresh, 16-byte aligned payload that is large enough and disjoint from every other payload;
  - a free takes back exactly that payload;
  - realloc does both at once, or nothing when it fails.
- `Malloc` maps onto `AbstractAllocator` by walking the heap. `owned` maps each allocated block's payload to its usable size.
- `MCMalloc.tla` gives the constants for TLC.

### Runs

| Run | cfg | Expect | Shows |
|---|---|---|---|
| heap_invariants | MCMalloc.cfg | pass | Holds over all sequences of calls on a heap of up to 176 bytes grown 32 bytes at a time (requests 0, 24 and 68, and calloc 2×12 and 2×2^15 overflow): the implicit block list walks to the epilogue at the break; free blocks' footers agree with their headers; every prefree bit is accurate; no two neighbours are free; each segregated list holds exactly the free blocks of its class, with consistent prev links and tail; the client's pointers are exactly the allocated blocks; payloads are aligned and large enough. 256,209 distinct states, counted up to the history variable `last` (below). |
| refinement | MCMallocRefine.cfg | pass | Every step implements `AbstractAllocator!Spec`. |
| fit_not_missed | MCMallocReuse.cfg | violation | `place` lowers `largestfree` to the split remainder although a second free block of the old largest size remains. `find_fit` then rejects a request that fits that block, and `malloc` grows the heap (trace of 7 calls on a 272-byte heap). |

`MCMallocZeroAsize.cfg` is kept beside these runs but is not one of the checked runs. With `SIZE_BITS = 16` and a request of `size = 2^w - 8`, `size + wsize` wraps to 0 and `asize` becomes 0 (line 269). `place` "splits" at offset 0 and reinserts the block as free, so the pointer `malloc` returns is still in the free lists. A later `malloc` hands out the same memory again, and TLC reports `LiveBlocksExact` violated. The wrap happens the same way at 64 bits, with `size` near `SIZE_MAX`.

Also seen in the code, each shown by a single call, so no run is kept for them (the properties stay in `Malloc.tla` and `Tsh.tla`):
- `malloc` rounds `size + wsize` without an overflow check (line 269). For `size = 2^w - 4` it returns a 32-byte block (`PayloadCoversRequest`).
- A first `malloc(0)` runs `mm_init` before the size check (257), so the heap grows (`Malloc0NoGrowth`, spec section 8).
- `calloc(0, n)` divides by zero in its overflow check (404) (`CallocNeverTraps`).
- In tsh, `fg %3` with no job 3 dereferences NULL (295, 312), and `bg <pid>` always does (304: `getjobjid` with a pid) (`NoNullDeref`).

Each property of a passing run has a mutant in `PROJECT.json`. A mutant is a plausible bug in one mapped operator, and TLC finds it under that run:
- an `mm_init` that points `heap_listp` one word too far;
- an `extend_heap` without the new epilogue;
- a footer one word early;
- an `insertblock` that leaves the successor's prefree bit clear;
- a `free` without coalescing;
- a `removeblock` that leaves `endofflist` on the removed tail;
- a `place` that leaves the unsplit block free;
- a `round_up` that rounds down;
- a split whose allocated header keeps the whole size.

### Bounds

- The invariants run grows the heap 32 bytes at a time up to 176 bytes: a prologue, an epilogue and five minimum blocks. Freeing the first, third and fifth puts three free blocks in one class list, and freeing the second or fourth then removes the middle one, so all four cases of `removeblock` run (its interior case, 600-607, included). The heap also reaches all four coalesce cases, splits of merged blocks, non-splits, and `extend_heap` both succeeding and failing. A 144-byte heap holds only four minimum blocks, so never more than two free blocks in a class list.
- The request 68 gives an 80-byte block above the chunk size, and 68 + 8 is not a multiple of 16, so rounding matters. A mix of three block sizes on the larger heap is beyond five minutes.
- The run's `VIEW` leaves out `last`, the record of the previous call, which `Next` reads only through `Alive` (the view keeps that) and none of its invariants reads; without it each heap would be stored once per call that can lead to it.
- `FitNotMissed` needs two free 64-byte blocks and room to grow, hence the 272-byte heap in its own run.
- The refinement run uses fewer request sizes because the abstract step is evaluated against a heap walk on every transition.

### Fairness

None is assumed, and there are no liveness properties for the allocator. It is a single-threaded library driven by its caller, which may stop calling at any time. Deadlock is checked: `free(NULL)` is always enabled, except after the calloc trap, which no checked run reaches (no cfg passes nmemb = 0 to a passing run).

## What is modelled: the tiny shell

- `Tsh.tla` models `tsh.c`.
  - `job_list` is a function from slot `1..MAXJOBS` to `[pid, jid, state]`, and `nextjid` is the global.
  - `clearjob`, `initjobs`, `maxjid`, `addjob`, `deletejob`, `fgpid`, `getjobpid` and `getjobjid` are operators on the list, written from lines 579–692. NULL is slot 0.
- The kernel's view of each child is `proc[p]`:
  - `forked` lasts until the child's `setpgid(0,0)`;
  - then `run`, and `stop_new`, a stop that `waitpid` has not yet reported;
  - `stop` once reported;
  - `zombie`, then `reaped`.
  - `doomed` holds stopped children that have a SIGINT pending; they die when continued.
  - `pending` is the set of signals pending for the shell.
- csapp's `Kill` is modelled by what it does: on a process group that does not exist (before `setpgid`, or after the reap) it ends the shell (`pc = "killerr"`). csapp is not in the repository, and `Kill` follows its documented behaviour.
- The main loop has a `pc`.
  - `eval_fork` is the whole section of `eval` that runs with SIGCHLD, SIGINT and SIGTSTP blocked (lines 214–261): fork, `addjob`, unblock. Handlers cannot run inside it, so it is one step.
  - Every statement after that runs with the signals unblocked, and is its own step:
    - `waitfg`, the busy-wait at 264 and 324;
    - `builtin_pid`, `builtin_state`, `bg_print` and `builtin_cont`, the statements of BUILTIN_BG and BUILTIN_FG (291–321), each doing its own job lookup as the code does;
    - `quit`.
  - A NULL dereference sets `pc = "crash"`.
- `Signal` in csapp blocks only the signal being handled, so handlers nest. `stack` holds the handler frames, and only the top one runs.
  - `deliver(s)` pushes a frame for a pending signal whose handler is not already running.
  - `chld_wait`, `chld_delete`, `chld_stop` and `chld_none` are the iterations of `sigchld_handler`'s `waitpid` loop, including the early return after a stop.
  - `fwd_read` and `fwd_kill` are the two statements of `sigint_handler` and `sigtstp_handler`. A handler can interrupt between them.
- The environment:
  - a child runs `setpgid` and may exit at any time, before `setpgid` too (a failed `Open` or `Execve`);
  - the user may type ctrl-c or ctrl-z at any time, which raises SIGINT or SIGTSTP for the shell.
- `MCTsh.tla`:
  - uses pids 101, 102, …, so that a pid is never also a jid, as with real pids;
  - lets the user type `fg %1`, `fg %2`, `bg %1`, `bg %2` (and `fg/bg <pid>` in one run).

### Runs

| Run | cfg | Expect | Shows |
|---|---|---|---|
| tsh_jobs | MCTsh.cfg | pass | `MAXJOBS = 2`, two children, fg and bg commands, `fg/bg %jid`, ctrl-c and ctrl-z, with handlers nesting at every unblocked statement. Once the handlers have returned no reaped child is left in the list. Every step refines `JobStates` (`JobStatesRefined`, below). 302,628 states. |
| tsh_fg_returns | MCTshLive.cfg | pass | With foreground commands and `fg %jid`, the foreground wait ends once no child runs. Checked under the fairness below. |
| tsh_stop_race | MCTshStopRace.cfg | violation | A background job is brought to the foreground with `fg %1` while it runs: ctrl-z arrives between `state = FG` (313) and `Kill(-pid, SIGCONT)` (314). The handler marks the job ST, the SIGCONT resumes it, and the list says stopped while it runs. |
| tsh_unreaped | MCTshUnreaped.cfg | violation | A background child exits while the foreground child stops, and one SIGCHLD covers both. `waitpid` reports the stop first, and the handler returns at 516. The zombie stays forever. If the user then types `fg` on the exited job, the SIGCONT to the zombie's group succeeds and the foreground wait never ends. Checking `ForegroundReturns` on MCTsh.cfg, where bg commands are allowed, gives that trace. This is why tsh_fg_returns runs with foreground commands only. |

`MCTshKill.cfg` is kept beside these runs but is not one of the checked runs: its slot went to the proxy. TLC reports `NoKillError` violated by a ctrl-c right after a foreground job is added, before the child's `setpgid`: `Kill(-pid, SIGINT)` fails and csapp's wrapper ends the shell.

`MCTshJid.cfg` is also kept beside these runs but is not one of the checked runs. It uses `MAXJOBS = 4`, and TLC reports `JidsDistinct` violated: jobs 1–3 start, job 2 ends (`nextjid = 4`), job 4 starts and `nextjid` wraps to 1, and the next job gets jid 1 while job 1 is still in the list (line 622).

Mutants of the passing runs:
- a `deletejob` that clears only `pid`;
- a `deletejob` that matches the pid against the jid field;
- a stop report that does not mark the job ST;
- a stop report that marks the job BG.

`JobStates.tla` is the abstract specification: the comment at lines 31–38 of `tsh.c`, with jobs named by pid. A job is created FG or BG, moves only FG → ST (ctrl-z), ST → FG and BG → FG (fg), and ST → BG (bg), and ends. At most one job is FG. `Tsh` maps its job list to it: `StateOfPid(p)` is the state of the slot holding pid `p`, or UNDEF. The property `JobStatesRefined == JOBS!Spec` checks that every step of the shell and its handlers is one of these transitions, or leaves every job's state unchanged.

### Bounds

- Two job slots and two children are enough for both jobs to be in the list at once, for a full list, and for two children to change state under one SIGCHLD.
- Nesting: the stack can hold all three handlers at once.
- `MAXJOBS = 4` and five children are the smallest bounds at which the jid wrap can collide. `deletejob` resets `nextjid` to `maxjid + 1`, so smaller lists never collide.

### Fairness

- No fairness for the user or the children: they may never type or exit.
- Weak fairness for the delivery of each pending signal: the kernel delivers an unblocked pending signal.
- Strong fairness for the steps of each handler and for the main loop's continuation steps. A nested handler disables the step it interrupted, and the kernel resumes that step when the nested handler returns. A step enabled again and again is therefore taken.

### Not modelled in the shell

- `parseline` and I/O redirection: string handling, abstracted to the command kinds.
- The `jobs` builtin and `listjobs`: they only print.
- `sigquit_handler`: it exits.
- A terminal ctrl-c reaching a child that has not yet called `setpgid`.
- Signals sent to children from outside the shell.

## What is modelled: the cache simulator

- `Csim.tla` models `csim.c`.
  - `cache` is `set -> line -> [used, validbit, tag]`, as built by `initcache`. `hits`, `misses` and `evicts` are the fields of `cache_Info`.
  - `Record(instr, memloc)` is one iteration of main's `fscanf` loop (242–251): `L` and `S` call `operate`, and any other record (`M`, `I`) is skipped, as the `switch` does.
  - `operate` is written from lines 121–172:
    - `TagOf` and `SetOf` are the shifts of lines 124–126;
    - the scan gives every valid line with the tag `used++` and a hit (`OperateHit`);
    - otherwise a miss: `findminmax`, then an eviction of its oldest line if the set is full, else the first empty line is filled (`OperateMiss`).
  - `findminmax` is a RECURSIVE operator that follows the loop of lines 95–111.
- Addresses are `AddrBits = 4` bits wide instead of 64, with `s = 1`, `b = 1`, so tags have two bits. The shifts are taken modulo `2^AddrBits`, and a shift count equal to the width is masked to 0, as x86-64 does.
- `lru` is a reference LRU cache beside the simulator: per set, the resident tags from least to most recently used.

### Runs

| Run | cfg | Expect | Shows |
|---|---|---|---|
| csim_counts | MCCsim.cfg | pass | Every trace of 7 records (L, S, M) over 6 addresses (4 tags in set 0, 1 in set 1) on a 2-set, 3-way cache. `misses - evicts` is the number of valid lines, and `findminmax` returns the first least and the greatest counter of every set reached, ties included. 26,796 states. |

`MCCsimLRU.cfg` is kept beside this run but is not one of the checked runs: its slot went to the proxy. It runs a reference LRU cache beside the simulator, and TLC reports `LRUAgrees` violated on accesses to tags 0, 1, 0 and 2 of one 2-way set. The hit on 0 only makes its counter 2, equal to 1's, so the miss on 2 evicts 0, the most recently used line.

Mutants:
- a tag taken without the set bits;
- an evict count on every miss;
- a `findminmax` loop that stops one line early.

The trace ends after `MaxTrace` records, and main then exits, so the runs do not check deadlock.

Not modelled: option parsing, reading the trace file, `printSummary`, and `clearcache`, which only frees. With `-s 0` the set shift at line 126 is by 64 bits, which is undefined. On x86-64 the set index becomes the shifted address, past the single set. The model's `SetOf` leaves `Sets` there too, but no run uses `s = 0`.

## What is modelled: the matrix transposes

`Trans.tla` models `src/Cache/trans.c`.
- `transpose_submit` (lines 28–130) picks a loop nest by `M`:
  - the 8×8 blocked nest for `M == 61`, with `c` outside `r`;
  - the 8×8 blocked nest for `M == 32`, with `r` outside `c`;
  - for any other `M` (meant for 64×64), 4×4 blocks copied two rows at a time through `v1`–`v8`.
- `trans` (141–156) is the plain row-wise scan.
- One step is one iteration of the innermost loop:
  - `Submit61` and `Submit32` run the body (`Body`), then, when the inner loop ends, the diagonal write `B[index][index] = tmp` of a diagonal block (`AfterInner`), then advance the counters (`Next61`, `Next32`);
  - `Submit64` and `TransStep` are the other nest and `trans`.
- The locals `tmp` and `index` start as the model value `Undef`. A diagonal write that would read them before any assignment ends the call in `pc = "uninit"`.
- `A[r][c]` is `r * 1000 + c`. The code only moves values, so with distinct values B equals the transpose exactly when every element has reached its place.
- `Init` picks a registered function (`registerFunctions`) and one of the sizes the comments name: 61×67, 32×32 and 64×64. These are the real sizes, not scaled down, so the dispatch on `M` and the ragged edge blocks of 61×67 (5 columns, 3 rows) are the code's own.

### Runs

| Run | cfg | Expect | Shows |
|---|---|---|---|
| transpose | MCTrans.cfg | pass | Both functions on all three sizes: every call returns (`Returns`, under weak fairness: a transpose is one thread that keeps stepping), leaves B equal to `is_transpose`'s reference (`TransposeOnReturn`, the ENSURES of lines 129 and 155), and never reads `tmp`/`index` uninitialised (`NoUninitRead`). 14,836 states. |

Mutants:
- the diagonal branch swaps `tmp = A[r][c]` and `index = r`;
- the diagonal branch forgets `index = r`;
- the inner loop stops one element short of the block edge;
- `trans` loses its outer `i++`.

The calls end, so the run does not check deadlock. Not modelled: the 4×4 nest on sizes that are not multiples of 4. There, `r + 1` and `colblock + 3` run past `N` and `M` (line 106). The nest is written for 64×64, and the driver that picks the sizes is not part of the repository.

## What is modelled: the parallel k-means (MPI)

`KMeansPar.tla` models the message passing of `src/Distributed_K_Means_MPI/points_par.c`. Every rank runs `main`, with its own `pc`, `i` and `flag`. The root also has `j`.
- The root:
  - reads the file or returns on an error (`Read`);
  - sends the centroids with tag 1 to every rank, itself included (`Send1`, the loop of line 144);
  - scatters the points (`Scatter`).
- A worker receives the tag-1 message (`Recv1`) and its share of the scatter.
- In the loop (`Test`, `Compute`):
  - a worker sends its centroids with tag 2 to rank `i` (`WorkerSend`, line 232) and waits for tag 3 (`Recv3`);
  - the root receives `num_procs - 1` tag-2 messages from `ROOT` (`Recv2`, line 237) and sends tag 3 to each worker in a loop on `i` (`Send3`).
- Messages are a bag of `[src, dst, tag]` (community module `BagsExt`). `MPI_Send` is eager: a few points fit every implementation's eager buffer, so a send returns and its message waits in the bag.
- The data is abstracted:
  - whether some centroid moved by more than 0.05 is a choice (`flag`);
  - so is whether a cluster came out empty, which returns from `main` (lines 210–213).
- A rank that returns without `MPI_Finalize`, or a send to an invalid rank, ends the job (`Killed`).
- `rounds` counts the iterations a rank has computed, bounded by `MaxRounds`.

### Runs

| Run | cfg | Expect | Shows |
|---|---|---|---|
| kmeans_deadlock | MCKMeansPar.cfg | violation | A root and one worker, `-n 2`. The root waits at 237 for a tag-2 message from itself, which nobody sends. The worker has sent its tag-2 message to rank `i = 1`, itself, and waits at 233 for tag 3. The job never ends (`Terminates`, under weak fairness of each rank: every rank is its own process). |

`MCKMeansOne.cfg` is kept beside the run but is not one of the checked runs. With the root alone, the send loop at 248 leaves `i = num_procs = 1` after every iteration. Under `-n 2` the root therefore computes a third iteration and runs until its centroids converge, and TLC reports `IterationsBounded` violated. Without `-n`, `i` is -2: a worker sends to rank -2 and MPI aborts the job, while the root alone stops after one iteration.

Not modelled: `distance`, the means and `aresimilar` (floating point); the `malloc` of `points * sizeof(point)` at line 60, made before `points` is parsed; a rendezvous `MPI_Send`, under which the root's tag-1 send to itself (145) would block.

## What is modelled: the proxy

`Proxy.tla` models `src/Proxy/proxy.c`; `MCProxy.tla` gives the clients as model values.

- `main` (59-65) is `Accept(c)`: it takes a pending client, stores its descriptor in a fresh cell (the `Malloc`'d `connfdp`), and starts thread `n` on that cell. Threads are numbered in accept order, one per client.
- Each `handle_client` thread runs statement by statement:
  - `Start` reads the cell and frees it (77-83).
  - `ReadRequest` covers the first line read, `parse_request` and the GET test (120-134). An empty read, a failed parse and a method other than GET lead to `RequestFailed`, which is `close_files` and exit (89-92). A GET starts `f_header` with the request line and the three fixed headers (136-150).
  - `HeaderLine` is one iteration of the header loop (152-169): its inverted `strcmp` test and its `strstr` chain, with `Matches` giving what `strstr` finds in a line of each kind. `HeadersEOF` is the end of the client's lines.
  - `EndHeaders` appends the Host line (unless the client gave one) and `"\r\n"` (171-175).
  - `Connect` is `Open_clientfd` and the request's `Rio_writen` (179-183).
  - `FirstLine`, `ResponseLine` and `ResponseEnd` copy the response back (230-237) and close both descriptors (93-99).
- Data is abstracted to what the code tests. A request line is one of the four outcomes of read, parse and GET test. A header line is its kind (`"crlf"` is the empty line). `f_header` and the request the server receives (`sent`) are sequences of line kinds.
- The peers are the environment. A client may hang up at any time after connecting (`ClientHangup`). A server may be unreachable (`ConnectResults`). A server's response is up to `MaxResponse` lines, chosen line by line.
- csapp's wrappers are modelled by what they do: on failure they call `unix_error`, which exits the process (`alive = FALSE`). `Open_clientfd` fails on an unreachable server, so the test for -1 at 179 never fires. `Rio_writen` to a client that has hung up may still succeed (before the reset comes back) or fail with EPIPE, because SIGPIPE is ignored. csapp is not in the repository; the model follows its documented behaviour, as the shell model does for `Kill`.
- The first `Rio_readlineb` at 232 ignores its result. When the server sent nothing, `buffer` is uninitialised, and the model lets `strlen` of it be 0 (no write) or not.

### Runs

| Run | cfg | Expect | Shows |
|---|---|---|---|
| proxy | MCProxy.cfg | pass | Two clients. Every request outcome occurs, as do header lines `"\r\n"` and Host (up to 2), hang-ups at any time, unreachable servers, and responses of 0 to 2 lines, and clients that send a further line after their request or none. Every thread reads the descriptor main accepted for it (`ThreadPerClient`): each connection's cell is fresh, so main's next `Accept` cannot overwrite it first. A thread past `Start` holds a client (`TypeOK`). Every accepted connection and every server descriptor is closed, on both exits of `handle_client`, unless the process has ended or the thread waits in the header loop on a client that has sent its whole request (`ConnectionsClosed`; that wait is the bug below). 8,601 states. |
| proxy_hangup | MCProxyHangup.cfg | violation | Every connect succeeds. Client 1 sends a GET and hangs up. The copy of the first response line fails with EPIPE, and `Rio_writen`'s `unix_error` ends the proxy and every other client's connection (`ProxyStaysUp`). SIGPIPE was ignored (46) "rather than terminate the process". |

`MCProxyHang.cfg` and `MCProxyHeader.cfg` are kept beside these runs but are not checked runs, since the project is at its limit of runs. `MCProxyHang.cfg` checks `ConnectionsServed`, `ConnectionsClosed` without the excused wait, and TLC reports it violated: a client sends `GET ... HTTP/1.0` and the empty line, a complete request with no headers. The empty line passes the inverted `strcmp` test (153) and the loop reads again (152), and the client, waiting for the answer, sends nothing more: the thread waits for ever and the connection is never answered or closed. In `MCProxyHeader.cfg` TLC reports `RequestLineForwarded` violated by a GET whose header section is just the empty line, when the client then sends a further empty line or closes its end. The empty line passes the inverted `strcmp` test (153), matches no `strstr`, and is `strcpy`'d over `f_header` (167). The server receives `"\r\n"`, `Host: ...`, `"\r\n"`, without the request line. With any real header first, the loop breaks at once, so the client's own headers are never forwarded either.

Mutants:
- a single static `int` for every connection (the classic race);
- the descriptor read after `Free(connfdp)`;
- the error exit at 89-92 without `close_files`.

Bounds: two clients are the fewest for which one thread's cell can be overwritten by the next `Accept`. Two header lines allow an empty line followed by another line. Two response lines allow the first-line write and one loop write, and one of these can fail after a hang-up.

Fairness: weak fairness of each thread and of `main`'s accept. The threads are detached and scheduled by the OS. A thread's read is bound to return only when the peer has something to send: `FairSpec` assumes that a client sends its request, up to the empty line that ends it, and that a server answers, but not that a client sends anything after its request or ever hangs up. A thread that waits in the header loop after the empty line (`Blocked`) is therefore not bound to move, and the reads there stay possible but unforced. A silent client holds its thread and both descriptors for ever, which `ConnectionsClosed` does not cover. Once every client is served, `main` blocks in `Accept` for ever, so the runs do not check deadlock.

Not modelled: `Open_listenfd` and the usage check (a missing port ends in `Open_listenfd`); read errors such as a connection reset, where `Rio_readlineb`'s wrapper would also exit; a server that fails while the request is written; the bytes of the request line, URL and port.

## Not modelled, and why

1. The **sequential k-means** programs (`points_seq.c`, `DNA_seq.c`) have no messages and no concurrency. Their clustering is floating-point arithmetic over points read from a file. The parallel model abstracts exactly the data they compute, so TLC could check only the loop shape. Two hazards of theirs are listed in `PROJECT.json` without a checked property:
   - the centroid selection's `rand()` loop (points_seq.c 111-118, points_par.c 132-139), which compares against all `clusters` centroids, including the uninitialised ones;
   - the usage text's "will stop at 5 default", against a loop that runs to convergence without `-n`.
   Both would need a run, and the project is at its limit of twelve.

The project is at its limit of twelve checked runs. A new checked property must go into an existing passing run or replace a run. The slots of `csim_lru` and `tsh_kill_error` went to the proxy; their cfgs remain, as described above.

`memcpy` and `memset` of payloads in realloc and calloc are not modelled: no allocator code reads payload bytes.
