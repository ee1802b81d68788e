# A TLA+ development for StudyLibev

The repository holds an annotated copy of libev 4.2x (`libev-master/`), study notes about it (`md/`), and example programs (`examples/`), among them three lock-free queues (`examples/lock_free/`), echo servers (`examples/io_multiplex/` and others) and programs that talk to each other (`examples/IPC/`). The libev sources are compiled for Linux with the default features (`EV_FEATURES` all on, epoll, poll and select, inotify, eventfd or a pipe for wake-ups); that is the program these modules describe; kqueue and event ports are read as their systems would build them. Line numbers refer to the files under `src/`.

Nothing here proves anything about the compiler or the C and C++ libraries. A module is a reading of the code; `PROJECT.json` names for each definition the lines it reads.

## 1. Inventory

| Part | State | Operations | What is hard about it |
|---|---|---|---|
| Pending queues (`ev.c` 2014-2065, 3443-3462, 3970-3995) | `pendings[pri]`, `pendingcnt`, `pendingpri`, `W.pending` | `ev_feed_event`, `clear_pending`, `ev_clear_pending`, `ev_invoke_pending`, `ev_feed_fd_event` | callbacks change the queues `ev_invoke_pending` is walking through, and may call it again through `ev_run` |
| Watcher arrays (4012-4073, 4797-4926, 5061-5139) | `idles[pri]`, `prepares`, `checks`, `forks`, `cleanups`, `W.active`, `activecnt` | the start and stop functions, `ev_ref`, `ev_unref` | removal moves the last watcher into the free place; start and stop must be idempotent |
| `ev_run` (3711-3895) | `loop_done`, `postfork`, `loop_depth` | `ev_run`, `ev_break`, `ev_loop_fork`, `ev_loop_destroy` | nesting, breaks that must unwind one or all levels, the order of the phases |
| Wake-up (2516-2694, 3786-3851, 5186-5191) | `pipe_write_wanted`, `pipe_write_skipped`, `async_pending`, `sig_pending`, `ev_async.sent`, `signals[].pending`, the pipe | `ev_async_send`, `ev_feed_signal`, `evpipe_write`, `pipecb` | no locks: threads, a signal handler and the loop meet in shared flags, and only fences order them |
| Signals and children (2643-2762, 4277-4430) | `signals[]`, `childs[]`, `sigfd` | `ev_signal_start/stop`, `ev_sighandler`, `childcb`, `child_reap`, `evpipe_init` | one SIGCHLD stands for many children; a fork shares the pipe; `child_reap` changes a watcher's priority |
| File descriptors (2073-2260, 4030-4073) | `anfds[]` with its list of watchers, `events`, `reify`, `emask`, `egen`; `fdchanges` | `ev_io_start/stop`, `fd_change`, `fd_reify`, `fd_event`, `fd_kill`, `fd_ebadf`, `fd_enomem`, `fd_rearm_all` | changes are collected and told to the kernel late; descriptors are closed and reused meanwhile |
| Backends (`ev_epoll.c`, `ev_poll.c`, `ev_select.c`, `ev_kqueue.c`, `ev_port.c`) | the kernel's set, `polls[]`, `vec_ri`, `kqueue_changes`, `epoll_eperms` | `*_modify`, `*_poll`, `*_fork` | spurious and stale events, refused changes, closed descriptors, forks |
| Timers (4091-4186, 3490-3534, heaps 2270-2360) | `timers[]` (a 4-heap), `W.active` as the heap index | `ev_timer_start/stop/again`, `timers_reify` | removal from the middle of the heap, late repeats, order of expiry |
| Periodics and clocks (3536-3709, 4188-4260) | `periodics[]`, `ev_rt_now`, `mn_now`, `now_floor`, `rtmn_diff` | `ev_periodic_*`, `periodics_reify`, `time_update` | jumps of the real-time clock |
| stat watchers (4415-4795) | `fs_hash[]`, `fs_fd`, the inner timer, `attr` | `ev_stat_start/stop`, `stat_timer_cb`, `infy_add/del/wd/cb/init/fork` | the path changes between a look at it and its watch; watchers share the kernel's descriptor |
| `embed`, `once`, `walk`, libevent layer | their own watchers, made of the above | | callbacks that start and stop other watchers |
| MPMC ring (`lockfree_mpmc_queue.hpp`) | `head_`, `tail_`, a stamp per slot | `enqueue`, `dequeue` | threads that stall between claim and stamp are lapped |
| SPSC ring (`lockfree_spsc_queue.hpp`) | `write_`, `read_`, raw slots | `enqueue`, `dequeue`, destructor | two counters read at different times, delayed stores |
| Michael and Scott queue (`lockfree_ms_queue.hpp`) | `head_`, `tail_`, nodes | `enqueue`, `dequeue` | `tail_` lags, helpers, failed compare-and-exchange |
| Echo servers (`io_multiplex/`, `libev_tutorial/echo_server.c`, `exercise/echo/`) | `fd_info[]`, `poll_fds[]`, an epoll or kqueue set, watchers | wait, pass over what is ready, accept, echo, close | tables that change during a pass, edges that are reported once, no descriptors left |
| IPC programs (`examples/IPC/`) | a pipe, a queue or shared memory with two semaphores, and their names | open, send, receive, unlink, signal handlers | restarts over old names, processes that die while another waits |
| Other exercises, memory-order demo, notes | small programs | | not modelled, see section 6 |

How the parts meet: a source of events (kernel, timer heap, pipe, arrays, program) calls `ev_feed_event`; `ev_invoke_pending` calls the callbacks; a callback calls any function of the interface. `ev_run` drives the sources in a fixed order. Other threads and signal handlers touch the flags of the wake-up and nothing else. The queues of `examples/lock_free` are independent of libev.

What makes each part correct:

* queues: an event that was fed is delivered once or withdrawn by a stop or a clear, higher priorities first, never to a stopped watcher;
* arrays: every started watcher is in its array once, at its own index, and `activecnt` counts watchers and references;
* `ev_run`: returns with nothing pending, unwinds as `ev_break` says, lets fork watchers run before it blocks;
* descriptors: when the loop polls, the kernel watches what the started watchers ask for; an event of a file that is gone reaches nobody and does not come back for ever;
* wake-up: a completed send never leaves the loop asleep;
* timers and periodics: none early, in order, each point in time once, and the loop does not sleep past the next, whatever the clocks do;
* signals and children: every signal is on its way to the loop once its handler ran, every child is reported with its own status;
* stat watchers: when nothing is left to do, what the watcher knows of the file is what is there;
* echo servers: who connects and sends is answered, and closed for a cause only, but for three losses and three ways to die that are named;
* IPC programs: messages arrive in order and are lost for a known cause only; no process waits for one that is gone, and no name stays behind, unless something was signalled or killed in a moment that is named;
* lock-free queues: a FIFO queue (every operation takes effect at one instant), each slot used by one thread at a time, no element lost, doubled, leaked or destroyed twice.

## 2. Modules

| Module | Models | State and actions in terms of the code |
|---|---|---|
| `EventDelivery` | the promise of the pending queues | what each watcher is owed, and the stack of callbacks in progress |
| `EvLoop` | pending queues, watcher arrays, `ev_run` | `stack` has a frame per `ev_run` in progress with its program counter; `running` the callbacks; every function of the interface is an action a callback, or the program outside `ev_run`, may take |
| `EvLoopProofs` | | the theorems about `EvLoop` |
| `EvAsync`, `EvAsyncProofs` | wake-up | `mem` and a store buffer per processor; the loop and each sender have a program counter, one step per memory access that others can tell apart |
| `DHeap`, `DHeapProofs` | the heap of timers and periodics | `heap`, `cnt`, `active` are the array, its length and the indices; a step is one turn of `upheap` or `downheap`, which hold their element in `he` meanwhile |
| `EvTimer`, `EvTimerProofs` | timers, periodics, `time_update`, the waiting time, `ev_suspend/resume` | the heaps are the sets of their elements; `clock` and `shift` are the system's, `mn_now`, `ev_rt_now`, `now_floor`, `rtmn_diff` the loop's |
| `EvSignal`, `SignalWatchers` (proofs in `EvTimerProofs`) | signals, children, the event pipe, forks | `head`, `attached`, `flag` are the fields of `signals[]`, `childs` the hash table; the process may be interrupted between any two steps, and the new process is followed after a fork. `SignalWatchers` gives specification and properties names of their own |
| `EvBackend` (proofs in `EvFdProofs`) | poll, select, kqueue, ports against `anfds` | one variable for each backend's table; `backend` is chosen at the start; `fd_reify` is a step per descriptor |
| `Anfds`, `OtherBackends` | | what `EvFd` and `EvBackend` share (watchers, descriptors, `anfds`, `fdchanges`), and the specification and properties of `EvBackend` under names of their own, so that runs and proofs can speak of both backends side by side |
| `EvStat`, `StatWatchers` (proofs in `EvTimerProofs`) | stat watchers and inotify | `agenda` holds the system calls the loop is about to make: each is a step, so that the file can change between two of them; the kernel's watches and queue are `target` and `events`. `StatWatchers` gives specification and properties names of their own beside those of the timers |
| `IoServers` | the six echo servers | `kind` is chosen at the start; a wait fixes what is reported (`batch`, `flagged`), a pass looks at it one by one, and a message is what one `recv` takes; `Dies` is the end of the process, of which `EchoStdin`, `Overrun` and `Sigpipe` are the causes |
| `IpcMessages` | pipes, POSIX and System V queues with their servers and clients | `named` is what the name leads to, `held` and `target` what server and clients have open; a server that is started again makes a new object or finds the old one |
| `SharedMemory` | producer and consumer over shared memory | a program counter for each process, with a step for every call of the start-up, the semaphores, the names, and whether a process was signalled (`early`: before both pointers were assigned) or killed |
| `EvFd`, `EvFdProofs` | descriptors and the epoll backend, with the kernel's epoll set | `events`, `reify`, `emask`, `egen` are the fields of `anfds[]`; `fd_reify` is a step per descriptor, `epoll_poll` a step per event; `interest` is the kernel's set, an entry per descriptor and open file |
| `FifoQueue` | the promise of the three queues | the values enqueued, and what each dequeue in progress has found |
| `SpscQueue`, `SpscQueueProofs` | SPSC ring | store buffers; construction and destruction of elements in raw memory are stores of their own |
| `MpmcQueue` (proofs in `MsQueueProofs`) | MPMC ring | one step per atomic access; moving out and destroying are steps |
| `QueueThreads`, `MpmcRing` | | what `MpmcQueue` and `MsQueue` share (threads, their values and program counters), and the specification and properties of the ring under names of their own |
| `MsQueue`, `MsQueueProofs` | Michael and Scott queue | one step per atomic access; nodes are named by the value they were allocated for; `linked`, the nodes in the order in which they were linked, is a history variable that no step reads |
| `MC...` | | the instances TLC checks; `MCExamples` puts `IoServers`, `IpcMessages` and `SharedMemory` side by side, of which one runs; `ExamplesProofs` has the theorems about `IoServers` and `SharedMemory` |

Definitions with a name like `TestFullOffByOne`, `WhileIgnoresBreak` or `ClaimHeadBlindly` are deliberate faults: variants of the definition after them, as a plausible bug would have it. No specification uses them. `PROJECT.json` says which property each of them breaks, and that is how one knows that a property says something about the code.

### How `EvLoop` reads the code

`ev_invoke_pending` is two nested loops over `pendingpri` and `pendingcnt`. `InvokePending` takes the last entry of the highest non-empty queue at or below `pendingpri`; a callback that feeds a higher priority raises `pendingpri` through `ev_feed_event`, one that calls `ev_run` lets a nested `ev_invoke_pending` empty the queues and leave `pendingpri` at 0, where the outer one finds nothing. The start of `ev_invoke_pending` (`pendingpri = NUMPRI`) belongs to the step before it: `Run`, `Check` and, where `queue_events` has just set `NUMPRI - 1`, to the step of `QueueEvents`, which cannot be told apart from `NUMPRI` after the first decrement.

`queue_events` is one step per watcher although nothing can interrupt it: this keeps the actions small, and `HighestFirst` states that it stays inside its array. `PollEvent` stands for `fd_event` on whatever the kernel reports. Idle, prepare, check, fork and cleanup watchers differ in their arrays and in the moment they are queued; io watchers are not in an array here, their lists belong to `EvFd`. Timers are the subject of `EvTimer`; they are one more source between `PollReturn` and `IdleReify`.

The loop allows `ev_unref` only while `activecnt` is positive, and it calls `ev_loop_fork` from anywhere but the callback of a prepare watcher, both as the manual asks. `ev_loop_destroy` is called outside `ev_run`. The check `getpid () != curpid` (`EVFLAG_FORKCHECK`) is not modelled.

### How `EvFd` reads the code

The kernel's part follows what `ev_epoll.c` says about it: an interest is kept for a pair of descriptor and open file and ends when nobody holds the file (`Living`), not when the descriptor is closed; `epoll_ctl` answers `EBADF`, `EPERM`, `EEXIST` or `ENOENT` (`Errno`); `epoll_wait` reports any part of any of its entries, or an error, which `epoll_poll` reads as both events. `Hold` and `Release` are a copy of the file in another descriptor or in a child. The events one `epoll_wait` returns are looked at in any order.

`EpollModify` is written from the answers of `epoll_ctl`: `Accepted` (a new number `egen` is registered), `AssumedAs` (the number is taken back), `AlwaysReady` (the file goes to `epoll_eperms`), `Killed` (`fd_kill`). `emask` is assigned in each of them, as the code does before the call. `Iterate` joins the test of `postfork` and `loop_fork`; `EpollFork` and `FdRearmAll` are the parts of `loop_fork` that matter here; the ignored case in which `ev_loop_fork` comes between the two tests makes no difference to descriptors. `postfork` is a set of its bits, and `epoll_eperms` a count for each descriptor, as the order of the array matters to nobody: the events of all its descriptors are fed before a callback is called. Watchers are unordered: `fd_event` feeds all of a descriptor at once.

The program is assumed to do what the manual asks: it stops a descriptor's watchers before closing it, has none of them started while the number is opened again, and calls `ev_io_set` before it starts them (`Close`, `Open`). It may start a watcher of a closed descriptor, which `fd_kill` answers. `Restoring` says whether a descriptor may be given back a file that the kernel still watches under its number (section 4). `EvLoop` does not model that the epoll backend may set `postfork` to 2 while it polls: this is the subject of `EvFd`.

### How `EvTimer`, `EvSignal`, `EvBackend` and `EvStat` read the code

`EvTimer` reads the clocks where the loop does: time passes in ticks at any moment, and an iteration is `Block` (the waiting time, from the clocks as they were read), `PollReturns` (`time_update`, `timers_reify`, `periodics_reify`) and the callbacks. With equal times the heap may give either first. Without a monotonic clock `time_update` corrects the timers for a jump it notices; the history variable `left` is a stop-watch for each timer: it is set where the timer's time is set, runs from when the loop read the clocks last (`seen`), and every tick takes one from it unless the program is suspended; no reading of a clock enters it. Without a monotonic clock the real-time clock is only set back, and not during a suspension: set forward by less than `MIN_TIMEJUMP` it is time that passed as far as the loop can know. `reschedule_cb` is any function of the present to the future.

`EvSignal` joins what `evpipe_write` does within one thread; `EvAsync` is about its single accesses. A child that stops or exits raises SIGCHLD, which does not queue. `Pids` and `HashSize` are such that two children share a bucket with watchers for any child. The priority of a child watcher is `EV_MAXPRI` after the first report.

`EvBackend` gives kqueue a kernel that answers each change (no such descriptor, no such filter), select a bit set, poll its table, and ports associations that end with each event. Closing a descriptor under its watchers, a fork, and lack of memory are the troubles, and bounded together.

`EvStat` has one path and the processes that change it: a file that is created, modified, replaced, moved away, removed, and its directory. `lstat` and `inotify_add_watch` are two steps. The attributes that `stat_timer_cb` compares are the inode and one of two values. What `prev` holds is not modelled. The process may stop a watcher and start it again, and fork.

### How `IoServers` and `SharedMemory` read the code

A descriptor is a number above the server's; `FdSetSize` is `MAX_FDS` of `select_example.c` counted the same way. `SelectAdd` is `add_fd_info` and the `FD_SET` after it: a descriptor beyond the limit gets no place in `fd_info`, `max_fd` never comes to it, and it goes to `leaked`, as does a connection for which poll's table is full. `FD_SET` of such a descriptor writes past the set. A build that checks this aborts (`Overrun`), another goes on; what the stray bit may change beside that is not modelled. A reply or a welcome to a client that has reset its connection fails with `ECONNRESET`, which nobody looks at (`Recv`, `Accept`), or with `EPIPE`, and then SIGPIPE ends the process (`Sigpipe`), as no server ignores the signal or sends with `MSG_NOSIGNAL`. What a client has sent before a reset can still be read. `flagged` is the error, hangup or end that a wait has reported, which the pass looks at later, when the client may have sent or reset.

`SharedMemory` has a step for each of the calls between the installation of the handlers and `fork`, and two for `sem_open`: in it the name is made, and then the pointer is assigned, which is what `cleanup` looks at (`Opened`). `handle_signal` may come between any two of them, and a `SIGKILL` too. The child inherits both pointers.

### Memory

`EvAsync` and `SpscQueue` model x86-64: each processor has a FIFO buffer of stores and reads its own first. `ECB_MEMORY_FENCE` waits until the buffer is empty; `ECB_MEMORY_FENCE_ACQUIRE` and `_RELEASE` stop the compiler only (`ev.c` 662-665); release stores are plain stores. Compare-and-exchange drains the buffer, and in `MsQueue` every write that is shared before it is visible through a compare-and-exchange is one, so interleaving the accesses is exact. In `MpmcQueue` the only plain stores are the stamps and the elements before them. They leave the buffer in order; a thread whose stamp is in the buffer looks to others like a thread that has not stored it yet, which interleaving has. What the C++ standard allows beyond that, or what an ARM processor does, is not covered.

## 3. Runs

| Run | Instance | Shows | Distinct states, time |
|---|---|---|---|
| `loop` | seven watchers and `pending_w`: io, two check watchers, prepare, idle, fork, cleanup; 2 priorities; `ev_run` nested twice; 4 calls | the queues and arrays stay intact whatever callbacks start, stop, feed and clear, events are delivered once and by priority (`DeliveryRefined`), and a break unwinds every `ev_run` | 541 370, 1 min |
| `async` | two threads and a signal handler, an async watcher and a signal, 3 sends | `AsyncInv`: what was sent is on its way to the loop or will be looked at before it sleeps; every send is seen | 364 869, 30 s |
| `signal` | four programs of two of: a signal watcher, two child watchers, an async watcher; two children | a signal whose handler ran reaches the loop, also after a fork; every child is reaped and reported with its own status | 149 563, 30 s |
| `fd` | three watchers, two descriptors, three files (one regular), 7 calls | the kernel watches what is asked for when the loop polls, no event of a file that is gone, spurious events do not come back for ever | 2 983 502, 1 min |
| `backends` | poll, select, kqueue, ports; three watchers on two descriptors; 3 troubles | each backend knows what the watchers ask for before it sleeps (`TablesTold` for poll, select and ports, `KqueueTold` for kqueue, which may need another turn); poll and select stop the watchers of a closed descriptor | 217 077, 40 s |
| `heap` | six timers, 3 times, binary heap | every timer is at the index it holds, no entry before its parent, after every operation and between its moves | 26 694, 1 min |
| `timer` | two watchers of any of five kinds, 5 ticks, one jump of the clock | no timer before its stop-watch has run out, no periodic before the real-time clock has passed its time, in order, each point in time once, and by a monotonic clock no sleep past the next | 1 261 948, 40 s |
| `stat` | two stat watchers on one path, local and remote file system, 3 changes, 2 starts, 1 fork, a queue of 2 events | each watcher that runs has a watch or a timer, and the count of references stays right (`PathsWatched`); when nothing is left to do every change was reported, but for the named races (`ChangesSeen`) | 9 906 927, 3 min |
| `spsc` | 2 slots, 5 values, store buffers | FIFO, no slot used twice at a time, nothing lost or leaked, every value arrives | 894, 1 s |
| `mpmc` | three uses in which nobody can be lapped | FIFO, slots are not shared, every value arrives | 238 714, 40 s |
| `ms` | two producers, two consumers, three values | FIFO, the links are sound whoever helps, every value arrives | 510 858, 1 min |
| `examples` | the echo servers, the message programs or the shared memory program, one at a time | clients are answered, and closed for a cause, but for the named losses and deaths; messages arrive in order and are lost for a cause; producer and consumer take turns, and leave names behind only after a kill or a signal during the start-up | 558 672, 2.5 min |

**Bounds.** `MaxCalls` and `MaxDepth` of `EvLoop` limit what the program does, not what the loop does. Four calls leave three for callbacks after `ev_run`: enough to stop a pending watcher and feed it again, to stop the first of two watchers of an array while both are queued, to run the loop from a callback and break out of both, and to fork between phases. `MCEvLoop` begins with watchers started, in two setups, which the start functions reach, so that calls are not spent on them; the real `Init` is the subject of the theorems. The calls being bounded, an `ev_run` that has lost its last break goes round for ever, which is what `BreakAllUnwinds` needs to fail. `EvAsync` reads one write per call of `pipecb` (4 for a real pipe, one eventfd counter) so that 3 sends can overfill it. In `EvFd` 7 calls are enough to watch a file, copy it, stop, close, open another file under the number, call `ev_io_set` and watch that, which is the shortest way to a stray event with somebody to receive it; the polls between the calls are not bounded. The rings go round more than twice. Runs allow a behavior to end only where the program ends (`CHECK_DEADLOCK FALSE`): the number of calls or values is used up; `async` has no such end and is checked for deadlock.

`DHeap` has six timers in a binary heap, three levels; the 4-heap is the subject of the proof. In `EvTimer` `MinTimejump` is 3 ticks so that there are jumps the loop notices and jumps it does not; one jump of the clock forth or back, and five ticks, in which the timer that repeats every 2 comes late and twice. `EvSignal` has four programs of two watchers each (signal and async, signal and child, two child watchers for one and for any pid, async and child): the pairs that share state. `EvBackend`: two watchers on one descriptor and one on another, and three troubles, so that a descriptor can be closed, opened again and the process forked between two polls. `EvStat` needs three changes for the longest race (section 4), a queue of two events so that it overflows, and two starts, so that both watchers are started, one while the other's watch is there, or one is started again after a stop. `examples`: three clients for two descriptors, so that one is left when they run out, the second descriptor beyond the limit of select (`FdSetSize`), and a poll table without room for it; one message of each client, which can be in the queue of a socket when it is reset; two clients that send two messages each to a server that is started twice, with a queue of two; the four messages of the program and two starts, the second over whatever the first has left. `mpmc` covers the uses in which no thread can be lapped.

**Fairness.** `EvFd` and `EvStat` state none: their properties are about steps, and `ChangesSeen` is about the states in which nothing is left to do. `EvSignal`: of the loop's steps and of the delivery of SIGCHLD. `EvBackend`: of the loop's steps. `EvTimer` needs none. `IoServers`: of the server, which runs whenever it can; none of the clients. `SharedMemory`: of each process, none of signals. `IpcMessages`: none. `EvLoop`: weak fairness of the loop's own steps and of the return of callbacks, none of `PollReturn`: a poll may wait for ever. `EvAsync`: of the loop, of each sender that has begun (a signal handler and a thread run to their end), of each store buffer; none of `Send`, and none of `PollOther`, so that a loop that waits is woken by the pipe or not at all. Queues: of each thread, as schedulers give, and of the store buffers.

## 4. Where the code and what is said of it differ

All runs pass: their properties are stated so that they hold, and where a race or an error of the code keeps a stronger one from holding the property names the case. The cases, and for the first six an invariant that TLC finds violated, with the constants of the module's run but for what is said:

1. `ev_run` tests `postfork` at the top of the iteration and again before the poll. When `ev_loop_fork` is called between the two, by the callback of a watcher that is called in the prepare phase, `loop_fork` resets the flag and the loop blocks without having called the fork watchers (`ev.c` 3743 and 3767). The manual (`ev.pod` 3264-3268) says they are called before the loop blocks next and excludes (688-690) only prepare callbacks. `EvLoop!ForkBeforePoll` fails.
2. On x86-64 the fence after `asyncs[i]->sent = 0` in `pipecb` (`ev.c` 2634) does not make the store visible before the callback, as the notes (`md/libev内存屏障详解.md` 480 and 569) say. No send is lost through this as long as sender and callback share a lock or another full fence for their data (`Locking`). `EvAsync!SentResetVisible` fails with `Locking = FALSE`.
3. MPMC ring: a consumer that has claimed a position and not yet stored its stamp leaves the slot looking full to a consumer one lap later, which takes the element again (`lockfree_mpmc_queue.hpp` 148). `MpmcQueue!ExactlyOnce` fails with two threads on each side, 3 values and 2 slots (`Uses <- Lapping`).
4. MPMC ring: a producer in the same situation makes another one move `head_` and return false (285); nobody fills the position and `dequeue` waits for it for ever. `MpmcQueue!ClaimIsKept` fails with the same constants.
5. `epoll_modify` keeps in `emask` the mask it wanted to register, even when `epoll_ctl` failed or registered another file (`ev_epoll.c` 88). When the program watches a file that is copied, closes the descriptor, tries in vain to watch it with another mask (`EBADF`), and restores the file by `dup2`, the kernel still has the old mask, `ADD` fails with `EEXIST`, `emask` equals what is wanted and nothing is registered: the watcher is deaf although `ev_io_set` was called, as `ev.pod` 1623-1627 asks. `EvFd!KernelAgrees` fails with `Restoring = TRUE`; without such a restoration it holds.
6. `fd_rearm_all` resets `emask` and leaves `epoll_eperms`, so every fork or renewal appends a regular file that is watched once more, against the comment at `ev_epoll.c` 124. The events of the copies merge; the array grows. `EvFd!EpermsOnce` fails.
7. Stat watchers on a local file system, without polling (named in `EvStat!ChangesReported`): `ev_stat_start` looks at the file before it adds the watch and never again, and `infy_fork` adds the watches again without a look, so a change in between is not seen (`ev.c` 4738-4757, 4661). The second look in `stat_timer_cb`, "to avoid race" (4721), takes in a file that was moved away after the watch was added: the watch follows the moved inode, there is no timer, and a file created at the path later is not seen. An `IN_IGNORED` that the kernel's queue dropped leaves a watcher that shared the descriptor deaf. The comment that `prev` is always different from `attr` in the callback (4710) is not kept when the file changes back between the two looks. Times are compared in seconds.
8. `ev_resume` without a monotonic clock, after the clock was set back, moves the timers twice (`ev.c` 3933-3936): `time_update` has corrected them already.
9. `signals[].pending` stays set when a watcher is stopped before `pipecb` looks at it, and gives a later watcher of the signal an event of the past (4343, 2687). After `loop_fork` the event fed to `pipe_w` does not keep the loop from sleeping up to `MAX_BLOCKTIME` (3218, 3789). `kqueue_fork` leaves `kqueue_changecnt` as it is, which is harmless as the changes name descriptors that are rearmed.
10. Echo servers (named in the properties of `IoServers`): a connection for which poll's table has no entry is neither served nor closed (`poll_example.c` 79); nor is one whose descriptor is `MAX_FDS` or more with select, where nobody looks at the result of `add_fd_info` (`select_example.c` 73) and `FD_SET` writes outside the set (76); a reply or a welcome to a client that has reset its connection may raise SIGPIPE, which no server ignores, and ends the server for all clients (`io_common.c` 83 and 112, and the writes of the libev servers); epoll's server gives up `accept` when descriptors run out and hears of the waiting connections with the next one only (`epoll_example.c` 65); kqueue's server closes on `EV_EOF` with data unread (`kqueue_example.c` 148); `exercise/echo` frees a static watcher at the end of its input (`echo_server.c` 24), and its `client_watchers[]` are never reset, which would close and free twice if `ev_run` returned. The sockets of the libev servers are blocking.
11. IPC programs: `signal` makes the kernel restart `open`, `read` and `mq_receive`, so that Ctrl+C ends a server with its next message only, although it prints that Ctrl+C quits. A client that waits in `open` for a pipe whose server was killed waits for ever, as the next server makes a new pipe; `ENXIO`, which the client tests for (`fifo_client.c` 14), is not an answer to a blocking `open`. A message written while the server closes and opens the pipe again is lost when its writer leaves, or its writer is ended by SIGPIPE. A POSIX queue is left to its old clients when the server starts again. In the shared memory example the child may call `shm_open` before the parent has made the memory (148): it exits, removes all the names, and the parent waits for ever after its first message. The comment there (63-65) says that a signal cleans up; a signal that comes after `sem_open` has made a name and before the pointer is assigned (197, 203), or before the names of a killed run have been unlinked (188-190), leaves that name, as `cleanup` passes over a pointer that is not set (51, 55). The next start removes it before it opens.

Read in the code and not the subject of a run: the MPMC destructor tests for an odd stamp where the parity of the position decides; with capacity 1 the stamp of a full slot equals the next position and the next `enqueue` constructs over a live element; `size_approx` subtracts in the wrong direction; `enqueue` on a full ring spins although its comment says it returns false. A comment of the SPSC ring speaks of a slot left free while the code uses all of them (the model shows this is sound). `ev_embed_start` starts its io watcher on the embedded loop and `ev_embed_stop` stops it on the parent (`ev.c` 5018, 5048). The branch of `ev_signal_start` for signalfd does not compile (`ev.c` 4296). `13.thread_pool.cpp` waits on its condition variable without a predicate.

## 5. Proofs

`EvLoopProofs` proves for every finite set of watchers, every assignment of kinds and priorities, every number of priorities and any bounds, from `ConstantsAssumption` alone:

* `TypeCorrect`, `PendingCorrect`, `ActiveCorrect`, `PriorityCorrect`, `RefCountCorrect`: the types and the invariants of run `loop`;
* `StopSilencesCorrect`, `EvRunDrainsCorrect`, `BreakAllKeptCorrect`: action properties (a stop leaves no entry behind, `ev_run` returns with empty queues, the loop never takes `EVBREAK_ALL` back), which no run repeats;
* `DeliveryCorrect`: `Spec => DeliveryRefined`, the pending queues implement `EventDelivery`.

They follow from one inductive invariant, `Inv`. Its parts: `QueueOK` (types of the queues and `PendingIndexed`), `ArraysOK` (`ActiveIndexed`), `RefCountExact`, `CtlOK`, `StackOK` (`HighestFirst`, the shape of the stack, and what each program counter implies about the queues) and `OuterDestroy` (the frame of `ev_loop_destroy` is the outermost). The properties do not carry themselves: `HighestFirst` needs to know what every program counter below the top says (they are inside a callback), that a nested run leaves the queues empty, and that a queued entry names a watcher of that priority. The functions of the queues and of the arrays (`FeedEvent`, `ClearPending`, the removal of the last entry, `StartWatcher`, `StopWatcher`) each have a lemma that says what they keep and what they change; there is one lemma per action of `Next` above them, and the refinement repeats this shape for `Due`.

`DHeapProofs` proves for every set of timers, all integer times and both branching factors, from `DHeapAssumption`:

* `HeapCorrect`: `Spec => []HeapInv`, the invariant of run `heap`;
* `VerifyHeapHolds`: `Spec => []HeapVerified`, the assertions of `verify_heap` whenever no operation is under way.

`HeapVerified` is not inductive: in the middle of `upheap` and `downheap` an entry is in the array twice and the one held is nowhere. `HeapInv` says what holds there too: with the held element put into the hole, every timer is at its index (`Indexed`) and has its own time (`Cached`), and every entry comes after its parent (`Ordered`) but for the held one, which may come before its parent on the way up and after its children on the way down; the hole's parent comes before the hole's children, so that the element can be put anywhere on the path. There are lemmas about parents and children as numbers (`ParentBefore`, `ChildrenHaveParent`) and one for each action.

`EvTimerProofs` proves for every finite set of watchers, all kinds of timers and periodics, all intervals and settings of the clocks, from `EvTimerAssumption` (bounds and intervals are numbers):

* `TimerInvHolds`, `NeverOversleepsHolds`: the invariants of run `timer`;
* `NeverEarlyHolds`, `CalledInOrderHolds`, `OncePerPointHolds`: its action properties.

The inductive invariant is `Typed /\ TimersRight /\ TimersLate /\ PointsRight /\ NeverOversleeps`. `NeverEarly` has a half for timers and one for periodics: that a timer's stop-watch has run out when it is found expired, and that the real-time clock, as `time_update` has just read it, has passed the time of a periodic (`ExpiredPeriodic`). `TimerInv` speaks of a monotonic clock only; without one the expiry of a timer and its stop-watch drift apart with each correction, and what stays true, and is enough for `NeverEarly`, is that a timer is never nearer than its stop-watch says (`TimersLate`). `PointsRight` says that a periodic's time is an `offset + k * interval` after its last call. `NeverOversleeps` is about smallest and largest elements of sets of times, for which there are lemmas (`MinExists`, by well-founded induction over the subsets), as for multiples of an interval.

`EvAsyncProofs` proves for any finite number of threads and signal handlers, any watchers, any number of sends and any size of reads, from `AsyncAssumption` and `Locking` (sender and callback share a lock or another full fence for their data):

* `AsyncInvHolds`: `AsyncInv`, the invariant of run `async`. Without `Locking` it is false, section 4.

Its `Inv` says why a store can still be in a buffer (`Explained`: whoever made it has not come to a fence) and which is the last (`Ends`), that a send no callback has seen is found by a scan of its target (`SentStays`), that the scan will come (`FlagStays`) and that the loop will be woken for it (`Wakes`), or has not gone to sleep yet (`WantedLast`, `Waits`). Each is about memory and all the buffers at once, so the proof has lemmas about what a store, a fence and the arrival of a store do to what a processor sees, and one for each action.

`EvFdProofs` proves for any watchers, any finite set of descriptors, any files and any number of calls, from `FdAssumption` and `~Restoring` (no descriptor is given back a file that epoll still watches under its number; otherwise `KernelAgrees` is false, section 4):

* `KernelAgreesHolds`: the invariant of run `fd`;
* `NoStaleEventHolds`, `SpuriousIsAnsweredHolds`: its action properties.

`KernelAgrees` speaks of the moment the loop polls. What holds at all times: `fd_reify` will come to every descriptor whose `events` are not those wanted (`Noted`), what `events` says is what the kernel gives, or `ev_io_set` has been called or will have been (`Known`), `emask` and `egen` are right about the file the descriptor names now (`Believed`) although they may be wrong about files it named before, a number is used once for a descriptor (`Numbered`), and an event with the present number is of the file it names now (`Current`). `Orderly` says what is simpler while no interest has outlived its descriptor; it gives `RenewedForStraysOnly`. There are lemmas about `SetToSeq` and `fd_change`, one for each outcome of `epoll_ctl` in `fd_reify`, one for each kind of event, and one for each other action.

`EvFdProofs` also proves, for any watchers, any descriptors `0 .. m`, any events asked for and any number of troubles, from `WatchersAssumption`:

* `TablesToldHolds`: `TablesTold`, an invariant of run `backends`: `pollidxs` and `polls` name each other, and when the loop sleeps poll, select and event ports watch of each open descriptor what its watchers ask for.

`TablesTold` speaks of the moment before the poll. At all times (`TablesKept`) a descriptor with a flag in `reify` is in `fdchanges`, once (`Queued`), and any other has the events its watchers ask for (`AskedOrQueued`); the tables follow `events`. Poll has one entry for each descriptor with events, at its index (`PollTable`), select has the bits of `events` (`SelectTable`), and a port has the events of a descriptor unless an event, a close or a refusal has ended the association; then the descriptor has `EV__IOFDSET` in `reify`, or nobody watches it and whoever starts to has called `ev_io_set` before (`PortTable`, `Renewing`): without this last part a file opened under an old number with the old events would go unwatched. `PollSet`, `PollAdd` and `PollRemove` are the three cases of `poll_modify`, of which the third moves the last entry into the hole; `TakeRight` is what a turn of `fd_reify` makes of the queue when the descriptor is killed in it and appended again.

`SpscQueueProofs` proves for every capacity and any number of values, over store buffers of any length, from `CapacityAssumption`:

* `RingSoundHolds`: the invariant of run `spsc`;
* `FifoRefinedHolds`: `Spec => FifoRefined`, the ring implements `FifoQueue` for one consumer.

A thread's stores alternate between a slot and its counter, so the number of stores it has made, and of those that have reached memory (`Pushed`, `Popped`, `PushedOut`, `PoppedOut`), determines what is in its buffer (`ProducerStores`, `ConsumerStores`); `Positions` orders the four counts, `Elements` says that the slots with an element in memory are those between them. Two positions less than a capacity apart have different slots (`SlotsDiffer`). In the refinement a value enters when `write_` reaches memory, and one lemma per action says which step of the queue it is.

`MsQueueProofs` proves for any number of producers and consumers and any number of values of each, from `ItemsAssumption`:

* `LinksSoundHolds`: the invariant of run `ms`;
* `FifoRefinedHolds`: `Spec => FifoRefined`, the linked queue implements `FifoQueue`.

No pointer a thread has loaded is ever wrong about what it says for good: a linked node stays linked, nodes stay in their order (`NoLater`), and a next pointer that is not null never changes. `ProducerOK` and `ConsumerOK` say what a thread knows at each place, in these terms only, so that one lemma (`OneThread`) shows that the steps of the others leave it true; what a step may do to the shared state is in `Grows`. The rest is about the four moments that matter: a null next pointer of a linked node is that of the last one, so a successful exchange links at the end and `tail_` is there (`NodeLinked`); the next pointer loaded by a helper is right whenever its exchange succeeds (`TailMoves`); a head that differs from the `tail_` loaded after it has a next node not past `tail_` (`NextNotPastTail`), so `dequeue` may use the pointer without a test (`HeadMoves`); and a dequeue that loads a null next pointer has the last node, so the queue is empty at that moment (`NullFindsEmpty`), even if `head_` is not tested until later.

`MsQueueProofs` also proves of the MPMC ring, for any producers, consumers, values and capacities, from `UsesAssumption` and `NoneLapped` (in none of the `Uses` can a thread be lapped):

* `RingKeepsItsSlots`: `RingKept`, the invariant of run `mpmc`;
* `RingFifo`: `RingSpec => RingIsFifo`, the ring implements `FifoQueue`.

`MpmcQueue!Unlapped` is the condition under which the code is right: the capacity is even; one producer alone has values, or there are no more values than slots; and there is one consumer, or there are fewer values than slots. `SoundUnlapped` has TLC evaluate that the uses of run `mpmc` meet it; outside of it section 4 has two counterexamples. In the inductive invariant `RingInv`, `Window` says of each position from `tail_` on, for one lap, what the stamp of its slot tells and who is at the slot: empty, still being emptied one lap before, being filled, or full. `FillsOf` and `EmptiesOf` say the same of a thread that has a slot, and `ReadyToFill` and `ReadyToEmpty` that a thread which will win its compare-and-exchange has seen the stamp of its own lap. That is where the condition comes in: a stamp has the right parity in the wrong lap only if another thread is a lap behind at that slot (`LooksFree`, `LooksFull`); each position has a value of its own (`Claimed`), so that then the thread, with a value not yet enqueued, would be one value too many (`PositionsFew`, `ValueLeft`). The rest is arithmetic of slots and parities (`Remainder`, `SlotsDiffer`, `SlotMet`, `Parities`), and one lemma for each action.

`ExamplesProofs` proves two parts of run `examples`. `ServersInvHolds` and `ClosedForCauseHolds` are `ServersInv` and `ClosedForCause` of the six echo servers, for any set of connections, any limit of descriptors, any limit of select, any size of the poll table and any number of messages, from `IoServersAssumption` (there is a descriptor, and select's set and poll's table have room for the server's). The inductive invariant `ServersInductive` has six parts: the types (`ServersTyped`); an open descriptor is of one connection, and one that waits for `accept` has none (`Connections`); a server waits for all it has accepted but what it has leaked, with select only descriptors beyond its limit; the poll table has no descriptor twice; and a dead server has nothing (`Remembers`); what is left of a pass is open, waited for and not what is being served, or `close` in the middle of the pass would leave a closed descriptor in it (`Passing`); what is flagged and still to come in the pass is a connection that was reset, or with kqueue has ended (`FlagsRight`): this is why a server that looks at flags of the last wait closes nobody who is up; and with epoll a descriptor that is ready has its edge, is still to come in the pass, or is served (`EdgesKept`). The last is what `NothingForgotten` says of the moment before a wait, extended to the pass, where the edges are used up already. `SelectWait` states the order in which select reports as a condition on the sequences `SetToSeqs` gives, because `SetToSortSeq` is recursive.

`ExamplesProofs` also proves `MemoryInvHolds`, `MemoryInv` of run `examples`, for every number of messages and starts, from `MessagesAssumption` (the program sends at least one). It says too what may be left behind when both processes have ended: nothing, unless one was killed; after a signal during the start-up at most the names of semaphores. `Starts` follows the start-up: which names exist and what the semaphores count from the first `sem_unlink` to `fork`, so that a start over anything a run can leave begins with 1 and 0. Whoever has the token, one of the semaphores or a process between its wait and its post, knows how far the printing is; a killed process may take the token with it, and then nothing more is printed.

`EvTimerProofs` then proves of the stat watchers, for any finite set of them, any number of changes, starts and forks, any length of the kernel's queue and all kinds of file systems, from `StatsAssumption` alone:

* `PathsWatchedHolds`: `PathsWatched`, a watcher that runs has a watch or a timer, one that does not has neither, and the inner timers are not counted;
* `ChangesSeenHolds`: `ChangesSeen`, when nothing is left to do what a watcher knows is what is there, but for the races of section 4, item 7.

`ChangesSeen` speaks of the moments in which the loop has nothing under way and the kernel's queue is empty; most of the inductive invariant `StatKept` is what takes its place in between. `AgendaRight` lists the calls that can be under way, which are those of one watcher (`Check1`, `Stat3` and so on) or the `infy_add`s of a start or a fork. `Looking` says that each watcher has a timer, has a look ahead of it (`ToLook`, `Heard`: an event still in the kernel's queue or in the buffer of `infy_cb` before the loop has passed it), is one of the named cases, or is up to date and watches the inode the path leads to (`Sees`), so that the kernel will queue an event with the next change. `GoneTold` says that a watcher whose watch the kernel has removed is told by an event that says so, which is what makes `infy_wd` add it again, unless the queue overflowed. Between two watchers the only thing that passes is the shared watch: `Undisturbed` and `WatchStep` say what a step about one must leave to the others, and `OtherKept` that this is enough. Changes of the file are one lemma, `WorldKept`: whoever watches the inode of the path gets an event.

`EvTimerProofs` last proves of signals and children, for any sets of signal, child and async watchers, any children and size of the hash table, any number of signals, exits and forks and any interleaving with the handler and other threads, from `SignalsAssumption` (the watchers are structures of their own, pids are positive):

* `SigInvHolds`: `SigInv`, the invariant of run `signal`: table, handlers and queues agree and only started watchers are pending; a caught signal has its flag set and the loop has been told; while `waitpid` has something to say, SIGCHLD or `childcb` is on its way;
* `StatusKeptHolds`: `StatusKept`, `childcb` writes the status of a child to no watcher that is pending for an earlier one.

`SigKept` adds to `SigInv` what makes it inductive. A signal that is owed to the loop is still `attached`, since the last `ev_signal_stop` takes it back; the loop is told of something only when it has a pipe, so that `loop_fork` has one to replace (`CaughtRight`). `childev` is in the table of the default loop for good (`ListsRight`), so SIGCHLD always has a handler and `pipecb` always feeds `childev` for it. `StatusKept` rests on the order of one queue: a pending child watcher is at `EV_MAXPRI` and above `childev` in the queue (`ChildsAfter`), which is emptied from the top, so that none is left when `childev` is called (`ChildevLast`); `childcb` keeps it so by feeding `childev` before the watchers. The lemmas `PickedRight`, `DroppedRight`, `FeedEventsRight` and `WithoutRight` say what the operations on the queues leave in them and in which order.

Only model-checked: liveness (`BreakAllUnwinds`, `EverySendSeen`, `EveryChildReaped`, `BadFdsStopped`, `EveryValueArrives`, `RingEmpties`, `Answered`, `AllPrinted`), which the prover does not reach; the message programs (`LostForCause` filters sequences by `SelectSeq`, which the library defines by recursion); `KqueueTold`, which folds the kernel's answers over a queue of changes. The proofs about `EvAsync`, `EvFd` and `MpmcQueue` say nothing about the cases their hypotheses exclude.

## 6. Not modelled, and what is left

* Embed watchers: two loops with their kernels, more than TLC can enumerate with `EvFd` in each. The one thing read about them is in section 4.
* `ev_once`, `ev_walk`, the libevent layer (`event.c`), C++ and macro wrappers, loop creation and getters: compositions, forwarding, or straight-line code whose result is `Init`.
* signalfd (does not compile), `EVFLAG_FORKCHECK`, `io_blocktime`, Windows; in `EvFd` lack of memory or watches (`ENOMEM`, `ENOSPC`) and the growth of `epoll_events`.
* The MPMC ring's destructor, move constructor and `size_approx`; the bench programs beyond the threads' loops.
* The memory-order demo (litmus tests), the thread pool and the other exercises.

Theorems worth adding: `KqueueTold`, whose changes the kernel would have to answer one step at a time, and `LostForCause` over message queues that do without `SelectSeq`.
