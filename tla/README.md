# TLA+ specifications of the gesture control system

The repository is a desktop program driven by hand gestures: a Python engine
(`src/mediapipe/*.py`) reads a camera, classifies hands with MediaPipe and moves
the mouse; a Next.js application (`src/app/PROYECT/gesture-control-interface/`)
configures it; and the MediaPipe framework itself
(`src/mediapipe/mediapipe/framework/`), whose scheduler runs the graph of
calculators that finds the hands, is part of the tree.

This directory holds TLA+ models of the parts whose behaviour is hard to test,
TLC configurations that check them on small instances, and TLAPS proofs of what
holds for every instance.

| module | models | theorems |
|---|---|---|
| `SchedulerQueue` | `scheduler_queue.{h,cc}`: queues, tasks, idle callbacks | `SchedulerQueue_proofs` |
| `Scheduler` | `scheduler.{h,cc}` over those queues, with the nodes and streams of a small graph | `Scheduler_proofs` |
| `Throttling` | full streams in `calculator_graph.cc`, `input_stream_manager.cc`, `scheduler.cc` | `Throttling_proofs` |
| `Timestamps` | `timestamp.{h,cc}` | |
| `InputStream` | one stream of `input_stream_manager.{h,cc}`, as functions on records | lemmas in the proofs of its three users |
| `InputSets` | `input_stream_handler.cc` and the policies of `stream_handler/` | `InputSets_proofs` |
| `ParallelNode` | a node with parallel invocations: `calculator_node.cc`, `in_order_output_stream_handler.cc`, `output_stream_{handler,manager}.cc`, contexts | `ParallelNode_proofs` |
| `SequentialNode` | what such a node promises: the abstract specification of `ParallelNode` | |
| `GraphOutput` | `graph_output_stream.{h,cc}`: observers and pollers | `GraphOutput_proofs` |
| `VisionLoop` | `app_gestures.py` (`run_vision_loop`), `gesture_analyzer.py`, `pc_controller.py` | `VisionLoop_proofs` |
| `ConfigSync` | `config.json` between `app_gestures.py`, `route.ts` and `python-settings.tsx` | `ConfigSync_proofs` |

`MC*` modules give TLC its constants; every `.cfg` is one question.

`Timestamps` is extended by `InputStream`, which is extended by `InputSets`,
`ParallelNode` and `GraphOutput`; `Scheduler` instantiates `SchedulerQueue`, and
`ParallelNode` instantiates `SequentialNode`.

Run `tlc -config X.cfg MCX.tla` and `tlapm X_proofs.tla`.

## Inventory

### Framework (C++)

*Scheduler queues* (`SchedulerQueue`). State: the priority queue of items,
`num_tasks_to_add_`, `num_pending_tasks_`, `running_count_`, under `mutex_`.
Operations: add a node, run the next task, set running, submit the waiting
tasks, clean up. A queue calls the executor (`AddTask`) and the scheduler
(`idle_callback_`) *after* it released its mutex. Correct when no item is left
without a task nor a task without an item, the pending count is exact, and the
callbacks add up to the number of queues that are not idle.

*Scheduler* (`Scheduler`). State under `state_mutex_`: `state_`, `handling_idle_`,
`non_idle_queue_count_`, the active, waiting and unopened sources; atomics
`has_error`, `stopping`. `HandleIdle` decides, whenever all queues are idle,
whether to end the run, to activate the next source layer or to unthrottle; it
unlocks while it does so and can be re-entered. Correct when it misses no event,
ends a run only when all is done, never leaves a task in a stopped queue, never
loops with the mutex, and every run whose inputs are closed ends.

*Nodes* (`CalculatorNode`). State: `status_`, `scheduling_state_`,
`current_in_flight_`. `EndScheduling` must see input that arrived during the
invocation, and a closed node must not be scheduled again.

*Streams* (`InputStreamManager`, `InputStreamHandler`, `OutputStream*`). State:
packet queue and timestamp bound of each stream, under a mutex of its own. A set
of inputs may be processed when every stream is settled; outputs leave in
timestamp order although invocations may run in parallel; a stream that becomes
full throttles the sources behind it.

*Graph* (`CalculatorGraph`). Full streams of each source, graph inputs and their
state, errors; the calls of the application; `UnthrottleSources`.

*Graph output streams*: observers, where one thread notifies for all, and pollers.
*Executors*: thread pool or the application thread.

### Engine (Python)

*Loop* (`run_vision_loop`): chosen hand and `wrong_hand_frames`, detection on or
off, game mode, the keys, the config watcher. *Analyzer*: poses to actions, the
wrist history for swipes. *Controller*: the mouse button, debounces, cursor
freeze. *VideoStream*: a thread that reads and reconnects. *API logger* and
*MJPEG server*: daemon threads. *Calibration and Tk window*: never started by
`main()`. Correct when the button is never held without a drag, an accidental
hand is not obeyed for long, one gesture is one action, and settings reach the
engine and stay.

### Web (TypeScript)

*Engine settings*: a page and a route that read, merge and write `config.json`.
*Gesture API and profile settings*: handlers before a Convex database, and a page
with optimistic state. *Fruit game*: animation with a small state.

### How they interact

Worker threads call queues, queues call back the scheduler, the scheduler calls
the queues and the graph, the graph calls the scheduler; application threads
call the graph. The engine runs MediaPipe through its Python binding, in its
own thread. Engine and web server share only `config.json` (no lock) and HTTP
posts of log entries. `PROJECT.json` lists every component, modelled or not, and
every hazard at its line.

## SchedulerQueue

One action is one critical section of a queue's `mutex_`, one idle callback or
one `AddTask`. `inHand[q][t]` are tasks a thread took under the lock and has yet
to hand over; `owesActive` and `owesIdle` are threads between a change of the
queue and the callback that announces it; `nonIdle` is what the scheduler has
counted. Items are counted, not named.

Run `queue` (2 queues, 2 workers, 1 application thread, 2 items per queue):
`TypeOK` (no counter below zero), `WaitingTasksMatch` (an item for every task and
a task for every item, so the check at `scheduler_queue.cc:197` cannot fail),
`PendingTasksMatch`, `CallbacksBalance` and `ZeroMeansIdle`. Two of everything is enough for a
callback of one queue to be late while the other goes through a cycle; the
proofs remove the bounds.

Two sentences of `scheduler_queue.h:98-103` are stronger than what holds. "A
'become idle' invocation is always preceded by the corresponding 'become
active'" fails when a task that waited in a stopped queue is submitted by another
thread than the one that pushed it: it may end before the pusher makes its call,
and the count is one too low for a while. "When the difference reaches 0, the
queue is guaranteed to be actually idle" then fails with it, and it fails between a
push and its callback anyway; run `fed_quits_early` shows what the scheduler makes of
that.
What holds always is `CallbacksBalance`: counted plus owed callbacks equal the
number of busy queues. What holds of zero is `ZeroMeansIdle`: it means idle while
every thread that still owes a become-active call is inside a task and has yet to
hand over the tasks it took.

**Proof.** `IInv` = `TypeOK` /\ `Bounded` (one call per thread) /\ the three
balances. They are inductive only together: that a counter stays natural follows
from the balance, and the balance from the types. Each action is a lemma; sums
over threads and queues are handled by counting how many threads or queues
satisfy a predicate. `ZeroMeansIdle` does not follow from the balance alone: it
needs to know which queue a late call is about. `OwnersInv` chooses for every
owed become-active call a queue of its own (`OneOwner`), busy as long as the
owner has tasks in hand, such that no thread's queue is the one its own task
belongs to, nor do two threads wait for each other in a circle (`Acyclic`); then
fewer calls are owed than queues are busy (`FewerOwners`) as soon as one is busy,
and zero is out of reach. Assumed: finite sets of queues and threads, disjoint
thread kinds. The five theorems are the five properties.

## Scheduler

`Queues == INSTANCE SchedulerQueue` maps the queue lengths to sets of items; the
queue part of every action *is* the action of `SchedulerQueue`, so the scheduler
composes it and `QueuesImplemented` (its `Spec` as a property) checks that
nothing else touches the queues.

- `HandleIdle` is split where the code unlocks: `smutex` is the thread that keeps
  `state_mutex_` from one action to the next, `handler` the thread inside
  `HandleIdle`, `again` whether another call came meanwhile, `stage` where the
  handler is.
- A call such as `Start`, `Resume`, `Cancel`, `AddPacket`, `CloseInput` is the
  critical section and then the steps it owes (`owesSubmit`, `call`, `todo`).
- A worker pops an item, runs it (open, process, close), propagates (`todo`),
  calls `EndScheduling`, and finishes the task.
- `todo[t]` are the requests to schedule a node that thread `t` has still to make,
  those of `HandleIdle` (`Handled`) included: it makes them one by one, without
  `state_mutex_`.
- Graph: sources in layers, joins of some sources and of the graph input.

Runs and bounds:

| run | graph and calls | shows |
|---|---|---|
| `scheduler_run` | source and graph input into a join, 2 packets + 1, streams of 1, `StatusStop` | a run ends, and then all is processed, closed and returned; no closed node is queued; idle means quiet |
| `scheduler_layers` | 3 sources in 2 layers, one waits for a side packet; 2 joins; stop, error, cancel, pause, resume | `HandleIdle` misses neither the end nor a layer; `running_count_` agrees with `state_`, no stranded task, queues implemented; types |
| `fed_quits_early` | 2 joins with an executor each, fed by the application; errors | finding: `Quit` with a task pending |

Streams of one packet make every source throttle; two workers and one
application thread are three threads between which calls to `HandleIdle`
collide; two packets let a node be invoked again while the first invocation
ends.

`fed_quits_early` is what becomes of the late become-active call (above). The feeder
has pushed into the idle queue of the second join and taken its task, but not yet made
the call, when the first join fails in its executor; that queue's become-idle call
brings the count to zero, and `HandleIdle` quits because of the error, against the
comment in `Quit` (`scheduler.cc:191`).

Three instances that no run keeps, for whoever changes this code. With Pause (one
source, a join on an executor of its own, 3 workers) `SubmitWaitingTasksToExecutor` of
`Resume` submits a task whose pusher has yet to call back; the task ends first, the
count is one too low, and a run without an error ends with a join not closed:
`EverythingProcessed` fails. A source layer activated while the input is fed submits
such tasks in the same way, and no error is needed: take two sources in two layers on
one executor, a join of the input on another, joins of the first source on a third, and
3 workers. The feeder closes the input while the handler, activating the first layer,
has stopped the queues; the handler submits the feeder's task, which ends before the
feeder's become-active call. From then on the count is one too low: the second layer is
activated while a worker is still in the last task of the first source, and the call
that makes the count zero again makes `Quit` come before that worker has scheduled the
join. `ExecutorsDone` and `IdleIsQuiet` fail, and with two such joins
`EverythingProcessed`: the run ends without an error and one join is not closed. And
with the input open and a source of the lowest layer still waiting for its side packet
(two sources in two layers, 2 workers) `TryToScheduleNextSourceLayer` returns at once
and the loop of `HandleIdle` goes round for ever with `state_mutex_` held
(`scheduler.cc:158`), so that the call that would end the wait blocks.

Fairness: `WF` on what a thread does once a call or a task has begun and on
`Start`. Threads of a process are scheduled and an executor runs its tasks;
nothing is assumed about adding packets, closing inputs, pausing or resuming.
`Terminates` is therefore conditional on the inputs having been closed, and on
the application not leaving the graph paused.

Abstractions, beyond the size of the graph: `SetQueuesRunning` on all queues is
one step; so are `ActivateNode` with its throttling check,
`CheckIfBecameReady` and `UnthrottleSources`; whether a source is throttled is
read off the streams rather than kept in `full_input_streams_`; the sets
`active_sources_`, `sources_queue_`, `unopened_sources_` are read off the nodes'
status; sources of one layer are ordered nondeterministically; timestamps are
consecutive; at most one invocation of a node in flight; `report_deadlock` off;
one run (no `Reset`). A calculator's `Process` fails in a join only (`RunJoin`), and an
application may report an error: the error paths of `Open` (`scheduler_queue.cc:297-302`),
of a source's `Process` and of its `Close` (`:255-260`, `:278-281`) and of `CloseNode`
have no action. They record an error as `RunJoin` does, but at other points of a
node's life, which the modules therefore do not speak of. Deadlock checking is off in every run: a terminated run
stops.

**Proof.** Nine theorems, for every graph, any number of threads and queues and every
combination of errors, `Cancel`, `Pause` and `Resume`. Assumed
(`SchedulerAssumption`): queues, nodes and threads are finite sets, workers are not
application threads, every join reads something. `Scheduler_proofs` instantiates
`SchedulerQueue_proofs` at this module's queues (`Proved`), so that what was proved
there is not proved again; `QueueConstantsHold` shows the constants fit and `SameQueues`
that the actions are the same.

- `BaseInv` holds the types, `RunningCountMatchesState`, and what these two need: which
  thread inside `HandleIdle` stopped the queues (`HandlerMatches`), that the cleanup
  begins only when the run is over (`CleanupComesLast`), and the queues' own `IInv`,
  for the length of a queue is a cardinality here and its step must be shown to be the
  one `SchedulerQueue` takes. It gives `SchedulerTypes`, `CountsMatchState` and the
  refinement, `ImplementsQueues`. `NoTaskStranded` is inductive on top of it.
- A node is *claimed* by an item in a queue, by a request some thread is to make or by
  the task a thread runs. `ClaimInv`: a node is claimed once (`OpenNode` apart from the
  rest), and `current_in_flight_` or the status marks the claim. `ActivationInv`: only
  the handler activates sources. `StatusInv`: each claim fits the node's status, and a
  closed node keeps its mark. Without the uniqueness of claims the first `EndScheduling`
  of two would take the mark away from the other, so `ClosedNodesStayOut` needs all of it.
- `NothingIsMissed` is the longest argument. `MutexMatches` (who keeps `state_mutex_`),
  `WorkInv` (only a thread with a task runs an item), `RequestsOwned` (a thread with
  requests is in a task, in a call, or the handler) and `Chosen` (a chosen source is
  with the handler) say that in a moment of rest nobody has anything left to do;
  `SourceInv` that an active source is then throttled; `MissInv` that what the handler
  found in a *calm* moment (idle queues, no callback nor call owed) is still so unless
  `handling_idle_` went above 1. A step that disturbs the calm and one that restores it
  are the two cases of its proof.

- `QuitsWhenDone` is `ExecutorsDone` for the graphs in which it holds (`Undisturbed`):
  nothing pauses them, and if the application feeds them they have no sources, and no
  error or `Cancel` ends them early. The run `fed_quits_early` and the instances above
  show what each condition keeps out. Zero means idle (`ZeroIsIdle`) while every thread that owes a become-active call has
  tasks in hand; `OwingInv` says which threads owe one without (a call of the
  application, the handler, `Start`), and `Alone`, what the application can still do,
  that none of them does when the inputs are closed. So `Quit` and the activation
  of a layer find the queues really idle, and `StillInv` keeps them so while they are
  stopped: a pushed item then waits, and no task runs that could push another.

- `NothingLeftBehind` is `EverythingProcessed` for undisturbed graphs without late
  sources: a source whose side packet never comes stays unopened and the run still
  ends. `NodeCared` says what a node is owed while nothing has failed: one that is
  prepared has a claim to be opened; an open join in flight a claim to `Process` or
  `Close`; a ready one that is not in flight a request for `CheckIfBecameReady`; and what
  is closing has closed, empty inputs. In a run that has ended nobody is in a task or a
  call (`EndedStill`), so no such claim is left; `EndedInv` adds that `Quit` without an
  error found no source. Then the sources are closed, hence the joins.
- `IdleMeansQuiet` is `IdleIsQuiet` for undisturbed graphs. `OwingInv` lets a thread
  owe a become-active call as the handler that activated or unthrottled a source, and
  with all sources closed there must be none: `AwakeInv` says that such a thread runs a
  task, feeds the graph, or there is an item of a source to show for it. The item it
  pushed may be popped before the call; but then, its own task being still in its
  hands, the queue holds another item of no higher priority, so of a source
  (`SourceLeft`, by `Item::operator<`). An item of a source means the source is active.

Not proved: the three properties for a graph with both sources and an input. They are no
theorems of such graphs (the instance with two layers above); `scheduler_run` checks
them for one source and two workers. `Terminates` is liveness and stays with TLC.

## Throttling

A stream compares its length with `max_queue_size_` under its own lock and calls
`UpdateThrottledNodes` after it, which asks the stream again under
`full_input_streams_mutex_`. `owes[t]` is the callback a thread has still to make,
`full` the table, `reported` what was last entered, `throttled` the scheduler's
count of graph inputs. `HandleIdle` calls `UnthrottleSources`, split into the copy of
the table (`FindFullStreams`), the size of one stream (`ReadQueueSize`) and its new
limit (`GrowStream`), since application and callbacks go on meanwhile.
`AddPacketToInputStream` is `BeginAdd`, `EndWait`, `AddPacket`, `AddedPacket`, in both
modes (add if not full, wait till not full), with a packet that is rejected.

Run `throttling`: a source and a graph input into a join whose output is polled;
streams with a limit of 0, which are full when empty, and a polled stream of one
packet; 2 packets of the input and 1 of the source. `ThrottlingIsCurrent`: callbacks
in any order leave the table, the count and the streams in agreement once they are
made (the two `ABSL_DCHECK_EQ` of the table hold). `NobodyForgotten`: an unthrottled
source and a waiting call are always taken up by somebody. `CallReturns`: with `WF` of
the threads outside `HandleIdle` and of the one inside, every call to add a packet
returns. Limit 0 is the hardest case: nothing moves without `UnthrottleSources`, and
a limit it sets can be overtaken by the packet it was computed without. A graph
without a limit throttles nothing (`IsNodeThrottled`, `FullAt`): the run has no such
graph, the two theorems below cover it.

What else the model shows: `UnthrottleSources` can make a limit *smaller* when packets
are taken between its two calls (`calculator_graph.h:418` says "increases"), and it
may return true without having unthrottled anything, so that `HandleIdle` goes round
until another thread makes its callback.

Abstractions: a stream is a number of packets, and a node answers each input set with
one packet; one application thread uses the graph inputs (`calculator_graph.h:81-83`
asks for it), another may `Cancel` while it waits; so the run shows of a rejected packet
that its own call returns, and cannot show what it does to a second caller; an input is
closed after its last packet. Not modelled: `report_deadlock`, a poller that changes its limit, the clearing
of the table by `CleanupAfterRun`, a second thread that closes the inputs during a
wait (then `WAIT_TILL_NOT_FULL` would spin once the graph has ended without an error).

**Proof.** `TableIsCurrent` is `ThrottlingIsCurrent` for every graph, limit and number of
packets. Its `IInv` adds `OneCallback` (a thread that has a callback to make has no
other: without it a callback could be overwritten by a later one of the same thread)
and `HandlerInv` (the thread inside `HandleIdle` does nothing but grow streams, and has
made its callback before it reads the next size). `StreamStep` is the case of a stream
whose length or limit changes, `TableStep` the case of a callback; every other action
leaves the table alone. That the count is a cardinality rests on two lemmas about
disjoint unions and differences.

`NobodyIsForgotten` is `NobodyForgotten`, the types among it. On top of `IInv` its
`ServedInv` needs: `PreparedInv` (a node that is prepared has one thread to add it, and
that thread alone reads its streams: otherwise a queue could be read when it is empty),
`TasksInv` (the count of tasks is that of the runners in flight, the workers in a
scheduling loop and those about to end) with `LoopInv` (a worker is at one place of the
loop), `CallInv` (the call adds to an input with packets left), `FreesInv` (who frees
sources has no callback to make, which would overwrite them). Then an unthrottled
source is in somebody's `frees` or its worker is in the loop, whichever of
`UpdateThrottledNodes` and `CheckThrottled` came first (`ServedStep`), and `WaitStep` is
the wake-up. Assumed: `ThrottlingAssumption` (finitely many feeders and nodes, the
threads are distinct, streams lead from feeders or nodes).

## Timestamps and InputStream

`Timestamps` keeps the special values and their order around `Latest` range values,
with `NextAllowedInStream`, `PreviousAllowedInStream` and the clamped sum. `InputStream`
gives the critical sections of one stream as functions on a record (`queue`, `bound`,
`selected`, `added`, `closed`) that return the new record, whether the consumer is to
be notified and whether the update was refused; three modules build on it. Three or
four values keep first, middle and last range values apart and reach every special
case of the two functions.

## InputSets

The policy is chosen in `Init`, and a behaviour is one handler with its streams. The
scheduling thread reads the streams one by one (`ReadStream`, or `ReadControl` and
`RemoveOutdated` for the mux), decides (`DecideDefault` and its kin, each the whole
`GetNodeReadiness` after its reads), and fills the set stream by stream (`FillStream`;
the mux takes its control stream, which is stream 1, first, and a stream that it did not
select is passed without an effect), while `Add` and `Raise` of the producers come at any
point. `FixedSize*` truncate on their own mutex: `owed` has the producers, one thread
each, that have added a packet and not truncated yet. `failed` names the `ABSL_CHECK` that would have ended the process.

Run `input_sets`: nine policies, two streams, three range values, trigger and target
sizes 2 and 1, packets and bounds in every order: `SetsWhole` (no packet lost or late,
none of the checks of `FillInputSet` fails; types), `InputsInOrder` (a stream is never
asked for an earlier time, a reported bound is kept), `DroppedTogether` (what the fixed
size handler drops from one stream is in no set), `NothingForgotten` (the notification
that a stream gives only when its queue was empty is enough). Two streams reach every
comparison of two streams' times; the mux with two data streams is in run `mux_torn`, and
what takes three streams is described next.

A fixed size handler can take a stream beyond what its producer has stated. To stop
before the bound of an empty stream, "because a packet may still arrive at that time"
(`fixed_size_input_stream_handler.cc:99`), it computes `bound - 1` (line 76), which is
`Min()` again when the bound is `Min()` (`timestamp.cc:43-58`). Trigger size 2, target
size 1: one stream has a packet at `PreStream`, the second nothing and the bound `Min()`,
the third a packet at `Min()` when the streams are read, and one more by the time the set
is filled. The surplus is then erased up to `Min()`, with the packet at `PreStream` that
was to be processed, and the set is taken at `Min()`, where the second stream's producer
may still send. `Overtaken` describes this case, and `SetsWhole` excepts it and nothing
else. An instance with three streams and two range values has it, in a trace of 14 states;
that instance (8.5 million states for `FixedSize` alone) satisfies `SetsWhole` with the
exception, but is too large to keep as a run, and the two streams of `input_sets` never
reach the case. `AlwaysSetsWhole` below shows for any number of streams that nothing
worse happens.

Run `mux_torn` finds that the mux handler's mutex does not give the "consistent view"
its header promises: the check in `GetNodeReadiness` fails.

What the model also shows. `SyncSet` with `process_timestamps_` passes over a set that
was ready and not chosen, since `last_processed_ts_` is advanced by the look
(`input_stream_handler.cc:443`), and reports the bound of the last set asked; with
`process_timestamps_` packets wait while the bound is `Min()` or `PostStream()`, which
have no predecessor. `TimestampAlign` never closes when its base stream ends before
the offsets are known, and fails a check on packets at `PreStream` or `PostStream`.
`FixedSize` does not reset `kept_timestamp_` for the next run, so that early packets of
a second run are dropped. The properties except exactly these cases, and say so.

Abstractions: one invocation at a time, batches of one, no late preparation;
`EraseSurplusPackets` is one step; a jump of a producer over several timestamps is
several steps; a sync set that is done is emptied where the code removes it from its
vector. Deadlock checking is off: producers may stop.

**Proof.** `AlwaysSetsWhole`, `AlwaysDroppedTogether`, `AlwaysNothingForgotten` and the
action property `AlwaysInputsInOrder`, for every policy, any number of streams above one,
any number of timestamps and any trigger above any target size
(`InputSetsAssumption`); `SetsWhole` with the exception `Overtaken`. None of the four is inductive. `IInv` (`AlwaysIInv`), which TLC
found to hold for each of the nine policies before it was proved, adds:

- `SeenInv`: what was read of a stream before the decision is a lower bound of what it
  has now, and is what it has now unless a notification is pending. The decision is
  taken on old readings; this is why it is still right, and why a notification on the
  change from empty alone is enough for `NothingForgotten`.
- `FillInv`: while the set is filled stream by stream, each stream that is left is
  settled at the timestamp that was decided (nothing earlier waits or can still come)
  and was never asked for it. `PopPacketAtTimestamp` then drops nothing. Before
  `Overtaken` a stream is not settled (`AtBound`): it is empty with the bound `Min()`, the
  set is at `Min()`, and a packet at `PreStream` has been discarded.
- `TogetherInv`, `LastInv`: the streams that one set synchronizes have been asked for the
  same timestamps, and `last_processed_ts_` is the last of them: without it the
  arithmetic of `GetReadiness` with `process_timestamps_` could ask a stream
  twice.
- `BoundInv`, `AheadInv`: the bound reported when the node was not ready is not beyond
  what each stream has to offer, nor beyond what has been read of it meanwhile. For
  `InputsInOrder`.
- `AlignInv`: once the offsets are known there is a time of the base stream that all
  streams have reached in theirs, so that subtracting the offset from the decided time
  gives a timestamp of the stream; `MuxInv`: the mux asks its control stream first, so that a
  data stream is never ahead of it.
- `ErasedInv`: what the fixed size handlers discarded is earlier than the kept timestamp
  or than everything left in any stream. They discard before the streams are read,
  and again, with the packets that came meanwhile, before the set is filled; the
  timestamp is then computed anew (`Refill`) from streams settled at the old one, and
  the new one is none of those discarded.

The producers' steps and the stages have a lemma each (`AddStep` to `PrepareStep`), and
each of these one step per conjunct it can disturb; `DefaultAhead` and its kin give
`InputsInOrder` from `AheadInv`, one per policy. What a stream's operations
do is stated once in the lemmas before (`Waiting`, `Settled`).

## ParallelNode and SequentialNode

One node with one input and one output stream, `MaxInFlight` invocations.
`pc[t]` is where a thread is between the critical sections of `status_mutex_`,
`timestamp_mutex_` and the streams; `contexts` are the active contexts, `completed`
the invocations that are over, `propState` is `propagation_state_`. Inputs and bounds
arrive by `Receive*`; any thread may become the scheduling thread
(`CheckIfBecameReady`, `EndScheduling`) and any the propagating one
(`StartPropagation`), which gives up its lock while it sends.

`SequentialNode` is what the next node may rely on: inputs answered one by one, in
order, the bound never beyond an unanswered input. The refinement maps the
inputs whose outputs have not left, and those still in the stream, to `todo`. A node
closes when its input is empty and its bound is `OneOverPostStream()` or `Done()`
(`ReadyForClose`); `NothingForgotten` and `Ends` count both as the end of the input.

Run `parallel_node` (3 range values, 2 workers, 2 in flight, with and without an output
offset): `NodeIsSequential`; `OnePropagator` (and the four `ABSL_CHECK`s of the
in-order handler; types); `NothingForgotten` when all threads are idle; `Ends`. Two
invocations complete in either order while the upstream thread is a third in the
scheduling loop; three values leave one more input to come.

Run `close_overtakes` finds that the recycling of the last context, before the
propagation is over (`in_order_output_stream_handler.cc:60`), lets Close start: its
`Done` overtakes the bound still being sent, which the next node refuses.

Fairness: `WF` of what each thread does. Simplifications: an output is at the
input's timestamp (or any, in Close); the offset is 0; a shard's own bound, headers
and `StatusStop` are left out; the update of an output stream and of its mirror is one
step; nobody consumes downstream, so that the mirror keeps the history.

**Proof.** `PropagationIsExclusive` (`OnePropagator`) and `NodeForgetsNothing`
(`NothingForgotten`), for any number of executor threads, any `max_in_flight_` above
one (`ParallelNodeAssumption`) and any number of timestamps. The inductive invariant
`IInv` is a conjunction of parts, each with a lemma of its own for the step, and none
is inductive without some of the others:

- `SchedInv` and `TurnInv`: one thread schedules and one propagates, exactly while
  `scheduling_state_` and `propagation_state_` say so. A scheduling thread may be the
  propagating one (`UpdateTaskTimestampBound`), and is then still counted as
  scheduling; `WorkInv` (who has an invocation) tells it from a worker in `PostProcess`.
- `InputInv`, `WhereInv`, `FrontInv`: a context is scheduled, running or completed,
  older than everything in the stream; the one whose outputs are being sent stays the
  earliest, although `timestamp_mutex_` is free meanwhile (`PropagatorAlone`,
  `PropagatorSame`: what the propagating thread works with changes only by its own
  steps). The next context is the earliest of the completed ones because of these.
- `BoundInv`, `PropInv`: `task_timestamp_bound_` grows and stays below the input's
  bound; nobody stops propagating while something is ready, and a bound that was raised
  meanwhile is seen (`kPropagationPending`).
- `CountInv`: `current_in_flight_` is the number of scheduled and running invocations;
  `CloseInv`: `Close` is prepared once, after the last context, and an end stays;
  `EndInv`: while `Close` runs the input has its end.

On top of it, `AttInv` says that while something waits in an open node a thread is
about to look, or `kSchedulingPending` is set, or an invocation is in flight, whose
`EndScheduling` will look, or the bound is on its way. It needs `AllowInv`: the thread
in the loop may schedule all that `max_in_flight_` allows, or is told to look again.
`MirrorInv` follows the bound: the stream downstream has reached what was propagated.

`NodeLooksSequential` is the refinement: `Spec => NodeIsSequential`. Its parts are

- lemmas about the list of a set of timestamps: there is one and only one
  (`ListExists`, by the least size of a set without a list; `ListUnique`), and how it
  changes when its least element leaves or a later one is added (`InOrderChanges`);
- `UnsentMoves` and `TodoMoves`: sending the outputs of the front context takes the
  first element off `todo`, although the context is recycled only later; moving a
  packet from the stream to a context leaves `todo` as it is;
- two more invariants. `ChainInv`: the bounds that threads carry about without a lock
  (`inputBound`, `taskBound`, `carried`) pass no packet that is unanswered. `CeilInv`: nor
  does the bound downstream. Whoever sends a bound took it when there was no
  context, and packets that came since are at that bound or later;
- `StepPromised`: each step is one of `SequentialNode` or a stutter. A refused update
  (the finding of `close_overtakes`) is a stutter.
At rest the first leaves nothing to wait and the second the bound of the input.
What the operations of a stream do to its order and its bound comes first in the
module, as it does in `GraphOutput_proofs`: the two are about different variables and
cannot extend one another.

## GraphOutput

A behaviour is about an observer or about a poller. `StartUpdate` and `UpdateMirror` are
`PropagateUpdatesToMirrors`; updates come one after the other except that Close may
overlap with the last bound (`ParallelNode` shows that it does). An observer's
`Notify` is `Enter`, `Look`, the callback, which may fail, and `Recheck`; a poller's
`Next` is `CheckStream` and `TakePacket`. Two runs of the graph, 2 packets, 2 threads.

Run `graph_output`: `OneNotifier`, `PacketsObserved`, `BoundsObserved`,
`EventsInOrder` (also types), `EverythingPolled`, and, with `WF` of the threads and an application
that calls `Next`, `PollerEnds`.

What the model also shows: `Recheck` compares the timestamp and not whether there is
a packet (`graph_output_stream.cc:119`), so that, when Close overlaps with an update,
a packet at exactly the bound just seen stays for ever; `PacketsObserved` excepts
that case only. An error of the callback leaves `notifying_` set, in the next
run too, although the header says "Notifies the observer of new packets". Neither
`last_processed_ts_` nor `output_timestamp_` is reset between runs, so that a second
run reports fewer bounds. `PostStream` is reported as settled while its packet may
come.

**Proof.** All five safety properties are theorems, for any number of threads,
timestamps, packets and runs, with only `GraphOutputAssumption` and
`LatestAssumption`; `PollerEnds` is checked. Each has an inductive invariant, which
was itself an invariant of a run before it was proved:

- `OneThreadNotifies` (`OneNotifier`): adds that nobody is in the loop of `Notify` once
  a callback has failed: without it a thread still inside could clear the `notifying_`
  the failure left. Every step enters the loop, stays in it, leaves it or happens
  outside, and these four are the lemmas.
- `OutputInOrder` (`EventsInOrder`): `Shape` says which values go together (the queue
  is in order and below its bound, a poller about to take a packet has the first, and
  the types). Then an event has a `Key`, twice its timestamp, or one less for a
  `PostStream` only reported as settled; keys rise, and stay below twice the first
  packet or bound, which never goes back in a run (`MinGrows`).
- `EveryPacketObserved` and `EveryBoundObserved`: `Attended` says who will see to what
  waits: a thread that is to look, one in its callback, or one at its last check that
  will find a change; two threads inside updates are an overlap with Close.
- `EveryPacketPolled` (`EverythingPolled`): the packets returned and those in the queue
  are together the ones sent, but for a last one that its update is about to add or
  that was refused with the error to follow (`PacketsArrive`). `carries` keeps Close
  from starting meanwhile, so that `Next` cannot find the end before either.

## VisionLoop

One action is one turn of the loop: `Frame` (a frame with some hand, pose and
key), `NoFrame` (the camera has none: the loop `continue`s before the keys and
before `drag_stop`), `Reload` (another mode or hand from `config.json`, which may
be a no-op). A hand is the pose `analyze` finds. Clocks are ages capped at
`MaxAge`, above every debounce, so that ages beyond need not be told apart.

Run `vision_loop`: `HeldOnlyByDrag`, `PressedOnce`, `OtherHandLimited`,
`SwipeNeedsNewHistory`, types.

Bounds: history of 3 for 10 and 2 frames of the other hand for 12 keep "not yet",
"just" and "beyond" apart; the proofs hold for every length. Clocks of one and two
units stand for 0.15 to 1.5 seconds.

What the model also shows and no text of the repository contradicts: while the
camera gives no frames (`app_gestures.py:539-548`), and after the key `q` in the
middle of a drag (748-750), the button stays down. `HeldOnlyByDrag` says
that the *last frame* showed a drag, and so allows both. When the pose turns from
a drag into a click, `click` is called before the `drag_stop` of line 710: the
button is pressed while it is down and released twice; `PressedOnce` says that
this is the only case. And a frame that is not analysed does not clear
`wrist_history` (`gesture_analyzer.py:139` suggests it is cleared when the gesture
ends), so that two gestures with any pause between them can make one swipe. `last_desktop_time`
is among the clocks; cursor coordinates, filter and drawing are left out.

**Proof.** Types: `TypeStep`, action by action. `ButtonInv` adds
"the button is down exactly while `is_dragging`", without which `HeldOnlyByDrag`
says nothing of the next frame. `OtherInv` bounds the ghost count by
`wrong_hand_frames`, which is never smaller since both are reset by the same
frames. `PressStep` is the step form of `PressedOnce`, from `ButtonInv`.
`SwipeInv`: the history holds no more frames than were seen since the
last swipe. Assumed: `VisionAssumption` (naturals, `None` not a hand).

## ConfigSync

`file` is a configuration, empty (truncated by a writer that has yet to write) or
garbage. `open(path, 'w')` and `writeFileSync` both truncate and write in two
system calls; a text written over a longer one leaves its end, so a write on a
non-empty file ends as itself or garbage. The engine: `Start`, `CameraOpened` or
`CameraFailed`, `Save`, `Stat`, `Reload`, `Restart` (at any point, also between
truncation and write). The server: `PostRead`, `PostOpen`, `PostWrite`, with `GET`
in between requests. `seen` stands for `mtime == last_mtime`. `camera_source` and
`sens_val` have keys of their own, `suav_val` stands for the other settings of
the page, `zone_x` for those it does not show. `raced` is a history variable:
the last POST overlapped an engine that was opening a camera or saving.

Run `config_sync`: `WholeUnlessRaced`, `Settles`, `HotReload`, `PostedApplied`,
types.

Bounds: 2 saves, 1 restart, 2 values. Two saves let one be overtaken by the
consequences of the other. `PostedApplied` is claimed without a race only:
settings posted while the engine opens a camera are overwritten by its save, and
that is the code's behaviour. `sens_val` is excepted further: `run_vision_loop`
does not declare it global (`app_gestures.py:513`), so a reload changes the loop's
value, and the next save writes the one of the start over the new one.

Fairness: `WF` of the engine's loop and of a handler that has begun. Assumed: two
states of the file have different mtimes (within the clock's resolution a torn
read could be the last); requests are served one at a time; one page.

**Proof.** `CorruptionNeedsRace`: without a race, whoever has the file open finds
it empty (`FileInv`), so what it writes is what is there afterwards. It needs
the types, which are a theorem of their own (`ConfigTypes`), and that a POST under way
has a configuration to write (`MergedInv`).

## Proved, checked, and neither

Proved for every value of the constants: all safety properties of
`SchedulerQueue` and `VisionLoop`, among them the action property `PressedOnce`; all four
properties of `InputSets`, among them the action property `InputsInOrder`; of
`Scheduler` the types, `RunningCountMatchesState`, `NoStrandedTask`,
`NoClosedNodeScheduled`, `NothingMissed`, the refinement `QueuesImplemented` and, for the
graphs described there, `ExecutorsDone`, `EverythingProcessed` and `IdleIsQuiet`; the
types and `WholeUnlessRaced` of `ConfigSync`; `ThrottlingIsCurrent` and `NobodyForgotten` of
`Throttling`; `OnePropagator`, `NothingForgotten` and the refinement
`NodeIsSequential` of `ParallelNode`; all safety properties of `GraphOutput`.

Model-checked only: every liveness property (liveness under fairness is outside what
TLAPS proves here). Checked to fail: the three
findings of `PROJECT.json`, each with the line of the repository it disagrees with. Type
invariants are a conjunct of another invariant of a module where no theorem states them.

## Not modelled, and why

`components` in `PROJECT.json` lists every part. Outside the framework's core and the
gesture program the tree is numerical code (`util/tracking`, calculators, tensors),
language bindings, and models: a calculator is an arbitrary choice of outputs in these
modules, and what it computes is out of a model checker's reach. Graph validation and
initialisation, packets and side packets are sequential code with unit tests.
`VideoStream` depends on what an external camera library does when released during a
read; the web settings and logs on the ordering of a hosted database; the game is a
single-threaded animation. This is why the share of the whole tree that the map covers
is small, while every file of the framework that decides when something runs
(`scheduler*.cc`, `*stream_handler.cc`, `input_stream_manager.cc`,
`output_stream_*.cc`, `graph_output_stream.cc`) is in it.

## Plan

Done: all modules above. Left, in order of worth:

1. The weakest condition on a graph with both sources and an input under which
   `ExecutorsDone`, `EverythingProcessed` and `IdleIsQuiet` hold; a single source layer,
   as in `scheduler_run`, is the first candidate.
2. Batches and late preparation in `InputSets`; several outputs in `ParallelNode`.
