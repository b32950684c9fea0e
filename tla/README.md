# Verification of modforge, ueforge and unityforge

This directory holds TLA+ specifications of the concurrent and persistent core
of the repository (a Rust toolkit for game mods: the engine-agnostic crate
`modforge`, its Unreal binding `ueforge`, its Unity binding `unityforge`, and
the mods built on them), the configurations that model-check them with TLC,
and proofs checked by TLAPS. Paths below are relative to the repository;
`modforge/src/...` and `ueforge/src/...` are under `src/`.

    tlc -workers 2 -config MCPeQueue.cfg MCPeQueue     # one of the runs below
    tlapm PeQueueProofs.tla                            # the proofs

## 1. Inventory

### Where concurrency comes from

A mod is a DLL in a game's process. Code of ours runs on

* the **game thread**, inside hooks: `UEngine::Tick`, and `ProcessEvent`
  trampolines, which nest because a handler may fire engine events;
* the **control server's listener thread**, which serves one HTTP request at a
  time and hands anything that touches the game to the game thread;
* **workers**: the save-slot poller, interval workers, settings watchers, the
  freeze sweeper;
* the **unloading thread**, which runs `ueforge_mod_shutdown` and then frees
  the image that all the others execute.

Most of what is hard is on those borders: a call that crosses threads and times
out, a hook that is uninstalled while it runs, a stop that races a sleep, a
file that is written, watched and edited at once, a save that fails half-way.

### Components

| Component | State | Operations | Correct means | Status |
|---|---|---|---|---|
| Job queue (`ueforge/src/pe_queue.rs`) | pending jobs, mutex, lock-free length, re-entrance flag, cancel flags, reply channels, counters | `enqueue` on workers; `drain` on the game thread, nested | no job lost, doubled, reordered or run inside another; a cancelled queued job never runs; every call returns | modelled, proved |
| ProcessEvent hooks (`ueforge/src/hook/{process_event,registry,vtable}.rs`) | vtable slots, snapshot of entries, in-flight counters, thread-local flag, handles | install, register, remove, drop, `shutdown_all`, the trampoline | an event gets to the engine's function, and at most once; exact counters; patched implies listed; slots restored; unloading ends | modelled, proved |
| RPG tracker and store (`modforge/src/rpg/{tracker,disabled,store,state,xp}.rs`) | bound slot and its state, disabled set, save files, levels in the world | spend, refund, xp, grant, toggle, reapply, activate, deactivate, save, load | points conserved; memory, disk and world agree; no torn save, no lost experience | partly modelled, proved |
| Slot poller and ops (`modforge/src/rpg/{poller,ops}.rs`) | last slot acted upon | resolve, deactivate, activate; the skill ops | the tracker follows the game | modelled, proved |
| Stoppable workers (`modforge/src/rpg/poller.rs`) | thread, stop flag, condition variable, join handle, registry | spawn, tick, stop, `stop_soon`, drop, `shutdown_all` | a stop returns, and only when the thread is gone | partly modelled, proved |
| Settings (`modforge/src/settings.rs`) | value, file, temporary file, the watcher's last time | load, update, reload, watch | updates and edits are not lost; memory follows the file, after a crash too | partly modelled, proved |
| Engine tick, `game_thread`, `hook/install.rs` (`ueforge/src/`) | the tick's slot, jobs, hooks of the installing worker | `serve`, `run`, `each_tick`, `try_install`, `on_tick` | jobs run on the game thread; a late install leaves nothing behind that nobody knows of | partly modelled (Unload), proved |
| Lifecycle (`ueforge/src/{mod_main,shutdown}.rs`, `modforge/src/{shutdown,hot_reload}.rs`, `modforge_deploy`, the C++ shim) | shutdown registry; `main.dll`, `main-new.dll`, `main-old.dll` | init, shutdown in order, image swap, deploy | nothing of ours runs after unload; some image is always loadable; the newest build survives | partly modelled (Unload, ImageSwap), proved |
| Control server (`modforge/src/server.rs`, `ops.rs`, `envelope.rs`) | listener, registry of handles | spawn, serve, stop | stopping ends | partly modelled (the listener in Unload) |
| Unity queue (`unityforge/src/main_thread_queue.rs`) | jobs, lock-free length, the tracker's mutex around effects | push, run, drain with a budget | as the job queue, and late effects do not undo newer ones | modelled, proved |
| Unity images (`unityforge/cs-shim-common/GenerationLoader.cs`, `unityforge/src/mod_main.rs`) | images on disk and in memory, their threads and handlers | load, swap, roll back, unload, reload, final shutdown | one image serves; the newest good one runs | modelled, proved |
| Unity bridge and Harmony hooks | function pointers into Mono and IL2CPP | calls | layouts | not modelled: the runtime's work |
| Scanner (`modforge/src/scanner.rs`) | sessions, freeze map, sweeper, cancel flag | scan, rescan, cancel, freeze, unfreeze, sweep | cap kept, dead addresses dropped | not modelled (a candidate) |
| Control client | none | HTTP requests, diffs | wording | not modelled: sequential I/O |
| `read_once`, counters, ring | caches, telemetry | get, forget, observe | caches cleared when told | not modelled (a candidate) |
| Tweaks, data tables, damage, fall (`ueforge/src/`) | captured vanilla values | apply, reset | vanilla restored | not modelled (a candidate) |
| Storyteller, survival, missions, factions, combat, genome (`modforge/src/`) | budgets, meters, progress | ticks and rolls | sequential rules | not modelled (storyteller is a candidate) |
| Items, crafting, vendors, upgrades; actors, brains, memory | tables, per-tick decisions | rolls, decisions | sequential rules | not modelled |
| World generation (`structure`, `worldgen`, `monument`, ...) | none | pure functions of a seed | geometry | not modelled: large data, no interaction |
| Reflection over UE, Mono and IL2CPP, patterns, input, UI | foreign memory | reads, drawing | layouts | not modelled: out of TLC's reach |
| The games' own mods | catalogs and handlers on the above | | | not modelled |

### How they interact

The control server calls `game_thread::run` or a queue's `enqueue` and blocks.
Hooks on the game thread drain the queue. A job may install a hook
(`hook/install.rs`) from an interval worker's tick. The slot poller binds the
tracker to a slot; hooks and ops change the tracker; the tracker saves through
the store and writes levels to the world through effects. Shutdown runs
the game's own handlers (order 50), takes the hooks away (100), and joins
listeners (200), pollers (250), settings watchers (300) and the sweeper (400);
each of those registries is emptied by its own `shutdown_all`. A staged image is
swapped in by the next shutdown that leads to a reload.

PROJECT.json lists, under `hazards`, the places where this goes wrong in ways a
unit test would hardly reach, with the properties that watch them.

## 2. The modules

`X.tla` models, `MCX.tla` fixes small instances, `X*.cfg` and `MCX.cfg` are the
runs. Every mapping from definition to source lines is in PROJECT.json (`map`).
An operator whose comment begins "Mutant" is not part of a model: it is
the code with a plausible bug, used to confirm that a property can fail.

**JobCall** is the abstract promise of a cross-thread call: a job is queued or
refused, run at most once and one at a time, answered with the outcome of a run
that ended; the caller may give up whenever it likes. `Promise` is what a caller may
conclude from its answer.

**Ledger** is the abstract promise of a player's progress: a slot has what was
last saved in it, and a change (points moved between the unspent ones and a
skill, experience with the points of the levels it brings, points granted) is
shown and saved in one step, for the bound slot alone. A slot may be left at any
time and nothing is lost. A slot that cannot be read starts anew.

**PeQueue** is `pe_queue.rs` at the grain at which threads interleave: one
action per mutex edge, atomic access, channel operation or job. `inner`,
`mutex`, `size` and `draining` are the `Queue`; `cancelled`, `reply`, `pc` and
`result` the callers; `frames` is the stack of `drain` calls on the game thread
(a running job can fire events whose hook drains again), each frame holding the
jobs it took. `ReceiveFails` and `GiveUp` are two steps because the code's
timeout and its store to the cancel flag are. A job that panics (`JobPanic`)
unwinds the whole stack to the trampoline below, dropping the jobs behind it and leaving
`draining` set: that is the profile that unwinds; in the release profile the
process aborts. The loads of `size` that find zero change nothing and are left
out. `pushed`, `log` and `panicked` are history.

**PeHook** is the life of a hook: `captured`, `listed`, `patched`, `owned`
(registered), `taken`, `restored`, `waiting`, `gone`; and the trampoline as a
stack of frames per engine thread: `enter` (reached through the slot), `found`
(entry looked up), `count`, `handler`, `inner` (inside the original, called by
the handler), `leave`, and `pass` or `fallback` for the other two calls of the
original. `called` is the thread-local flag `CALLED_ORIGINAL`. A slot holds the
engine's function or the trampoline, which is enough to see what an install
captures; `listed` is the snapshot that the trampoline searches, in the order of
the installs, and `Unlist` is the removal from it. Hooks may share a vtable
(`VtableOf`), as widget classes do: the second captures the trampoline, and the
lookup finds the first. An original that is the trampoline starts another frame.
`write_slot` can fail at install and at restore. `met` in a frame is history: an
entry was listed when the event came in; so is `crossed`, the vtables on which a
hook was taken off before one that stands on it.
The load of `SHUTTING_DOWN` and the increment of the counter are two steps. A
handler calls the original at most once, as all handlers in the repository do.

**RpgTracker** is one player's progression. A change of the bound state holds
the tracker's mutex from the mutation over the save to the re-application of
the skill: `tx` is that change and where it is (`write`, `sync`, `rename`,
`apply`); every step of the save can fail, and the operation then restores what
it changed. `loading` is `activate_slot`, which runs without the mutex until it
publishes. `disabled` and `toggling` are the toggle op's two steps. `world` is
the level the game was last given for each skill. An effect may panic wherever
one is applied (`ApplyChangedPanics`, `ToggleReapplyPanics`, `ReapplyAllPanics`,
`ActivatePanics`), before or after it gave the game the level, and the op dispatch
catches it; `stale` are the skills that the world may then have wrong, until they
are applied again. Files hold a state, nothing,
or `Torn`; `unsynced` marks content that a power loss would tear. `granted` in
a state is history (points from the debug op).

**RpgSlots** composes the tracker with the poller's loop (`at`, `last`, `cur`),
the ops, a game that changes slots when it likes, and crashes. It implements
Ledger (`ImplementsLedger`): what the ledger calls saved are the files, bound is
the tracker's slot, and shown is `Shown`, the state that is, or is being put back
to what is, in the file; the rename is the ledger's step.

**Settings** is the value, its file, the temporary file, the watcher's last
modification time and two callers of `reload`. A value records for each writer
(the updating threads and the user's editor) how often that writer has changed
its part, which tells every lost update apart. Modification times are a clock
that moves with each write. Every read and save can fail (`ReloadFails`, `Loads`,
`SaveFails`), a file's time may be out of reach (`Times`), and the program can be
killed or lose its power at any step: a kill leaves the files as they are,
a power loss leaves what the disk holds (`synced`, which follows by `Flush`), the
new file, or the new one torn, since `save_atomic` renames without a flush
(`settings.rs:275-282`), which the RPG store's save has for that reason
(`store.rs:3-7`, `104-108`). After either the program comes up and loads again
(`Restart`).

**Workers** is the stop protocol: the worker's loop (`check`, `tick`,
`recheck`, `sleep`, `wait`), the flag, the join handle and who has locked it,
the owner's stop and `shutdown_all`. A slot poller ticks first and an interval
worker sleeps first. `notify_all` wakes a worker that waits and is forgotten
otherwise; nobody but the worker locks `wake_mu`, so the mutex orders nothing
and is left out.

**Unload** composes what the shutdown order stands on: the registry's handlers
in their order (the game's own at 50, hooks 100, server 200, pollers 250,
settings 300, sweeper 400), the HTTP listener and an installing worker that wait
for jobs on the game thread, and the game thread that runs them holding the
`QUEUE` mutex. A caller reads `QUEUE`, lets go of it and puts its job in
(`FindsQueue`, `Enqueue`); an op such as `pe_ping` has the queue itself and puts
its job in without (`Receive` to `push`). The queue is JobCall, which PeQueue is
shown to implement; `hook` is what became of each install (`patched`,
`registered`, `taken`, `restored`). The worker's second attempt while its first
job is still queued, the job that patches after its caller timed out and after
the registry was emptied, and an engine that stops ticking are all behaviours.
Each worker, the settings watcher and the freeze sweeper is one thread that can
be asked to exit; how that works inside is Workers.

**ImageSwap** is the three image files beside the game, the mod's start and
shutdown (`clean`, `check`, `remove`, `aside`, `promote`, `back`), the deploy
tool as another process that opens, copies and closes, the hot-reload watcher
with the key it sends once, which is lost unless the game has the focus, failing
renames and removals, and kills of the game between any two steps. Taken of
Windows: the file of a loaded image can be renamed but neither written nor
replaced, and may or may not be removable; a file being written cannot be
renamed, replaced or loaded. A deploy tool that is killed in the middle of a
copy is left out.

**MainThreadQueue** is the Unity queue: `push`, a `run` that polls for a result
until its deadline, a `drain` of at most `Budget` jobs a frame. The main thread
may make such a call itself (`Own`), may want the mutex that a caller holds
around an effect (`Locked`), and unloads the mod by joining the callers. It has
no cancel flag and no limit, unlike PeQueue, and implements the same JobCall.

**Generations** is the loader of Unity images: `SwapStops`, `SwapLoads` and
`SwapRollsBack` are `HotSwap`, which runs C# and the images' exported
functions in turn; an image keeps its statics for the life of the process, so
`once` (handlers registered) and `handlers` (still in the registry) are state
of the image. Any init may fail: behind a refused image the old one may refuse
too (`RollbackFails`), which leaves the loader without an image and with nothing
to re-arm (`dead`), and the parked one may refuse until the next try
(`LoadFails`). `deaf` are the images whose listener could not bind its port
(`server.rs:140-143`): they run without one.

**MCX** modules and `*.cfg` hold the instances. **XProofs** extends X with its
inductive invariant and the proofs (section 4); RpgProofs is that of RpgSlots
and the RpgTracker it extends, ImageProofs that of ImageSwap and Generations.

## 3. What the runs check

| Run | Instance | Distinct states | Shows |
|---|---|---|---|
| `pe_queue` | 3 calls, capacity 2, drains nested 2 deep | 83,018 | `NoneLost`, `SizeIsShadow`, `StartedInOrder`, `CancelledStaysUnrun`, `QueueMovesOn`, and PeQueue implements JobCall |
| `pe_hook` | 2 hooks that share a vtable, 1 thread nested 2 deep | 717,448 | `EngineAtMostOnce`, `ActiveIsExact`, `SlotsAreSound`, `EventsReachEngine`, `ShutdownReturns` |
| `rpg_slots` | 2 slots, 1 skill, 3 slot changes, 1 crash | 690,260 | `PointsConserved`, `MemoryIsDurable`, `WorldMatches`, `SlotFollowsGame`, and RpgSlots implements Ledger |
| `settings` | 1 updater with 2 updates, an edit (and one before the start), 1 crash | 836,584 | `UpdatesKept`, `SettledAgrees`, `EditsArrive` |
| `workers` | 1 slot poller, 1 interval worker | 44,796 | `StoppedIsGone`, `StopsEnd` |
| `unload` | 1 request, 2 installs | 501,483 | `NothingIsLeft`, `UnloadEnds` |
| `image_swap` | 4 deploys, 2 kills | 40,410 | `Loadable`, `NewestIsKept`, `DeployArrives` |
| `main_queue` | a request, an effect under the mutex, the main thread's own call; budget 2 | 9,913 | `LastEffectWins`, `MainThreadMovesOn`, and MainThreadQueue implements JobCall |
| `generations` | images 0 to 3, 6 inits | 43,762 | `OnlyActiveServes`, `NewestRuns` |

Each of these runs has its module's type invariant as well, and no deadlock
where the system cannot stop (`rpg_slots`, `unload`, `main_queue`: there a state
without a step would be one in which everybody waits). Three more runs, with
smaller instances, must find a violation; they are described under
"Disagreements".

`QueueMovesOn` is that queued jobs are taken and that calls return;
`SlotsAreSound` that a patched slot has an entry and that the slot is the
engine's again when all hooks of the vtable are gone; `EventsReachEngine` that an
event in the trampoline came in while there was an entry, and that the entry found
for it leads to the engine's function and not round to the trampoline;
`NewestRuns` that the newest good image gets to run and what a swap can end with;
`NothingIsLeft` that no thread, no job somebody waits for
and no hook outlives the unload; `MainThreadMovesOn` that the main thread never
waits for ever and that all jobs run.

### Bounds

* `MaxDepth = 2` with three calls: a call can be refused, a batch can hold two
  jobs, and a third can be pushed while that batch runs. `MaxFrames = 2`: a
  nested drain is always turned away by the guard, so a third frame adds
  nothing (the proofs hold for any bound, and show that the stack of drains
  never gets deeper than two).
* `MaxNest = 2` in PeHook: the handler's own event re-enters its hook or, once
  that was dropped, the other one. Both hooks are on one vtable, which is the case
  with more to go wrong; hooks on vtables of their own are not run, and the proofs
  are for any sharing. `pe_hook` has one engine thread beside the installing and
  unloading one; counters are only touched by atomic steps, and the proofs are
  for any number of threads.
* `MaxXp`, `MaxLevel` and `MaxGranted` of 1 with counts of 1 and 2 reach every
  limit: nothing to spend, a full skill, a refund to zero, a level gained.
  Three slot changes allow into a slot, to another, and back or out.
* Two updates and an edit, with another before the first start, let every reload
  overlap an update before and after an edit, with a well-formed or a broken file;
  the crash can hit any step of these, and what follows it. Nothing is flushed
  after the last crash of the bound, since nothing can tell. A second updating
  thread adds nothing: updates exclude each other, and the proofs hold for any
  number.
* One request and two installs in Unload: the listener and the worker compete
  for the game thread, and the second install follows a first that timed out.
* Four deploys and two kills in ImageSwap: the first deploy installs, the
  second is staged, the third overtakes a swap, the fourth follows a swap that
  was cut short; the second kill can hit the recovery from the first.
* Three calls in MainThreadQueue with a budget of two: a frame can end with a
  job left over. One call of each kind that can block somebody.
* Four images and six inits in Generations: swap, refusal with rollback, a
  swap over a skipped generation, and an unload with a second life.

### Fairness

* PeQueue: the engine ticks, so some hook drains a non-empty queue
  (`WF DrainCall`); threads run; `recv_timeout` always comes back; a job ends,
  however many nested drains interrupt it (`SF`).
* PeHook: only the unloading thread and the drops are fair. Handlers may block
  for ever, and `ShutdownReturns` still holds because of the 500 ms limit.
* RpgSlots: threads run; `parking_lot`'s mutex is eventually fair, hence `SF`
  on taking the tracker's lock; a resolver does not panic on every tick.
* Settings: the watcher polls for ever and obtains the file's time in the end, a
  save ends, a reload gets the lock in the end. That any read ever succeeds is
  not assumed.
* Workers: threads run, ticks end and intervals are finite.
* Unload: threads run, jobs end, waits time out, and the `QUEUE` mutex reaches
  whoever waits for it (`SF`). That the engine ticks is not assumed: it may
  never tick again, and unloading ends all the same.
* ImageSwap: the program's steps are taken, and a rename that can be made again
  and again succeeds in the end (`SF`); `DeployArrives` also assumes a player
  who keeps reloading (`PlayedSpec`), since nothing else starts a swap.
* MainThreadQueue: callers run and their deadlines pass; a main thread that is
  free again and again draws a frame (`SF DrainTakes`).
* Generations: the loader is called every frame. That somebody stages, unloads
  or reloads is not assumed.

### Disagreements between documentation and code

Each of these three has a run in which TLC must find the quoted sentence
violated.

* `rpg_save_lost` (`EarnedIsKept`): the store starts fresh for a file that "is
  missing or unparseable" (`store.rs:69-72`). It does so for any read error, and
  the next save then replaces the good file. `MemoryIsDurable`
  excepts exactly that (`unread`), and Ledger has a step for it (`BindUnread`).
* `unload_hooks` (`SafeToFree`): "no code in our DLL is on a thread's stack or
  a vtable slot" after the shutdown (`ueforge/docs/lifecycle.md:424-426`). The
  tick hook keeps no handle and is never taken back, and an install job that
  outlived its caller's timeout can patch after the registry was emptied.
* `reload_listener` (`ThreadsExit`): "all background threads exit before we
  proceed" (`GenerationLoader.cs:17-21`). Handlers are registered once per image
  (`unityforge/src/mod_main.rs:120`) and taken out of the registry when they
  run, so an image that was unloaded and started again, or rolled back to, has
  none: its listener survives the next swap. This is a defect of the code.

The models also show the following, each of which one of the properties
excepts:

* "a non-idempotent op ... can't run after the client thinks it timed out"
  (`pe_queue.rs:46-50`): the drain may have looked at the cancel flag before
  the caller raises it. `CancelledStaysUnrun` is what holds.
* "Each Drop restores its class's vtable slot to the engine's original"
  (`registry.rs:33-35`): `shutdown_all` drops in the order of the installs
  (`registry.rs:111`), and of two hooks that share a vtable, the normal case for
  widgets (`install.rs:186-189`), the second captured the trampoline and writes it
  back last. The slot then stays on the trampoline without an entry.
  `SlotsAreSound` and `EventsReachEngine` except exactly this (`Disturbed`).
  Before that, only the hook listed first on a shared vtable gets the events.
* "Shouldn't happen. A hooked vtable always has an entry"
  (`process_event.rs:391-392`): an event that came in before a drop took the last
  entry off the list and looks after it finds none, and is lost: its engine
  function is not called (`LookupMisses`). `EventsReachEngine` says that events come
  in only while there is an entry, so that this is the only such loss.
* "no code in our DLL is on a thread's stack via a PE trampoline"
  (`registry.rs:37-38`): the counter does not cover the trampoline's first and
  last instructions, the shutdown pass-through, or the panic fallback.
* "concurrent updates serialize cleanly" (`settings.rs:28-30`): not beside a
  reload, which reads before it locks.
* "Missing or unparseable file falls back to `T::default()`"
  (`settings.rs:109-110`): so does a good file that cannot be read (`129-135`), and
  the next update replaces it. `UpdatesKept` excepts it (`reset`).
* "Subsequent successful reloads recover" (`settings.rs:220`): the watcher notes
  the time before it reads (`247`), so after a read that failed no reload follows
  until the file changes again. `SettledAgrees` and `EditsArrive` except what such a
  read failed to get (`missed`).
* "`stop()` wakes the thread immediately" (`poller.rs:22-24`): a notification
  just before the wait is lost; the stop ends one interval later (`StopsEnd`).
* a reload whose key went to another window comes with "next deploy or until the
  game has focus when the next poll cycle runs" (`hot_reload.rs:18-21`): the
  watcher ends after it has sent the key once, so there is no next poll, and a
  deploy only replaces the staged file. `DeployArrives` therefore needs a player
  who reloads (`PlayedSpec`).

### Exceptions inside properties

Some properties name a case in which the code promises less, and hold for all
others: a panicked job leaves the queue's guard set (`QueueMovesOn`); a slot
that could not be written back, and a shared vtable whose hooks were not taken off
in reverse (`SlotsAreSound`, `EventsReachEngine`); a toggle under way, one that
met a loading slot, or a skill whose effect panicked after the change was saved,
until it is applied again (`WorldMatches`); a panicked activation (`SlotFollowsGame`);
a failed save, an overlapping reload, a restart that did not find the file as it
was (`UpdatesKept`); the first two and what the watcher or the load failed to read,
until the next read or save that succeeds (`SettledAgrees`, `EditsArrive`); an
install whose caller timed out, and hooks of a mod that does not stop its
pollers first (`NothingIsLeft`); a swap cut short by a kill or a failed
roll-back, and the deploys after it (`Loadable`, `NewestIsKept`,
`DeployArrives`: `cut` and `astray`); an image that was started a second time
(`OnlyActiveServes`: `rearmed`) or could not bind its port (`deaf`); a swap to a
bad image behind which the old one refuses to start again (`NewestRuns`: `dead`,
which `GenerationLoader.cs:127`, "reload may have left us unactive", allows for).

## 4. What is proved

Each proof module states an inductive invariant `IInv`, proves `Invariance ==
Spec => []IInv` by cases on the actions, and derives from it the theorems
below, for every value of the constants. TLC also found each `IInv` invariant on
the instance of the module's run before it was proved. The only assumptions are
those that the modules name for their constants; TLC evaluates them in every run.

**PeQueueProofs**, from `QueueAssumption` (the names of the mutex's other
states are no calls), for any calls, capacity and nesting. `IInv` says who owns
the mutex (`OwnerInv`), what the stack of drains looks like (`StackInv`) and
what the lock-free length is worth inside the two critical sections
(`ShadowInv`); it gives `TypeCorrect`, `ShadowIsExact` (`SizeIsShadow`) and
`DrainsAreExclusive` (at most one drain is past the guard). The second invariant,
`JInv`, follows the jobs: each is in the queue or in hand, once (`HeldInv`),
what place, reply and result together say of a call (`FateInv`), and the push
order that runs through the log, the jobs in hand and the queue (`OrderInv`).
From both follow `NoJobIsLost` (`NoneLost`), `JobsStartInOrder`
(`StartedInOrder`), `CancelledNeverRun` (`CancelledStaysUnrun`: a cancelled job
that the drain has not looked at stays `Doomed`) and `Refinement`
(`Spec => ImplementsJobCall`). JobCall's `Promise` is proved of JobCall by
itself and comes back through the refinement as `CallersAreToldTrue`: jobs run
one at a time, an answer is the outcome of the caller's own job, and a refused
job never runs.

**PeHookProofs**, from `HookAssumption` (finitely many threads, each hook on
some vtable, a natural bound), for any nesting and any sharing of vtables:
`TypeCorrect`, `NeverTwice` (`EngineAtMostOnce`), `CountersAreExact`
(`ActiveIsExact`), `SlotsStaySound` (`SlotsAreSound`), `EventsGetThrough`
(`EventsReachEngine`). That no event reaches the engine twice hangs on one
thread-local flag which all frames of a thread share; `FlagInv` says which frame
it speaks for: the topmost one inside a handler, while each frame above has
saved the value of the one below. `FrameInv` and `StackInv` say what a frame has
done at each place, `CapturedInv` what an installing hook holds. `ListInv` and
`SlotInv` relate slots, list and hooks: on a vtable that is not disturbed, a
slot on the trampoline has a hook in place, and a hook that captured the
trampoline stands on one that is in place and listed before it (`StandsOn`). So
the first entry listed for the vtable has captured the engine's function
(`FirstIsEngine`), and that is the one the lookup finds. `FinishedDropsAreQuiet`
is what the drop's wait is for: one that ends without giving up leaves no call
in the handler. It joins the exact counter with the finiteness of the frames it
counts.

**SettingsProofs**, from `SettingsAssumption` and `NoneAssumption`:
`TypeCorrect`, `NoUpdateIsLost` (`UpdatesKept`) and `MemoryFollowsFile`
(`SettledAgrees`), for any numbers of updates, edits and crashes. The invariant
says that no file is newer than the clock (`TimeInv`), what a save and a reload have
in their hands between their steps (`SaveInv`, `GotInv`), which updates memory and
file hold (`CountInv`), and when memory and file must agree meanwhile (`AgreeInv`).

**WorkersProofs**, for any sets of workers: `TypeCorrect` and
`StoppedThreadsAreGone` (`StoppedIsGone`). The key is `JoinInv`: a running
thread's join handle is in its slot or with one who still holds the mutex, so a
stopper that finds none has waited for it.

**UnloadProofs**, from `UnloadAssumption`: `TypeCorrect` and `NothingRemains`
(`NothingIsLeft`). The invariant says what each finished handler has left
behind, and that from the moment the registry was emptied a hook that is in, or
comes in, belongs to an install whose caller has given up. `Refinement` is that
the queue as Unload uses it is JobCall, and keeps its `Promise`, to the end of
the shutdown.

**MainThreadQueueProofs**, from `QueueAssumption`: `TypeCorrect`,
`ShadowNeverLies`, `NewestEffectStays` (`LastEffectWins`), `Refinement` (`Spec
=> ImplementsJobCall`) and `CallersAreToldTrue`, as for PeQueue. The invariant
puts each job at one place (queue, batch, main thread, or done) and says which
job is the newest of those that wait.

**ImageProofs**, from `ImageSwapAssumption` and `GenerationsAssumption`, treats
both kinds of image. Of ImageSwap: `TypeCorrect`, `AlwaysLoadable` (`Loadable`),
`NewestSurvives` (`NewestIsKept`); the invariant is the division of labour
between the deploy tool and the swapping mod. Of Generations, whose names begin
with `Gen` so that one module can extend both: `GenTypeCorrect`,
`ActiveServesAlone` (`OnlyActiveServes`), from the invariant `GenIInv`, which
says which image may have handlers at each place of the loader.

**RpgProofs**, from `TrackerAssumption` (finitely many skills, a curve that
gives every experience a natural level, natural bounds), `SentinelAssumption`
(`None` and `Torn` are no slot, skill, state or change) and `SlotsAssumption`,
for any slots, skills, curve, counts and numbers of crashes: `TypeCorrect`
(`TypeInvariant`), `PointsAreConserved` (`PointsConserved`),
`MemoryStaysDurable` (`MemoryIsDurable`), `WorldFollows` (`WorldMatches`), two
action properties, `ProgressIsKept` (no step tears a save or takes experience out
of it) and `CrashesAreAtomic` (a power loss leaves the bound slot before the
change or after it, and the others alone), and `Refinement`
(`Spec => ImplementsLedger`). The curve need not even be monotone. The refinement
needs a second invariant, `LedgerInv`: the change under way is one that the
ledger allows from the state in the file, and a load of a slot that could not be
read will publish a fresh state. The first has one part per relation:

* `SessionInv`: who can be at work together: a change needs a bound slot, a slot
  is bound only while the poller sleeps or is about to unbind it, a load is the
  poller's own;
* `SaveInv`: until a change has been renamed into place, what it would roll back
  to is what the file holds, and from then on the file holds the changed state;
  a change takes away no experience and touches no other skill; nothing renamed
  is unsynced, and no file is torn;
* `SettledInv`: no state in memory, in flight or on disk is below the level of
  its experience, so that a load, which derives the level, gives back what was
  saved;
* `BalanceInv`: all those states are balanced, the one to roll back to included;
* `LoadInv`: what a load will publish is what the file holds then;
* `WorldInv`: the world has the levels of the state it was last given, which
  during a save is the one before the change, but for the skill being
  re-applied and those toggled, missed or `stale`, and for a load's skills still to do.

`PointsConserved` counts the points spent as the number of (skill, level) pairs
bought (`Spent`), because a recursively defined sum is beyond the prover; the
lemmas of that module say by how much a purchase or a refund changes that
number.

Only model-checked: everything under fairness, which this prover does not reach
(the liveness property of each run: `QueueMovesOn`, `ShutdownReturns`,
`SlotFollowsGame`, `EditsArrive`, `StopsEnd`, `UnloadEnds`, `DeployArrives`,
`MainThreadMovesOn`, `NewestRuns`). All other properties of the passing runs
are proved.

## 5. What is not modelled, and why

Beside the components marked so in section 1:

* of the tracker, `fire` and the choice made by `spend_lowest_skill_points`
  (each spend is modelled, the choice of skill is not), migrations between
  save-file versions, and slot keys that are not valid file names;
* the settings watcher's stop, its callbacks and `Settings::save` without an
  update;
* `stop_soon` called by other threads than the worker's own;
* `frame.rs`'s list of callbacks, a pattern scan that fails for good, and hooks
  that remove themselves when done;
* `on_shutdown` callbacks of single games; the hot-reload watcher's thread in
  Unload (it is detached, and nobody waits for it);
* arithmetic at the limits of `u32` and `u64` (the code saturates; the bounds
  stay far below); directory creation and permissions, which are folded into
  "the save fails".

The scanner's freezes are made by one thread only, and the race on its cap needs
a second caller that the repository does not have; its shared cancel flag is a
usability matter. Game rules, world generation and reflection are sequential
code over floating-point values, geometry or foreign memory: unit tests reach
them, and a model would be a transliteration.

By number of lines the repository is mostly `horsey-mod/research/decompiled`, C
that a decompiler made of someone else's game as reading material. It is no
part of the program and no part of it is modelled; measured against all C-family
lines, the share that is modelled is therefore close to nothing. What is modelled
is Rust, some C# and the C++ shim.

## 6. What is left

In order of worth: the rest of the tracker (`fire`, `spend_lowest`) and of the settings
watcher (stop and join); the freeze map with its sweeper and the scan's cancel
flag; `read_once` with the calls of `forget`; capture and reset of tweaks; the
storyteller's budgets against a reference definition.
