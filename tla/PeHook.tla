------------------------------- MODULE PeHook --------------------------------
(***************************************************************************)
(* ueforge's ProcessEvent hooks (src/ueforge/src/hook/process_event.rs)    *)
(* and the registry that owns them (hook/registry.rs).                     *)
(*                                                                         *)
(* Installing a hook lists an entry in the published snapshot and then     *)
(* writes the trampoline into the class's vtable slot; dropping it writes  *)
(* the captured original back, takes the entry off the list and waits for  *)
(* the calls it can count.  Meanwhile engine threads dispatch events       *)
(* through the slots, and a handler, or the engine code it calls, may fire *)
(* further events on the same thread.                                      *)
(*                                                                         *)
(* A slot, and the `original` captured from one, holds the engine's own    *)
(* ProcessEvent ("engine") or our trampoline ("tramp").                    *)
(***************************************************************************)
EXTENDS Naturals, FiniteSets, SequencesExt

CONSTANTS
    Hooks,      \* the installs, each of a class name of its own
    Vtables,
    VtableOf,   \* [Hooks -> Vtables]; classes may share one (install.rs:189)
    Threads,    \* engine threads that dispatch events
    MaxNest     \* bound: trampoline frames nested on one thread

ASSUME HookAssumption ==
    /\ VtableOf \in [Hooks -> Vtables]
    /\ MaxNest \in Nat
    /\ IsFiniteSet(Threads)
    /\ "none" \notin Hooks

VARIABLES
    slot,       \* [Vtables -> what the ProcessEvent slot points at]
    original,   \* [Hooks -> HookDef::original]
    listed,     \* REGISTRY and its published SNAPSHOT, in install order
    active,     \* [Hooks -> HookDef::active_calls]
    shutting,   \* SHUTTING_DOWN
    handles,    \* HookRegistry::handles
    state,      \* [Hooks -> progress of the install, then of the drop]
    dropping,   \* handles shutdown_all has taken and not dropped yet
    unload,     \* shutdown_all: "no", "flagged", "dropping", "returned"
    stack,      \* [Threads -> trampoline frames]
    called,     \* [Threads -> CALLED_ORIGINAL, the thread-local flag]
    unrestored, \* history: hooks whose slot could not be written back
    crossed     \* history: vtables on which a hook was taken off before one
                \* that was put above it

hookVars == <<slot, original, listed, state, unrestored, crossed>>
regVars  == <<shutting, handles, dropping, unload>>
callVars == <<active, stack, called>>
vars     == <<hookVars, regVars, callVars>>

States ==
    {"none", "captured", "listed", "patched", "owned",
     "taken", "restored", "waiting", "gone"}

\* `met`: an entry for the vtable was listed when the event came in.  `calls`
\* counts how often this frame has handed its event to the original.
Frame ==
    [v        : Vtables,
     met      : BOOLEAN,
     at       : {"enter", "found", "count", "handler", "inner", "pass",
                 "leave", "fallback"},
     h        : Hooks \cup {"none"},
     saved    : BOOLEAN,
     calls    : Nat,
     panicked : BOOLEAN]

TypeOK ==
    /\ slot \in [Vtables -> {"engine", "tramp"}]
    /\ original \in [Hooks -> {"none", "engine", "tramp"}]
    /\ listed \in Seq(Hooks)
    /\ active \in [Hooks -> Nat]
    /\ shutting \in BOOLEAN
    /\ handles \in Seq(Hooks)
    /\ state \in [Hooks -> States]
    /\ dropping \in Seq(Hooks)
    /\ unload \in {"no", "flagged", "dropping", "returned"}
    /\ stack \in [Threads -> Seq(Frame)]
    /\ called \in [Threads -> BOOLEAN]
    /\ unrestored \subseteq Hooks
    /\ crossed \subseteq Vtables

Init ==
    /\ slot = [v \in Vtables |-> "engine"]
    /\ original = [h \in Hooks |-> "none"]
    /\ listed = <<>>
    /\ active = [h \in Hooks |-> 0]
    /\ shutting = FALSE
    /\ handles = <<>>
    /\ state = [h \in Hooks |-> "none"]
    /\ dropping = <<>>
    /\ unload = "no"
    /\ stack = [t \in Threads |-> <<>>]
    /\ called = [t \in Threads |-> FALSE]
    /\ unrestored = {}
    /\ crossed = {}

\* Hook h moves on from one state to the next.
Step(h, from, to) ==
    /\ state[h] = from
    /\ state' = [state EXCEPT ![h] = to]

------------------------------------------------------------------------------
(* ProcessEventHook::install_from and HookRegistry::register.              *)

\* Mutant: the slot is patched as soon as it has been read.
InstallCapturePatches(h) ==
    /\ Step(h, "none", "captured")
    /\ original' = [original EXCEPT ![h] = slot[VtableOf[h]]]
    /\ slot' = [slot EXCEPT ![VtableOf[h]] = "tramp"]
    /\ UNCHANGED <<listed, unrestored, crossed, regVars, callVars>>

InstallCapture(h) ==
    /\ Step(h, "none", "captured")
    /\ original' = [original EXCEPT ![h] = slot[VtableOf[h]]]
    /\ UNCHANGED <<slot, listed, unrestored, crossed, regVars, callVars>>

\* An entry is listed once, so `retain` takes one out.
Unlist(h) == \E i \in 1..Len(listed) : listed[i] = h /\ listed' = RemoveAt(listed, i)

InstallList(h) ==
    /\ Step(h, "captured", "listed")
    /\ listed' = Append(listed, h)
    /\ UNCHANGED <<slot, original, unrestored, crossed, regVars, callVars>>

InstallPatch(h) ==
    /\ Step(h, "listed", "patched")
    /\ slot' = [slot EXCEPT ![VtableOf[h]] = "tramp"]
    /\ UNCHANGED <<original, listed, unrestored, crossed, regVars, callVars>>

\* VirtualProtect fails: the entry is backed out, the slot was not touched.
InstallFail(h) ==
    /\ Step(h, "listed", "gone")
    /\ Unlist(h)
    /\ UNCHANGED <<slot, original, unrestored, crossed, regVars, callVars>>

Register(h) ==
    /\ Step(h, "patched", "owned")
    /\ handles' = Append(handles, h)
    /\ UNCHANGED <<slot, original, listed, unrestored, crossed,
                   shutting, dropping, unload, callVars>>

\* A handle that is not registered is dropped by who holds it: install_many
\* does so with those it has when a later class fails.
DropUnregistered(h) ==
    /\ Step(h, "patched", "taken")
    /\ UNCHANGED <<slot, original, listed, unrestored, crossed, regVars, callVars>>

------------------------------------------------------------------------------
(* HookRegistry::remove and shutdown_all.                                  *)

\* The handle is taken out under the lock and dropped outside it.
RemoveHook(h) ==
    /\ \E i \in 1..Len(handles) : handles[i] = h /\ handles' = RemoveAt(handles, i)
    /\ Step(h, "owned", "taken")
    /\ UNCHANGED <<slot, original, listed, unrestored, crossed,
                   shutting, dropping, unload, callVars>>

ShutdownFlag ==
    /\ unload = "no"
    /\ shutting' = TRUE
    /\ unload' = "flagged"
    /\ UNCHANGED <<hookVars, handles, dropping, callVars>>

ShutdownTake ==
    /\ unload = "flagged"
    /\ dropping' = handles
    /\ handles' = <<>>
    /\ unload' = "dropping"
    /\ UNCHANGED <<hookVars, shutting, callVars>>

\* The vector drops its handles in order: the first one starts ...
ShutdownNext ==
    /\ unload = "dropping"
    /\ dropping # <<>>
    /\ Step(Head(dropping), "owned", "taken")
    /\ UNCHANGED <<slot, original, listed, unrestored, crossed, regVars, callVars>>

\* ... and the next one follows when its drop has returned.
ShutdownDone ==
    /\ unload = "dropping"
    /\ dropping # <<>> => state[Head(dropping)] = "gone"
    /\ IF dropping = <<>>
         THEN unload' = "returned" /\ UNCHANGED dropping
         ELSE dropping' = Tail(dropping) /\ UNCHANGED unload
    /\ UNCHANGED <<hookVars, shutting, handles, callVars>>

------------------------------------------------------------------------------
(* Drop for ProcessEventHook.                                              *)

\* Entry g is listed behind entry h.
Behind(g, h) ==
    \E i \in 1..Len(listed) : listed[i] = h /\ \E j \in (i + 1)..Len(listed) : listed[j] = g

\* The hooks on h's vtable that captured the trampoline when h was in place.
Above(h) ==
    {g \in Hooks : /\ VtableOf[g] = VtableOf[h]
                   /\ original[g] = "tramp"
                   /\ state[g] = "captured" \/ Behind(g, h)}

DropRestore(h) ==
    /\ Step(h, "taken", "restored")
    /\ slot' = [slot EXCEPT ![VtableOf[h]] = original[h]]
    /\ crossed' = IF Above(h) = {} THEN crossed ELSE crossed \cup {VtableOf[h]}
    /\ UNCHANGED <<original, listed, unrestored, regVars, callVars>>

\* write_slot fails and its result is not looked at: the drop goes on.
DropRestoreFails(h) ==
    /\ Step(h, "taken", "restored")
    /\ unrestored' = unrestored \cup {h}
    /\ UNCHANGED <<slot, original, listed, crossed, regVars, callVars>>

DropUnlist(h) ==
    /\ Step(h, "restored", "waiting")
    /\ Unlist(h)
    /\ UNCHANGED <<slot, original, unrestored, crossed, regVars, callVars>>

DropFinish(h) ==
    /\ Step(h, "waiting", "gone")
    /\ active[h] = 0
    /\ UNCHANGED <<slot, original, listed, unrestored, crossed, regVars, callVars>>

\* Mutant: no deadline on the wait.
DropNeverGivesUp(h) ==
    /\ Step(h, "waiting", "gone")
    /\ active[h] = 0
    /\ UNCHANGED <<slot, original, listed, unrestored, crossed, regVars, callVars>>

\* 500 ms are over with calls still inside: proceed anyway.
DropGivesUp(h) ==
    /\ Step(h, "waiting", "gone")
    /\ active[h] > 0
    /\ UNCHANGED <<slot, original, listed, unrestored, crossed, regVars, callVars>>

------------------------------------------------------------------------------
(* The trampoline, on an engine thread.                                    *)

Top(t) == stack[t][Len(stack[t])]

AtTop(t, place) == stack[t] # <<>> /\ Top(t).at = place

Retop(t, f) == stack' = [stack EXCEPT ![t][Len(stack[t])] = f]

Pop(t) == stack' = [stack EXCEPT ![t] = Front(@)]

HasEntry(v) == \E i \in 1..Len(listed) : VtableOf[listed[i]] = v

NewFrame(v) ==
    [v |-> v, met |-> HasEntry(v), at |-> "enter", h |-> "none",
     saved |-> FALSE, calls |-> 0, panicked |-> FALSE]

\* Thread t is where engine code runs: outside, in a handler, or in the
\* original that a frame has called.
InEngine(t) ==
    \/ stack[t] = <<>>
    \/ \E p \in {"handler", "inner", "pass", "fallback"} : AtTop(t, p)

\* The engine calls ProcessEvent on an object with a patched vtable.  (With
\* an unpatched one none of this code runs.)
Dispatch(t, v) ==
    /\ InEngine(t)
    /\ Len(stack[t]) < MaxNest
    /\ slot[v] = "tramp"
    /\ stack' = [stack EXCEPT ![t] = Append(@, NewFrame(v))]
    /\ UNCHANGED <<hookVars, regVars, active, called>>

\* Mutant of LookupFinds: the latest hook wins.
LookupFindsLast(t) ==
    /\ AtTop(t, "enter")
    /\ \E i \in 1..Len(listed) :
         /\ VtableOf[listed[i]] = Top(t).v
         /\ \A j \in (i + 1)..Len(listed) : VtableOf[listed[j]] # Top(t).v
         /\ Retop(t, [Top(t) EXCEPT !.at = "found", !.h = listed[i]])
    /\ UNCHANGED <<hookVars, regVars, active, called>>

\* The first listed entry of this vtable is found.
LookupFinds(t) ==
    /\ AtTop(t, "enter")
    /\ \E i \in 1..Len(listed) :
         /\ VtableOf[listed[i]] = Top(t).v
         /\ \A j \in 1..(i - 1) : VtableOf[listed[j]] # Top(t).v
         /\ Retop(t, [Top(t) EXCEPT !.at = "found", !.h = listed[i]])
    /\ UNCHANGED <<hookVars, regVars, active, called>>

\* "Shouldn't happen": return without calling anything.  It does happen to an
\* event that came in before a drop took the entry off the list.
LookupMisses(t) ==
    /\ AtTop(t, "enter")
    /\ ~HasEntry(Top(t).v)
    /\ Pop(t)
    /\ UNCHANGED <<hookVars, regVars, active, called>>

CheckRunning(t) ==
    /\ AtTop(t, "found")
    /\ ~shutting
    /\ Retop(t, [Top(t) EXCEPT !.at = "count"])
    /\ UNCHANGED <<hookVars, regVars, active, called>>

\* OriginalProcessEvent::call from the frame on top of t's stack, which then
\* stands at `place`.  An original that is the trampoline starts a new frame.
CallOriginal(t, place) ==
    LET f    == Top(t)
        me   == [f EXCEPT !.at = place, !.calls = @ + 1]
    IN  /\ called' = [called EXCEPT ![t] = TRUE]
        /\ IF original[f.h] = "engine"
             THEN Retop(t, me)
             ELSE /\ Len(stack[t]) < MaxNest
                  /\ stack' = [stack EXCEPT ![t] =
                                   Append(Append(Front(@), me), NewFrame(f.v))]

\* During shutdown the handler is skipped and the call is not counted.
PassThrough(t) ==
    /\ AtTop(t, "found")
    /\ shutting
    /\ CallOriginal(t, "pass")
    /\ UNCHANGED <<hookVars, regVars, active>>

\* Count the call, save and clear the flag, enter the handler.
Enter(t) ==
    /\ AtTop(t, "count")
    /\ active' = [active EXCEPT ![Top(t).h] = @ + 1]
    /\ called' = [called EXCEPT ![t] = FALSE]
    /\ Retop(t, [Top(t) EXCEPT !.at = "handler", !.saved = called[t]])
    /\ UNCHANGED <<hookVars, regVars>>

\* Handlers call the original once at most.
HandlerCalls(t) ==
    /\ AtTop(t, "handler")
    /\ Top(t).calls = 0
    /\ CallOriginal(t, "inner")
    /\ UNCHANGED <<hookVars, regVars, active>>

InnerReturns(t) ==
    /\ AtTop(t, "inner")
    /\ Retop(t, [Top(t) EXCEPT !.at = "handler"])
    /\ UNCHANGED <<hookVars, regVars, active, called>>

HandlerEnds(t) ==
    /\ AtTop(t, "handler")
    /\ \E p \in BOOLEAN : Retop(t, [Top(t) EXCEPT !.at = "leave", !.panicked = p])
    /\ UNCHANGED <<hookVars, regVars, active, called>>

\* Mutant: the flag is cleared instead of the outer frame's value put back.
LeaveReturnsClears(t) ==
    /\ AtTop(t, "leave")
    /\ ~Top(t).panicked \/ called[t]
    /\ called' = [called EXCEPT ![t] = FALSE]
    /\ active' = [active EXCEPT ![Top(t).h] = @ - 1]
    /\ Pop(t)
    /\ UNCHANGED <<hookVars, regVars>>

\* The flag is read and the outer frame's value put back, the call is
\* uncounted; a handler that panicked before calling the engine is made up for.
LeaveReturns(t) ==
    /\ AtTop(t, "leave")
    /\ ~Top(t).panicked \/ called[t]
    /\ called' = [called EXCEPT ![t] = Top(t).saved]
    /\ active' = [active EXCEPT ![Top(t).h] = @ - 1]
    /\ Pop(t)
    /\ UNCHANGED <<hookVars, regVars>>

\* Mutant: the panic path does not uncount the call.
LeaveFallsBackCounted(t) ==
    /\ AtTop(t, "leave")
    /\ Top(t).panicked /\ ~called[t]
    /\ CallOriginal(t, "fallback")
    /\ UNCHANGED <<hookVars, regVars, active>>

\* The call made up for is another OriginalProcessEvent::call: it sets the flag
\* after the outer frame's value was put back.
LeaveFallsBack(t) ==
    /\ AtTop(t, "leave")
    /\ Top(t).panicked /\ ~called[t]
    /\ active' = [active EXCEPT ![Top(t).h] = @ - 1]
    /\ CallOriginal(t, "fallback")
    /\ UNCHANGED <<hookVars, regVars>>

\* Mutant: every way out of the trampoline uncounts, counted or not.
OriginalReturnsUncounts(t) ==
    /\ AtTop(t, "pass") \/ AtTop(t, "fallback")
    /\ active' = [active EXCEPT ![Top(t).h] = @ - 1]
    /\ Pop(t)
    /\ UNCHANGED <<hookVars, regVars, called>>

OriginalReturns(t) ==
    /\ AtTop(t, "pass") \/ AtTop(t, "fallback")
    /\ Pop(t)
    /\ UNCHANGED <<hookVars, regVars, active, called>>

------------------------------------------------------------------------------
Install(h) ==
    \/ InstallCapture(h) \/ InstallList(h) \/ InstallPatch(h) \/ InstallFail(h)
    \/ Register(h) \/ DropUnregistered(h)

Drop(h) ==
    DropRestore(h) \/ DropRestoreFails(h) \/ DropUnlist(h) \/ DropFinish(h) \/ DropGivesUp(h)

Shutdown == ShutdownFlag \/ ShutdownTake \/ ShutdownNext \/ ShutdownDone

Trampoline(t) ==
    \/ LookupFinds(t) \/ LookupMisses(t) \/ CheckRunning(t) \/ PassThrough(t)
    \/ Enter(t) \/ HandlerCalls(t) \/ InnerReturns(t) \/ HandlerEnds(t)
    \/ LeaveReturns(t) \/ LeaveFallsBack(t) \/ OriginalReturns(t)

Next ==
    \/ \E h \in Hooks : Install(h) \/ RemoveHook(h) \/ Drop(h)
    \/ Shutdown
    \/ \E t \in Threads : Trampoline(t) \/ \E v \in Vtables : Dispatch(t, v)

Spec == Init /\ [][Next]_vars

(* The unloading thread runs to its end once it has started: nothing is        *)
(* assumed about handlers, which may block for ever.                           *)
FairSpec ==
    /\ Spec
    /\ WF_vars(ShutdownTake \/ ShutdownNext \/ ShutdownDone)
    /\ \A h \in Hooks : WF_vars(Drop(h))

------------------------------------------------------------------------------
(* Properties.                                                             *)

\* No event is handed to the engine's ProcessEvent twice, whatever nests and
\* whoever panics (a second call would credit a kill twice).
EngineAtMostOnce ==
    \A t \in Threads : \A i \in 1..Len(stack[t]) : stack[t][i].calls <= 1

\* The counter a drop waits on is exactly the number of frames between Enter
\* and Leave, over nesting and panics: no call is forgotten, none leaks.
InHandler(f) == f.at \in {"handler", "inner", "leave"}

InFlight(h) ==
    {x \in Threads \X (1..MaxNest) :
        /\ x[2] <= Len(stack[x[1]])
        /\ stack[x[1]][x[2]].h = h
        /\ InHandler(stack[x[1]][x[2]])}

ActiveIsExact == \A h \in Hooks : active[h] = Cardinality(InFlight(h))

\* The exceptions to what follows: a slot could not be written back, or hooks
\* that share the vtable were not taken off in the reverse order of their
\* installs (shutdown_all takes them off in the same order, registry.rs:111).
Disturbed(v) == v \in crossed \/ \E h \in unrestored : VtableOf[h] = v

\* While a slot holds our trampoline an entry is listed: installs list before
\* they patch, drops restore before they unlist, whoever shares the vtable.
PatchedIsListed ==
    \A v \in Vtables : slot[v] = "tramp" => HasEntry(v) \/ Disturbed(v)

\* When every hook of a vtable is gone its slot holds the engine's function
\* ("Each Drop restores its class's vtable slot to the engine's original").
DroppedIsRestored ==
    \A v \in Vtables :
        (\A h \in Hooks : VtableOf[h] = v => state[h] \in {"none", "gone"})
            => slot[v] = "engine" \/ Disturbed(v)

\* The slots in the engine's vtables and the registry agree, from both ends.
SlotsAreSound == PatchedIsListed /\ DroppedIsRestored

\* An event in the trampoline gets to the engine's function: the entry that is
\* found for it has captured that function, though hooks above it captured the
\* trampoline, so the event does not come round again; and none came in without
\* an entry.  An event is lost only if the entries it met were taken off before
\* it looked.
EventsReachEngine ==
    \A t \in Threads : \A i \in 1..Len(stack[t]) :
        LET f == stack[t][i]
        IN  \/ Disturbed(f.v)
            \/ IF f.at = "enter" THEN f.met ELSE original[f.h] = "engine"

\* Unloading ends: shutdown_all returns even if a handler never does.
ShutdownReturns == unload = "flagged" ~> unload = "returned"
==============================================================================
