----------------------------- MODULE Generations -----------------------------
(***************************************************************************)
(* Loading, swapping and re-arming the images of a Unity mod               *)
(* (src/unityforge/cs-shim-common/GenerationLoader.cs,                     *)
(* cs-shim-survivalist/Main.cs; unityforge_init and unityforge_shutdown in *)
(* src/unityforge/src/mod_main.rs; ShutdownRegistry::run_all in            *)
(* src/modforge/src/shutdown.rs).                                          *)
(*                                                                         *)
(* Every image that is loaded keeps its statics for the life of the        *)
(* process: no image is unmapped.  Its init starts background threads (the *)
(* HTTP listener and the pollers), its shutdown runs the handlers that     *)
(* stop them.  The loader runs on the game's main thread; images appear on *)
(* disk at any time, and the game's own mod manager may unload the mod and *)
(* load it again.                                                          *)
(*                                                                         *)
(* The parts of the specification are prefixed (GenInit, GenNext), since   *)
(* ImageProofs extends this module beside ImageSwap.                       *)
(***************************************************************************)
EXTENDS Naturals

CONSTANTS
    MaxGen,   \* the highest generation that is staged
    MaxInits, \* bound: how often unityforge_init is called
    None      \* no image

ASSUME GenerationsAssumption == MaxGen \in Nat /\ MaxInits \in Nat /\ None \notin Nat

Images == 0 .. MaxGen

VARIABLES
    staged,   \* the images on disk
    bad,      \* those that cannot be loaded or refuse to start
    active,   \* _active
    dormant,  \* _dormant: parked until the mod is loaded again
    old,      \* the image that a swap replaces, or None
    fresh,    \* the image that a swap loads, or None
    place,    \* where the loader is
    once,     \* images whose shutdown handlers were registered, ever
    handlers, \* images whose SHUTDOWN_REGISTRY has the handlers
    threads,  \* [Images -> how many listeners it runs, with their threads]
    deaf,     \* images whose last init could not bind the port
    inits,    \* how often unityforge_init was called and went well
    rearmed   \* history: images that were initialised again

diskVars   == <<staged, bad>>
loaderVars == <<active, dormant, old, fresh, place>>
imageVars  == <<once, handlers, threads, deaf>>
genVars == <<diskVars, loaderVars, imageVars, inits, rearmed>>

GenTypeOK ==
    /\ staged \subseteq Images /\ bad \subseteq Images
    /\ {active, dormant, old, fresh} \subseteq Images \cup {None}
    /\ place \in {"none", "running", "stop", "load", "parked", "dead", "ended"}
    /\ once \subseteq Images /\ handlers \subseteq once
    /\ threads \in [Images -> 0 .. inits]
    /\ inits \in 0 .. MaxInits
    /\ deaf \subseteq once /\ rearmed \subseteq once

GenInit ==
    /\ staged = {0} /\ bad \in SUBSET (Images \ {0})
    /\ active = None /\ dormant = None /\ old = None /\ fresh = None
    /\ place = "none"
    /\ once = {} /\ handlers = {} /\ deaf = {}
    /\ threads = [g \in Images |-> 0]
    /\ inits = 0 /\ rearmed = {}

------------------------------------------------------------------------------
(* An image's own part.                                                    *)

\* Mutant of InitOf: the handlers are not registered ("ueforge always did this
\* ... unityforge never did").
InitOfUnwired(g) ==
    /\ inits' = inits + 1
    /\ once' = once \cup {g} /\ UNCHANGED <<handlers, deaf>>
    /\ threads' = [threads EXCEPT ![g] = @ + 1]
    /\ rearmed' = IF g \in once THEN rearmed \cup {g} ELSE rearmed

\* Mutant of InitOf: the mod's own init starts the listener as well.
InitOfTwice(g) ==
    /\ inits' = inits + 1
    /\ once' = once \cup {g}
    /\ handlers' = IF g \in once THEN handlers ELSE handlers \cup {g}
    /\ threads' = [threads EXCEPT ![g] = @ + 2] /\ UNCHANGED deaf
    /\ rearmed' = IF g \in once THEN rearmed \cup {g} ELSE rearmed

\* unityforge_init: the handlers are registered the first time only, and the
\* listener starts unless the port cannot be bound.
InitOf(g) ==
    /\ inits' = inits + 1
    /\ once' = once \cup {g}
    /\ handlers' = IF g \in once THEN handlers ELSE handlers \cup {g}
    /\ \/ threads' = [threads EXCEPT ![g] = @ + 1] /\ deaf' = deaf \ {g}
       \/ UNCHANGED threads /\ deaf' = deaf \cup {g}
    /\ rearmed' = IF g \in once THEN rearmed \cup {g} ELSE rearmed

\* unityforge_shutdown: run_all takes the handlers out of the registry and runs
\* what it took.
ShutdownOf(g) ==
    /\ threads' = IF g \in handlers THEN [threads EXCEPT ![g] = 0] ELSE threads
    /\ handlers' = handlers \ {g}
    /\ UNCHANGED <<once, deaf, inits, rearmed>>

------------------------------------------------------------------------------
(* The loader.  An init that fails has done nothing yet: it returns before *)
(* the handlers are registered.                                            *)

Stage(g) ==
    /\ g \notin staged
    /\ staged' = staged \cup {g}
    /\ UNCHANGED <<bad, loaderVars, imageVars, inits, rearmed>>

LoadInitial ==
    /\ place = "none"
    /\ inits < MaxInits
    /\ InitOf(0)
    /\ active' = 0 /\ place' = "running"
    /\ UNCHANGED <<diskVars, dormant, old, fresh>>

\* Mutant of SwapBegins: the next generation is looked for, not the newest.
SwapBeginsNext(g) ==
    /\ place = "running"
    /\ inits < MaxInits
    /\ g \in staged /\ g = active + 1
    /\ old' = active /\ fresh' = g /\ active' = None
    /\ place' = "stop"
    /\ UNCHANGED <<diskVars, dormant, imageVars, inits, rearmed>>

\* Once per second the newest image on disk is looked for: it is tried again
\* and again if it does not load.
SwapBegins(g) ==
    /\ place = "running"
    /\ inits < MaxInits
    /\ g \in staged /\ g > active
    /\ \A n \in staged : n <= g
    /\ old' = active /\ fresh' = g /\ active' = None
    /\ place' = "stop"
    /\ UNCHANGED <<diskVars, dormant, imageVars, inits, rearmed>>

SwapStops ==
    /\ place = "stop"
    /\ ShutdownOf(old)
    /\ place' = "load"
    /\ UNCHANGED <<diskVars, active, dormant, old, fresh>>

SwapLoads ==
    /\ place = "load"
    /\ fresh \notin bad
    /\ InitOf(fresh)
    /\ active' = fresh /\ old' = None /\ fresh' = None
    /\ place' = "running"
    /\ UNCHANGED <<diskVars, dormant>>

\* The image does not load: the old one is initialised again.
SwapRollsBack ==
    /\ place = "load"
    /\ fresh \in bad
    /\ InitOf(old)
    /\ active' = old /\ old' = None /\ fresh' = None
    /\ place' = "running"
    /\ UNCHANGED <<diskVars, dormant>>

\* The old one refuses as well: no image is active, so nothing ticks, looks for
\* a newer one or can be parked, and the next Load finds nothing to re-arm.
RollbackFails ==
    /\ place = "load"
    /\ fresh \in bad
    /\ old' = None /\ fresh' = None
    /\ place' = "dead"
    /\ UNCHANGED <<diskVars, active, dormant, imageVars, inits, rearmed>>

\* The game's mod manager unloads the mod ...
Unload ==
    /\ place = "running"
    /\ ShutdownOf(active)
    /\ dormant' = active /\ active' = None
    /\ place' = "parked"
    /\ UNCHANGED <<diskVars, old, fresh>>

\* ... and loads it again: ReinitAfterUnload.
Reload ==
    /\ place = "parked"
    /\ inits < MaxInits
    /\ InitOf(dormant)
    /\ active' = dormant /\ dormant' = None
    /\ place' = "running"
    /\ UNCHANGED <<diskVars, old, fresh>>

\* The first image or the parked one does not start: the next Load tries again.
LoadFails ==
    /\ place \in {"none", "parked"}
    /\ UNCHANGED genVars

\* The process goes down: ShutdownFinal.
ShutdownFinal ==
    /\ place = "running"
    /\ ShutdownOf(active)
    /\ active' = None
    /\ place' = "ended"
    /\ UNCHANGED <<diskVars, dormant, old, fresh>>

Swap == SwapStops \/ SwapLoads \/ SwapRollsBack \/ RollbackFails

GenNext ==
    \/ \E g \in Images : Stage(g) \/ SwapBegins(g)
    \/ LoadInitial \/ Swap \/ Unload \/ Reload \/ LoadFails \/ ShutdownFinal

GenSpec == GenInit /\ [][GenNext]_genVars

\* The loader is called every frame.
GenFairness == WF_genVars(Swap) /\ WF_genVars(\E g \in Images : SwapBegins(g))

GenFairSpec == GenSpec /\ GenFairness

------------------------------------------------------------------------------
(* Properties.                                                             *)

\* The port is answered by the image that is active, if it could bind it, and by
\* no other: between swaps every image has its listener while it is active and
\* none when it is not, whichever images were swapped in, refused or rolled
\* back.  An image that was initialised again is the exception.
OnlyActiveServes ==
    place \notin {"stop", "load"} =>
        \A g \in Images \ rearmed :
            threads[g] = IF g = active /\ g \notin deaf THEN 1 ELSE 0

\* A good image that is the newest on disk gets to run, whichever bad ones came
\* before it, and a swap that has begun ends with an image that runs.  The
\* exception is a bad image behind which the old one refuses to start again:
\* that leaves the mod without an image, for good.
NewestRuns ==
    /\ \A g \in Images :
           place = "running" /\ g \in staged \ bad /\ (\A n \in staged : n <= g) ~>
               active = g \/ place \in {"parked", "dead", "ended"} \/ inits = MaxInits
                          \/ \E n \in staged : n > g
    /\ \A g \in Images :
           place = "stop" /\ fresh = g ~> active # None \/ (place = "dead" /\ g \in bad)

\* src/unityforge/cs-shim-common/GenerationLoader.cs:20-23: the swap "calls
\* `unityforge_shutdown` on the active generation (... thread joins. So all
\* background threads exit before we proceed)".
ThreadsExit == place = "load" => threads[old] = 0
==============================================================================
