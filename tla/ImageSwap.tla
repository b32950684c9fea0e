------------------------------ MODULE ImageSwap ------------------------------
(***************************************************************************)
(* How a new build reaches a running game (src/ueforge/src/mod_main.rs:    *)
(* cleanup_old_dll, apply_pending_swap_at_init, finalize_hot_reload_swap;  *)
(* src/modforge/src/hot_reload.rs; src/modforge/src/bin/modforge_deploy.rs:*)
(* run_install; src/ueforge/cpp/ueforge_shim.cpp).                         *)
(*                                                                         *)
(* The deploy tool writes main-new.dll beside the loaded main.dll; the mod *)
(* renames main.dll aside and main-new.dll into its place, when it starts  *)
(* and when it is unloaded.  Nothing locks the directory: the deploy tool  *)
(* is another process.  Any rename or removal may fail, and the game may   *)
(* be killed between any two steps.                                        *)
(*                                                                         *)
(* Of Windows (external): the file of a loaded image can be renamed, cannot*)
(* be written or replaced, and may or may not be removable; a file that is *)
(* being written cannot be renamed, replaced or loaded.                    *)
(***************************************************************************)
EXTENDS Naturals

CONSTANTS
    MaxDeploys, \* bound: how often a build is deployed
    MaxCrashes  \* bound: how often the game is killed

ASSUME ImageSwapAssumption == MaxDeploys \in Nat /\ MaxCrashes \in Nat

Names == {"main", "new", "old"}   \* main.dll, main-new.dll, main-old.dll
Builds == 1 .. MaxDeploys
NoFile == 0
NoName == "none"

VARIABLES
    file,      \* [Names -> the build in that file, or NoFile]
    image,     \* the build that is loaded, or NoFile
    mapped,    \* the name its file has now, or NoName
    pc,        \* where the mod's start or shutdown is
    swapper,   \* who swaps: "init" or "final"
    watcher,   \* the hot-reload thread: "off", "polling", "exited"
    hotkey,    \* a Ctrl+R that UE4SS has not handled yet
    focus,     \* the game is the foreground window
    deploy,    \* the deploy tool: "idle", "open", "copy"
    dst,       \* the name it writes to
    built,     \* how many builds were given to the deploy tool
    delivered, \* history: the last build that was deployed
    cut,       \* history: a swap was cut short, and main.dll is missing
    astray,    \* history: a later deploy found no main.dll
    crashes    \* history: how often the game was killed

gameVars   == <<image, mapped, pc, swapper>>
reloadVars == <<watcher, hotkey, focus>>
deployVars == <<deploy, dst, built, delivered>>
vars == <<file, gameVars, reloadVars, deployVars, cut, astray, crashes>>

TypeOK ==
    /\ file \in [Names -> Builds \cup {NoFile}]
    /\ image \in Builds \cup {NoFile}
    /\ mapped \in {"main", "old", NoName}
    /\ pc \in {"out", "clean", "check", "remove", "aside", "promote", "back",
               "done", "running"}
    /\ swapper \in {"init", "final"}
    /\ watcher \in {"off", "polling", "exited"}
    /\ hotkey \in BOOLEAN /\ focus \in BOOLEAN
    /\ deploy \in {"idle", "open", "copy"}
    /\ dst \in {"main", "new"}
    /\ built \in 0 .. MaxDeploys /\ delivered \in 0 .. MaxDeploys
    /\ cut \in BOOLEAN /\ astray \in BOOLEAN
    /\ crashes \in 0 .. MaxCrashes

Init ==
    /\ file = [n \in Names |-> NoFile]
    /\ image = NoFile /\ mapped = NoName
    /\ pc = "out" /\ swapper = "init"
    /\ watcher = "off" /\ hotkey = FALSE /\ focus \in BOOLEAN
    /\ deploy = "idle" /\ dst = "main" /\ built = 0 /\ delivered = 0
    /\ cut = FALSE /\ astray = FALSE /\ crashes = 0

------------------------------------------------------------------------------
(* Files.                                                                  *)

Written(n) == deploy = "copy" /\ dst = n

CanReplace(n) == mapped # n /\ ~Written(n)

CanRename(from, to) == file[from] # NoFile /\ ~Written(from) /\ CanReplace(to)

Rename(from, to) ==
    /\ CanRename(from, to)
    /\ file' = [file EXCEPT ![to] = file[from], ![from] = NoFile]
    /\ mapped' = IF mapped = from THEN to ELSE mapped

\* Removing main-old.dll is tried, and a failure is ignored.
TryRemoveOld ==
    \/ /\ file' = [file EXCEPT !["old"] = NoFile]
       /\ mapped' = IF mapped = "old" THEN NoName ELSE mapped
    \/ UNCHANGED <<file, mapped>>

------------------------------------------------------------------------------
(* The deploy tool, run_install.                                           *)

\* The side file is written if there is a main.dll at this moment.
DeployChooses ==
    /\ deploy = "idle" /\ built < MaxDeploys
    /\ dst' = IF file["main"] # NoFile THEN "new" ELSE "main"
    /\ built' = built + 1
    /\ deploy' = "open"
    /\ astray' = (astray \/ (file["main"] = NoFile /\ built > 0))
    /\ UNCHANGED <<file, gameVars, reloadVars, delivered, cut, crashes>>

\* fs::copy truncates the destination, ...
DeployOpens ==
    /\ deploy = "open"
    /\ mapped # dst
    /\ file' = [file EXCEPT ![dst] = built]
    /\ deploy' = "copy"
    /\ cut' = (cut /\ dst # "main")
    /\ UNCHANGED <<gameVars, reloadVars, dst, built, delivered, astray, crashes>>

\* ... which fails on a loaded image, and the tool says so ...
DeployFails ==
    /\ deploy = "open"
    /\ mapped = dst
    /\ deploy' = "idle"
    /\ UNCHANGED <<file, gameVars, reloadVars, dst, built, delivered, cut, astray, crashes>>

\* ... and fills it.  A build that goes through the side file again ends what
\* a deploy onto a missing main.dll began.
DeployEnds ==
    /\ deploy = "copy"
    /\ deploy' = "idle"
    /\ delivered' = built
    /\ astray' = (astray /\ dst = "main")
    /\ UNCHANGED <<file, gameVars, reloadVars, dst, built, cut, crashes>>

Deploy == DeployOpens \/ DeployFails \/ DeployEnds

------------------------------------------------------------------------------
(* The image: UE4SS loads it and calls start_mod and on_unreal_init.       *)

Load ==
    /\ pc = "out"
    /\ file["main"] # NoFile /\ ~Written("main")
    /\ image' = file["main"] /\ mapped' = "main"
    /\ pc' = "clean" /\ swapper' = "init"
    /\ UNCHANGED <<file, reloadVars, deployVars, cut, astray, crashes>>

\* cleanup_old_dll.
Cleanup ==
    /\ pc = "clean"
    /\ TryRemoveOld
    /\ pc' = "check"
    /\ UNCHANGED <<image, swapper, reloadVars, deployVars, cut, astray, crashes>>

\* The same steps are apply_pending_swap_at_init and finalize_hot_reload_swap.
Check ==
    /\ pc = "check"
    /\ pc' = IF file["new"] # NoFile THEN "remove" ELSE "done"
    /\ UNCHANGED <<file, image, mapped, swapper, reloadVars, deployVars, cut, astray, crashes>>

RemoveOld ==
    /\ pc = "remove"
    /\ TryRemoveOld
    /\ pc' = "aside"
    /\ UNCHANGED <<image, swapper, reloadVars, deployVars, cut, astray, crashes>>

\* Mutant of Aside: main.dll is renamed onto the pending image.
AsideOntoNew ==
    /\ pc = "aside"
    /\ Rename("main", "new")
    /\ pc' = "promote"
    /\ UNCHANGED <<image, swapper, reloadVars, deployVars, cut, astray, crashes>>

\* Mutant of Aside: the rename does not replace a file that could not be removed.
AsideVacant ==
    /\ pc = "aside"
    /\ file["old"] = NoFile
    /\ Rename("main", "old")
    /\ pc' = "promote"
    /\ UNCHANGED <<image, swapper, reloadVars, deployVars, cut, astray, crashes>>

Aside ==
    /\ pc = "aside"
    /\ Rename("main", "old")
    /\ pc' = "promote"
    /\ UNCHANGED <<image, swapper, reloadVars, deployVars, cut, astray, crashes>>

AsideFails ==
    /\ pc = "aside"
    /\ pc' = "done"
    /\ UNCHANGED <<file, image, mapped, swapper, reloadVars, deployVars, cut, astray, crashes>>

Promote ==
    /\ pc = "promote"
    /\ Rename("new", "main")
    /\ pc' = "done"
    /\ UNCHANGED <<image, swapper, reloadVars, deployVars, cut, astray, crashes>>

\* Mutant of PromoteFails: no rollback.
PromoteFailsReturns ==
    /\ pc = "promote"
    /\ pc' = "done"
    /\ UNCHANGED <<file, image, mapped, swapper, reloadVars, deployVars, cut, astray, crashes>>

PromoteFails ==
    /\ pc = "promote"
    /\ pc' = "back"
    /\ UNCHANGED <<file, image, mapped, swapper, reloadVars, deployVars, cut, astray, crashes>>

\* Mutant of RollBack: the pending image is renamed aside too.
RollBackNew ==
    /\ pc = "back"
    /\ Rename("new", "old")
    /\ pc' = "done"
    /\ cut' = (file'["main"] = NoFile)
    /\ UNCHANGED <<image, swapper, reloadVars, deployVars, astray, crashes>>

RollBack ==
    /\ pc = "back"
    /\ Rename("old", "main")
    /\ pc' = "done"
    /\ UNCHANGED <<image, swapper, reloadVars, deployVars, cut, astray, crashes>>

\* The rollback's own failure is ignored.
RollBackFails ==
    /\ pc = "back"
    /\ pc' = "done"
    /\ cut' = (file["main"] = NoFile)
    /\ UNCHANGED <<file, image, mapped, swapper, reloadVars, deployVars, astray, crashes>>

\* on_unreal_init goes on: the hot-reload watcher is spawned.
Start ==
    /\ pc = "done" /\ swapper = "init"
    /\ pc' = "running"
    /\ watcher' = "polling"
    /\ UNCHANGED <<file, image, mapped, swapper, hotkey, focus, deployVars, cut, astray, crashes>>

\* ~UespyMod has returned and UE4SS frees the library.  Nobody has joined the
\* watcher: if it still slept, what it wakes up to may kill the game (Crash).
Unmap ==
    /\ pc = "done" /\ swapper = "final"
    /\ pc' = "out"
    /\ image' = NoFile /\ mapped' = NoName
    /\ watcher' = "off"
    /\ UNCHANGED <<file, swapper, hotkey, focus, deployVars, cut, astray, crashes>>

Initialise == Cleanup \/ Start
Finalise == Check \/ RemoveOld \/ Unmap
SwapFails == AsideFails \/ PromoteFails \/ RollBackFails

------------------------------------------------------------------------------
(* Reloading.                                                              *)

\* uninstall_mod deletes the mod object, whose destructor is the shutdown.
Uninstall ==
    /\ pc = "running"
    /\ pc' = "check" /\ swapper' = "final"
    /\ UNCHANGED <<file, image, mapped, watcher, focus, deployVars, cut, astray, crashes>>

\* The player presses Ctrl+R, or closes the game.
PlayerReloads == Uninstall /\ UNCHANGED hotkey

HotkeyReloads == hotkey /\ Uninstall /\ hotkey' = FALSE

\* The watcher finds the side file, sends Ctrl+R to the foreground window and ends.
WatcherSends ==
    /\ watcher = "polling"
    /\ file["new"] # NoFile
    /\ hotkey' = (hotkey \/ focus)
    /\ watcher' = "exited"
    /\ UNCHANGED <<file, gameVars, focus, deployVars, cut, astray, crashes>>

FocusChanges ==
    /\ focus' = ~focus
    /\ UNCHANGED <<file, gameVars, watcher, hotkey, deployVars, cut, astray, crashes>>

Crash ==
    /\ pc # "out" /\ crashes < MaxCrashes
    /\ crashes' = crashes + 1
    /\ cut' = (file["main"] = NoFile)
    /\ pc' = "out" /\ image' = NoFile /\ mapped' = NoName
    /\ watcher' = "off" /\ hotkey' = FALSE
    /\ UNCHANGED <<file, swapper, focus, deployVars, astray>>

Next ==
    \/ DeployChooses \/ Deploy
    \/ Load \/ Initialise \/ Finalise
    \/ Aside \/ Promote \/ RollBack \/ SwapFails
    \/ PlayerReloads \/ HotkeyReloads \/ WatcherSends \/ FocusChanges
    \/ Crash

Spec == Init /\ [][Next]_vars

\* The program's own steps are taken; a rename that can succeed again and again
\* succeeds in the end.
Fairness ==
    /\ WF_vars(Deploy) /\ WF_vars(Load)
    /\ WF_vars(Initialise) /\ WF_vars(Finalise)
    /\ WF_vars(SwapFails)
    /\ SF_vars(Aside) /\ SF_vars(Promote) /\ SF_vars(RollBack)
    /\ WF_vars(WatcherSends) /\ WF_vars(HotkeyReloads)

FairSpec == Spec /\ Fairness

\* The player reloads, or restarts the game, again and again.
PlayedSpec == FairSpec /\ WF_vars(PlayerReloads)

------------------------------------------------------------------------------
(* Properties.                                                             *)

\* The mod can be loaded at every moment but between the two renames: a failed
\* rename is rolled back, and only a killed game or a failed rollback leaves the
\* directory without main.dll.
Loadable == file["main"] = NoFile /\ delivered # NoFile => pc \in {"promote", "back"} \/ cut

\* The last build that was deployed is never deleted or renamed away, by
\* whichever swap: it is the next one to be loaded or waits in the side file,
\* if the deploy found a main.dll.
NewestIsKept ==
    deploy # "copy" /\ delivered # NoFile /\ ~astray =>
        delivered \in {file["main"], file["new"]}

\* A deployed build gets to run, whoever holds main-old.dll and however often a
\* rename fails before it succeeds, if the game is reloaded often enough.
DeployArrives ==
    delivered = MaxDeploys ~> image = MaxDeploys \/ cut \/ astray
==============================================================================
