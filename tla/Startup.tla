------------------------------ MODULE Startup ------------------------------
(***************************************************************************)
(* main() with its provisioning step taken apart: Boot for what a process  *)
(* does to docker and the kernel, Provision for what it does to base/.     *)
(* base/ is the lower layer of every game container, and containers of an  *)
(* earlier process may still run when the next one provisions.             *)
(***************************************************************************)
EXTENDS Boot, Provision

startupVars == <<bootVars, pvars>>

StartupInit == Init /\ ProvisionInit

\* The steps of provision.Run that leave the process running.
Provisions ==
  \/ Start \/ ensureImage
  \/ GameUpToDate \/ GameOutdated \/ steamUpdate \/ SteamComplete
  \/ SteamIncomplete /\ pc' # "down"
  \/ ModsUpToDate \/ ClearMods \/ LayMetaMod \/ LayCSS \/ bakeCoreJSON
  \/ bakeHook \/ saveReceipt

Provisioning == Provisions /\ stage = "provision" /\ UNCHANGED bootVars

\* provision.Run, where it is, ends with its process.
Ended == IF pc = "down" THEN UNCHANGED pvars ELSE Stop

\* Mutant: an error of provision.Run is logged, and main goes on.
ProvisionedOrNot == ProvisionRun /\ IF pc = "done" THEN UNCHANGED pvars ELSE Ended

\* provision.Run returned nil.
Provisioned == ProvisionRun /\ pc = "done" /\ UNCHANGED pvars

\* The other steps of a process that lives on.
MainStep ==
  /\ \/ Launch \/ KillOrphans \/ EnsureNetwork \/ StartContainer \/ Connect
     \/ InstallTable \/ InstallDockerUser \/ Serve
     \/ ManagerDone \/ StopProxy \/ CloseStore
  /\ UNCHANGED pvars

\* A step of provision.Run fails: main exits.
ProvisionFails ==
  /\ stage = "provision" /\ Fatal
  /\ Ended \/ LayFails \/ (SteamIncomplete /\ pc' = "down")

Dying ==
  \/ (ProxyStartFails \/ Crash \/ Reboot) /\ Ended
  \/ Fatal /\ stage # "provision" /\ Ended
  \/ ProvisionFails

LastStep == RemoveNetwork /\ Ended

StartupNext ==
  \/ Provisioning \/ Provisioned \/ MainStep \/ LastStep \/ Dying
  \/ (Works \/ Signal \/ Upgrade) /\ UNCHANGED pvars
  \/ (\E part \in {"game", "mm", "css"} : Publish(part)) /\ UNCHANGED bootVars

\* The operator starts the orchestrator again when it is off, and a process that is
\* not killed takes its next step: every call to docker and SteamCMD returns.
StartupSpec ==
  /\ StartupInit /\ [][StartupNext]_startupVars
  /\ WF_startupVars(Provisioning \/ Provisioned \/ MainStep \/ LastStep)

-----------------------------------------------------------------------------
Whole == manifest # 0 /\ files = manifest /\ Complete(addons, bundle(receipt))

\* A game container plays on a complete base/ of one game build and the receipt's mods:
\* none is created before provisioning is done, and none of an earlier process is left
\* when a later one tears base/ down to build it again, unless killOrphans failed.
PlayedBaseIsWhole == "own" \in games \/ (games # {} /\ listed) => Whole

\* The inductive invariant behind it (proved in StartupProofs): provision.Run is done
\* from the step after it on and not begun before it, and until the process serves
\* there are no containers but those that killOrphans failed to remove.
PlayInv ==
  /\ stage \in {"off", "orphans", "network", "container", "connect"} => pc = "down"
  /\ stage \in {"table", "rule", "closeStore", "removeNetwork"} \cup Serving => pc = "done"
  /\ stage \in {"orphans", "network", "container", "connect", "provision", "table", "rule",
                "serve"} => "own" \notin games
  /\ PlayedBaseIsWhole

=============================================================================
