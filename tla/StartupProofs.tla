---------------------------- MODULE StartupProofs ----------------------------
(***************************************************************************)
(* Proofs about Boot, Provision and their composition Startup, for any     *)
(* number of subnets, losses, published versions and SteamCMD attempts:    *)
(* what a process finds and leaves behind is in order whatever the ones    *)
(* before it died of, and the receipt is trustworthy at every point where  *)
(* a process may die.                                                      *)
(***************************************************************************)
EXTENDS Startup, TLAPS

(***************************************************************************)
(* Boot.                                                                   *)
(***************************************************************************)

\* A clean host meets the invariant.
LEMMA BootInitHolds == Init => BootTypeOK /\ BootInv
  BY BootAssumption
  DEF Init, BootTypeOK, BootInv, Attached, Reachable, OrderlyExitCleansUp, NoDb,
      MainSteps, Serving

\* Every step keeps the types.
LEMMA BootTypeStep ==
  ASSUME BootTypeOK, BootInv, [Next]_bootVars
  PROVE  BootTypeOK'
<1> USE BootAssumption DEF BootTypeOK, MainSteps, Serving, NoDb, Disconnected
<1>1. CASE Launch
  BY <1>1 DEF Launch
<1>2. CASE KillOrphans
  BY <1>2 DEF KillOrphans
<1>3. CASE EnsureNetwork
  BY <1>3 DEF EnsureNetwork
<1>4. CASE StartContainer
  BY <1>4 DEF StartContainer
<1>5. CASE Connect
  BY <1>5 DEF Connect
<1>6. CASE ProvisionRun
  BY <1>6 DEF ProvisionRun
<1>7. CASE InstallTable
  BY <1>7 DEF InstallTable
<1>8. CASE InstallDockerUser
  BY <1>8 DEF InstallDockerUser
<1>9. CASE Serve
  BY <1>9 DEF Serve
<1>10. CASE Works
  BY <1>10 DEF Works
<1>11. CASE ProxyStartFails
  BY <1>11 DEF ProxyStartFails, RuleRemoved, BootInv
<1>12. CASE Fatal
  BY <1>12 DEF Fatal, Dies
<1>13. CASE Crash
  BY <1>13 DEF Crash, Dies
<1>14. CASE Reboot
  BY <1>14 DEF Reboot, Dies
<1>15. CASE Signal
  BY <1>15 DEF Signal
<1>16. CASE ManagerDone
  BY <1>16 DEF ManagerDone
<1>17. CASE StopProxy
  BY <1>17 DEF StopProxy, RuleRemoved, BootInv
<1>18. CASE CloseStore
  BY <1>18 DEF CloseStore
<1>19. CASE RemoveNetwork
  BY <1>19 DEF RemoveNetwork
<1>20. CASE Upgrade
  BY <1>20 DEF Upgrade
<1>21. CASE UNCHANGED bootVars
  BY <1>21 DEF bootVars
<1>22. QED
  BY <1>1, <1>2, <1>3, <1>4, <1>5, <1>6, <1>7, <1>8, <1>9, <1>10, <1>11, <1>12, <1>13, <1>14, <1>15, <1>16, <1>17, <1>18, <1>19, <1>20, <1>21
  DEF Next, Boots, Fail, Leave

\* Every step keeps the invariant.
LEMMA BootInvStep ==
  ASSUME BootTypeOK, BootInv, [Next]_bootVars
  PROVE  BootInv'
<1> USE BootAssumption
    DEF BootTypeOK, MainSteps, NoDb, Disconnected, BootInv, Attached, Reachable,
        OrderlyExitCleansUp, Serving
<1>1. CASE Launch
  BY <1>1 DEF Launch
<1>2. CASE KillOrphans
  BY <1>2 DEF KillOrphans
<1>3. CASE EnsureNetwork
  BY <1>3 DEF EnsureNetwork
<1>4. CASE StartContainer
  BY <1>4 DEF StartContainer
<1>5. CASE Connect
  BY <1>5 DEF Connect
<1>6. CASE ProvisionRun
  BY <1>6 DEF ProvisionRun
<1>7. CASE InstallTable
  BY <1>7 DEF InstallTable
<1>8. CASE InstallDockerUser
  BY <1>8 DEF InstallDockerUser
<1>9. CASE Serve
  BY <1>9 DEF Serve
<1>10. CASE Works
  BY <1>10 DEF Works
<1>11. CASE ProxyStartFails
  BY <1>11 DEF ProxyStartFails, RuleRemoved
<1>12. CASE Fatal
  BY <1>12 DEF Fatal, Dies
<1>13. CASE Crash
  BY <1>13 DEF Crash, Dies
<1>14. CASE Reboot
  BY <1>14 DEF Reboot, Dies
<1>15. CASE Signal
  BY <1>15 DEF Signal
<1>16. CASE ManagerDone
  BY <1>16 DEF ManagerDone
<1>17. CASE StopProxy
  BY <1>17 DEF StopProxy, RuleRemoved
<1>18. CASE CloseStore
  BY <1>18 DEF CloseStore
<1>19. CASE RemoveNetwork
  BY <1>19 DEF RemoveNetwork
<1>20. CASE Upgrade
  BY <1>20 DEF Upgrade
<1>21. CASE UNCHANGED bootVars
  BY <1>21 DEF bootVars
<1>22. QED
  BY <1>1, <1>2, <1>3, <1>4, <1>5, <1>6, <1>7, <1>8, <1>9, <1>10, <1>11, <1>12, <1>13, <1>14, <1>15, <1>16, <1>17, <1>18, <1>19, <1>20, <1>21
  DEF Next, Boots, Fail, Leave

\* The types and the inductive invariant hold in every state of every behaviour.
THEOREM BootInvariant == BootSpec => [](BootTypeOK /\ BootInv)
<1>1. Init => BootTypeOK /\ BootInv
  BY BootInitHolds
<1>2. BootTypeOK /\ BootInv /\ [Next]_bootVars => BootTypeOK' /\ BootInv'
  BY BootTypeStep, BootInvStep
<1>3. QED
  BY <1>1, <1>2, PTL DEF BootSpec

\* Whatever state of bridge, database, containers, nft table and DOCKER-USER chain the
\* processes before it left, and at whatever step they died: main waits for a signal
\* only with everything its own.
THEOREM ReadyProcessIsFresh == BootSpec => []ReadyIsFresh
<1>1. BootTypeOK /\ BootInv => ReadyIsFresh
  BY DEF BootTypeOK, BootInv, ReadyIsFresh, MainSteps, Serving
<1>2. QED
  BY <1>1, BootInvariant, PTL

\* The teardowns that main defers, in the order they run, take the table and the database
\* container off the host, and, each where its own removal succeeds, the bridge and the
\* accept rule.
THEOREM OrderlyExitIsClean == BootSpec => []OrderlyExitCleansUp
<1>1. BootInv => OrderlyExitCleansUp
  BY DEF BootInv
<1>2. QED
  BY <1>1, BootInvariant, PTL

(***************************************************************************)
(* Provision.                                                              *)
(***************************************************************************)

\* An addons/ tree is made of its four parts.
LEMMA AddonsParts ==
  ASSUME NEW a \in Addons
  PROVE  a = [there |-> a.there, mm |-> a.mm, css |-> a.css, core |-> a.core]
  BY DEF Addons

\* core.json completes a tree that lacks nothing else.
LEMMA CoreCompletes ==
  ASSUME NEW a \in Addons, a.there, ~a.core
  PROVE  [a EXCEPT !.core = TRUE] = [there |-> TRUE, mm |-> a.mm, css |-> a.css, core |-> TRUE]
<1> DEFINE b == [a EXCEPT !.core = TRUE]
<1>1. b \in Addons
  BY DEF Addons
<1>2. b.there = TRUE /\ b.mm = a.mm /\ b.css = a.css /\ b.core = TRUE
  BY DEF Addons
<1>3. b = [there |-> b.there, mm |-> b.mm, css |-> b.css, core |-> b.core]
  BY <1>1, AddonsParts
<1>4. QED
  BY <1>2, <1>3

\* What every step may change: the sets the records are drawn from.
USE DEF Version, Receipt, Bundle, Addons, NoReceipt, NoAddons, NoBundle, Steps

-----------------------------------------------------------------------------
\* A start finds nothing installed and nothing recorded.
LEMMA ProvisionInitHolds == ProvisionInit => ProvisionTypeOK /\ ProvisionInv
  BY ProvisionBounds
  DEF ProvisionInit, ProvisionTypeOK, ProvisionInv, SkippedIsComplete, Outdated,
      DoneMeansBuilt, Complete, bundle

\* Every step keeps the types; the attempt counter needs what ProvisionInv says of it.
LEMMA ProvisionTypeStep ==
  ASSUME ProvisionTypeOK, ProvisionInv, [ProvisionNext]_pvars
  PROVE  ProvisionTypeOK'
<1> USE ProvisionBounds DEF ProvisionTypeOK, base, run, bundle
<1>1. CASE Start
  BY <1>1 DEF Start
<1>2. CASE ensureImage
  BY <1>2 DEF ensureImage
<1>3. CASE GameUpToDate
  BY <1>3 DEF GameUpToDate
<1>4. CASE GameOutdated
  BY <1>4 DEF GameOutdated
<1>5. CASE steamUpdate
  BY <1>5 DEF steamUpdate, ProvisionInv
<1>6. CASE SteamComplete
  BY <1>6 DEF SteamComplete
<1>7. CASE SteamIncomplete
  BY <1>7 DEF SteamIncomplete
<1>8. CASE ModsUpToDate
  BY <1>8 DEF ModsUpToDate
<1>9. CASE ClearMods
  BY <1>9 DEF ClearMods
<1>10. CASE LayMetaMod
  BY <1>10 DEF LayMetaMod
<1>11. CASE LayCSS
  BY <1>11 DEF LayCSS
<1>12. CASE LayFails
  BY <1>12 DEF LayFails
<1>13. CASE bakeCoreJSON
  BY <1>13 DEF bakeCoreJSON
<1>14. CASE bakeHook
  BY <1>14 DEF bakeHook
<1>15. CASE saveReceipt
  BY <1>15 DEF saveReceipt
<1>16. CASE Stop
  BY <1>16 DEF Stop
<1>17. ASSUME NEW part \in {"game", "mm", "css"}, Publish(part) PROVE ProvisionTypeOK'
  BY <1>17 DEF Publish
<1>18. CASE UNCHANGED pvars
  BY <1>18 DEF pvars
<1>19. QED
  BY <1>1, <1>2, <1>3, <1>4, <1>5, <1>6, <1>7, <1>8, <1>9, <1>10, <1>11, <1>12, <1>13, <1>14, <1>15, <1>16, <1>17, <1>18 DEF ProvisionNext

\* Every step keeps the invariant.
LEMMA ProvisionInvStep ==
  ASSUME ProvisionTypeOK, ProvisionInv, [ProvisionNext]_pvars
  PROVE  ProvisionInv'
<1> USE ProvisionBounds
    DEF ProvisionTypeOK, ProvisionInv, SkippedIsComplete, Outdated, DoneMeansBuilt,
        Complete, base, run, bundle
<1>1. CASE Start
  BY <1>1 DEF Start
<1>2. CASE ensureImage
  BY <1>2 DEF ensureImage
<1>3. CASE GameUpToDate
  BY <1>3 DEF GameUpToDate
<1>4. CASE GameOutdated
  BY <1>4 DEF GameOutdated
<1>5. CASE steamUpdate
  BY <1>5 DEF steamUpdate
<1>6. CASE SteamComplete
  BY <1>6 DEF SteamComplete
<1>7. CASE SteamIncomplete
  BY <1>7 DEF SteamIncomplete
<1>8. CASE ModsUpToDate
  BY <1>8 DEF ModsUpToDate
<1>9. CASE ClearMods
  BY <1>9 DEF ClearMods
<1>10. CASE LayMetaMod
  BY <1>10 DEF LayMetaMod
<1>11. CASE LayCSS
  BY <1>11 DEF LayCSS
<1>12. CASE LayFails
  BY <1>12 DEF LayFails
<1>13. CASE bakeCoreJSON
  <2>1. want = [mm |-> want.mm, css |-> want.css]
    OBVIOUS
  <2>2. addons' = [there |-> TRUE, mm |-> want.mm, css |-> want.css, core |-> TRUE]
    <3>1. addons = [there |-> TRUE, mm |-> want.mm, css |-> want.css, core |-> FALSE]
      BY <1>13 DEF bakeCoreJSON
    <3>2. addons' = [addons EXCEPT !.core = TRUE]
      BY <1>13 DEF bakeCoreJSON
    <3>3. QED
      BY <3>1, <3>2, CoreCompletes DEF Addons
  <2>3. rec'.mm = want.mm /\ rec'.css = want.css /\ rec'.game = rec.game
    BY <1>13 DEF bakeCoreJSON
  <2>4. Complete(addons, want)' /\ (bundle(rec) = want)'
    BY <1>13, <2>1, <2>2, <2>3 DEF bakeCoreJSON
  <2>5. SkippedIsComplete'
    BY <1>13 DEF bakeCoreJSON
  <2>6. QED
    BY <1>13, <2>3, <2>4, <2>5 DEF bakeCoreJSON
<1>14. CASE bakeHook
  BY <1>14 DEF bakeHook
<1>15. CASE saveReceipt
  BY <1>15 DEF saveReceipt
<1>16. CASE Stop
  BY <1>16 DEF Stop
<1>17. ASSUME NEW part \in {"game", "mm", "css"}, Publish(part) PROVE ProvisionInv'
  BY <1>17 DEF Publish
<1>18. CASE UNCHANGED pvars
  BY <1>18 DEF pvars
<1>19. QED
  BY <1>1, <1>2, <1>3, <1>4, <1>5, <1>6, <1>7, <1>8, <1>9, <1>10, <1>11, <1>12, <1>13, <1>14, <1>15, <1>16, <1>17, <1>18 DEF ProvisionNext

\* The types and the inductive invariant hold in every state of every behaviour.
THEOREM ProvisionInvariant == ProvisionSpec => [](ProvisionTypeOK /\ ProvisionInv)
<1>1. ProvisionInit => ProvisionTypeOK /\ ProvisionInv
  BY ProvisionInitHolds
<1>2. ProvisionTypeOK /\ ProvisionInv /\ [ProvisionNext]_pvars
        => ProvisionTypeOK' /\ ProvisionInv'
  BY ProvisionTypeStep, ProvisionInvStep
<1>3. QED
  BY <1>1, <1>2, PTL DEF ProvisionSpec

\* When provision.Run returns success, base/ holds one complete game build and complete
\* mods of the versions it resolved, and the receipt says so, after any number of failed
\* or killed runs.
THEOREM ReceiptIsTrue == ProvisionSpec => []DoneMeansBuilt
<1>1. ProvisionInv => DoneMeansBuilt
  BY DEF ProvisionInv
<1>2. QED
  BY <1>1, ProvisionInvariant, PTL

\* Whenever the process may die, what the next start will skip is complete.
THEOREM SkippingIsSafe == ProvisionSpec => []SkippedIsComplete
<1>1. ProvisionInv => SkippedIsComplete
  BY DEF ProvisionInv
<1>2. QED
  BY <1>1, ProvisionInvariant, PTL
(***************************************************************************)
(* The two together.                                                       *)
(***************************************************************************)

\* Each step of the composition is a step of main and one of provision.Run, or leaves
\* one of them alone.
LEMMA StartupSteps ==
  ASSUME [StartupNext]_startupVars
  PROVE  [Next]_bootVars /\ [ProvisionNext]_pvars
<1>1. CASE Provisioning
  BY <1>1 DEF Provisioning, Provisions, ProvisionNext
<1>2. CASE Provisioned
  BY <1>2 DEF Provisioned, Next, Boots
<1>3. CASE MainStep
  BY <1>3 DEF MainStep, Next, Boots, Leave
<1>e. Ended => [ProvisionNext]_pvars
  BY DEF Ended, ProvisionNext
<1>4. CASE LastStep
  BY <1>4, <1>e DEF LastStep, Next, Leave
<1>5. CASE Dying
  BY <1>5, <1>e DEF Dying, ProvisionFails, Next, Fail, ProvisionNext
<1>6. CASE (Works \/ Signal \/ Upgrade) /\ UNCHANGED pvars
  BY <1>6 DEF Next
<1>7. CASE (\E part \in {"game", "mm", "css"} : Publish(part)) /\ UNCHANGED bootVars
  BY <1>7 DEF ProvisionNext
<1>8. CASE UNCHANGED startupVars
  BY <1>8 DEF startupVars
<1>9. QED
  BY <1>1, <1>2, <1>3, <1>4, <1>5, <1>6, <1>7, <1>8 DEF StartupNext

\* main() with provisioning taken apart implements main() with provisioning as a step,
\* and provision.Run with its crashes: what is proved of each alone holds of both.
THEOREM StartupImplementsParts == StartupSpec => BootSpec /\ ProvisionSpec
<1>1. StartupInit => Init /\ ProvisionInit
  BY DEF StartupInit
<1>2. [StartupNext]_startupVars => [Next]_bootVars /\ [ProvisionNext]_pvars
  BY StartupSteps
<1>3. QED
  BY <1>1, <1>2, PTL DEF StartupSpec, BootSpec, ProvisionSpec

\* base/ as long as provision.Run does not work on it.
LEMMA BaseUntouched ==
  ASSUME UNCHANGED pvars \/ Stop
  PROVE  Whole' = Whole
  BY DEF pvars, Stop, base, Whole, Complete, bundle

\* Every step keeps PlayInv: until main serves there is no container to play on what
\* provisioning does, and from then on it is done.
LEMMA PlayInvStep ==
  ASSUME BootTypeOK, BootInv, ProvisionTypeOK, ProvisionInv, ProvisionInv', PlayInv,
         [StartupNext]_startupVars
  PROVE  PlayInv'
<1>w. pc = "done" => Whole
  BY DEF ProvisionInv, DoneMeansBuilt, Whole, Complete
<1>q. stage \in {"network", "container", "connect", "provision", "table", "rule", "serve"}
        /\ listed => games = {}
  BY DEF BootInv, BootTypeOK, PlayInv, MainSteps
<1> USE DEF PlayInv, PlayedBaseIsWhole, Serving
<1>1. CASE Provisioning
  BY <1>1, <1>q DEF Provisioning, bootVars
<1>2. CASE Provisioned
  BY <1>2, <1>q DEF Provisioned, ProvisionRun, pvars
<1>3. CASE MainStep
  <2>1. Whole' = Whole /\ pc' = pc
    BY <1>3, BaseUntouched DEF MainStep, pvars
  <2>2. CASE Launch
    BY <2>1, <2>2 DEF Launch, BootTypeOK
  <2>3. CASE KillOrphans
    BY <2>1, <2>3 DEF KillOrphans
  <2>4. CASE EnsureNetwork \/ StartContainer \/ Connect \/ InstallTable
             \/ InstallDockerUser \/ Serve
    BY <2>1, <2>4 DEF EnsureNetwork, StartContainer, Connect, InstallTable,
                      InstallDockerUser, Serve
  <2>5. CASE ManagerDone \/ StopProxy \/ CloseStore
    BY <1>w, <2>1, <2>5 DEF ManagerDone, StopProxy, CloseStore
  <2>6. QED
    BY <1>3, <2>2, <2>3, <2>4, <2>5 DEF MainStep
<1>e. ASSUME Ended, stage' = "off", UNCHANGED <<games, listed>>
      PROVE  PlayInv'
  <2>1. Whole' = Whole /\ pc' = "down"
    BY <1>e, BaseUntouched DEF Ended, Stop, pvars
  <2>2. QED
    BY <1>e, <2>1
<1>4. CASE LastStep
  BY <1>4, <1>e DEF LastStep, RemoveNetwork
<1>5. CASE (ProxyStartFails \/ Crash \/ Reboot \/ Fatal) /\ Ended
  BY <1>5, <1>e DEF ProxyStartFails, Crash, Reboot, Fatal, Dies
<1>6. CASE stage = "provision" /\ Fatal /\ (LayFails \/ (SteamIncomplete /\ pc' = "down"))
  BY <1>6, <1>q DEF Fatal, Dies, LayFails
<1>7. CASE (Works \/ Signal \/ Upgrade) /\ UNCHANGED pvars
  <2>1. Whole' = Whole /\ pc' = pc
    BY <1>7, BaseUntouched DEF pvars
  <2>2. QED
    BY <1>7, <1>w, <2>1 DEF Works, Signal, Upgrade
<1>8. CASE (\E part \in {"game", "mm", "css"} : Publish(part)) /\ UNCHANGED bootVars
  BY <1>8 DEF Publish, bootVars, base, Whole, Complete, bundle
<1>9. CASE UNCHANGED startupVars
  BY <1>9, BaseUntouched DEF startupVars, bootVars, pvars
<1>10. QED
  BY <1>1, <1>2, <1>3, <1>4, <1>5, <1>6, <1>7, <1>8, <1>9
  DEF StartupNext, Dying, ProvisionFails

\* A game container plays on a complete base/, across crashes of the orchestrator at any
\* step of booting, provisioning and serving.
THEOREM ContainersPlayWholeBase == StartupSpec => []PlayedBaseIsWhole
<1>1. StartupInit => PlayInv
  BY DEF StartupInit, Init, ProvisionInit, PlayInv, PlayedBaseIsWhole, Serving
<1>2. BootTypeOK /\ BootInv /\ ProvisionTypeOK /\ ProvisionInv /\ ProvisionInv' /\ PlayInv
        /\ [StartupNext]_startupVars => PlayInv'
  BY PlayInvStep
<1>3. PlayInv => PlayedBaseIsWhole
  BY DEF PlayInv
<1>4. QED
  BY <1>1, <1>2, <1>3, StartupImplementsParts, BootInvariant, ProvisionInvariant, PTL
  DEF StartupSpec
=============================================================================
