----------------------------- MODULE Provision ------------------------------
(***************************************************************************)
(* The start-up provisioning of the shared base/ install (orchestration/   *)
(* provision): the game by SteamCMD, the mods MetaMod and                  *)
(* CounterStrikeSharp, and the receipt that lets a later start skip what   *)
(* is up to date.  The receipt is written once, at the very end; a failed  *)
(* step or a crash leaves base/ as it is, and the next start has to find   *)
(* out from receipt and files what to do again.                            *)
(*                                                                         *)
(* Upstream's versions are assumed only to grow.  reconcileMods compares   *)
(* them for equality, so that this matters: see ProvisionDisturbed for a   *)
(* release that is withdrawn.                                              *)
(***************************************************************************)
EXTENDS Naturals

CONSTANTS
  MaxVersion,        \* bound on the versions upstream publishes
  maxSteamAttempts

ASSUME ProvisionBounds == MaxVersion \in Nat \ {0} /\ maxSteamAttempts \in Nat \ {0}

VARIABLES
  up,       \* the latest [game, mm, css], as the cached lookups answer
  files,    \* the build the game files are of, 0 if mixed or absent
  manifest, \* the build of a fully installed appmanifest, 0 without one
  addons,   \* the addons/ tree: [there, mm, css, core]; version 0 is not complete
  receipt,  \* base/.csfleet-versions.json: [game, mm, css]
  pc,       \* the step provision.Run is at; "down" when the process is not running
  rec,      \* the receipt in memory
  want,     \* modSources: the mod versions resolved in this run
  attempt   \* SteamCMD passes in this run

pvars == <<up, files, manifest, addons, receipt, pc, rec, want, attempt>>
run == <<rec, want, attempt>>
base == <<files, manifest, addons>>

Version == 0 .. MaxVersion
Receipt == [game : Version, mm : Version, css : Version]
Bundle == [mm : Version, css : Version]
Addons == [there : BOOLEAN, mm : Version, css : Version, core : BOOLEAN]
NoReceipt == [game |-> 0, mm |-> 0, css |-> 0]
NoAddons == [there |-> FALSE, mm |-> 0, css |-> 0, core |-> FALSE]
NoBundle == [mm |-> 0, css |-> 0]

Steps == {"down", "image", "game", "steam", "check", "mods", "metamod", "css", "core",
          "hook", "save", "done"}

ProvisionTypeOK ==
  /\ up \in [game : Version \ {0}, mm : Version \ {0}, css : Version \ {0}]
  /\ files \in Version /\ manifest \in Version
  /\ addons \in Addons
  /\ receipt \in Receipt /\ rec \in Receipt
  /\ pc \in Steps
  /\ want \in Bundle
  /\ attempt \in 0 .. maxSteamAttempts

ProvisionInit ==
  /\ up = [game |-> 1, mm |-> 1, css |-> 1]
  /\ files = 0 /\ manifest = 0
  /\ addons = NoAddons
  /\ receipt = NoReceipt /\ rec = NoReceipt
  /\ pc = "down"
  /\ want = NoBundle
  /\ attempt = 0

bundle(r) == [mm |-> r.mm, css |-> r.css]
Complete(a, b) == a = [there |-> TRUE, mm |-> b.mm, css |-> b.css, core |-> TRUE]

-----------------------------------------------------------------------------
\* Run begins: loadReceipt.
Start ==
  /\ pc = "down"
  /\ rec' = receipt
  /\ pc' = "image"
  /\ want' = NoBundle /\ attempt' = 0
  /\ UNCHANGED <<up, base, receipt>>

ensureImage ==
  /\ pc = "image"
  /\ pc' = "game"
  /\ UNCHANGED <<up, base, receipt, run>>

\* ensureGame: receipt, files and the build looked up, which may be stale, agree.
GameUpToDate ==
  /\ pc = "game"
  /\ \E latest \in 1 .. up.game : manifest = latest /\ rec.game = latest
  /\ pc' = "mods"
  /\ UNCHANGED <<up, base, receipt, run>>

\* Anything else, a build id that cannot be looked up included, runs SteamCMD.
GameOutdated ==
  /\ pc = "game"
  /\ pc' = "steam"
  /\ UNCHANGED <<up, base, receipt, run>>

\* Mutant: the appmanifest stays in place while SteamCMD works.
steamUpdateKeepsManifest ==
  /\ pc = "steam"
  /\ attempt' = attempt + 1
  /\ files' = 0
  /\ pc' = "check"
  /\ UNCHANGED <<up, manifest, addons, receipt, rec, want>>

\* steamUpdate: the appmanifest is dropped before SteamCMD touches the files.
steamUpdate ==
  /\ pc = "steam"
  /\ attempt' = attempt + 1
  /\ manifest' = 0 /\ files' = 0
  /\ pc' = "check"
  /\ UNCHANGED <<up, addons, receipt, rec, want>>

\* SteamCMD got to the end: currentBuildID finds a full install.
SteamComplete ==
  /\ pc = "check"
  /\ manifest' = up.game /\ files' = up.game
  /\ rec' = [rec EXCEPT !.game = up.game]
  /\ pc' = "mods"
  /\ UNCHANGED <<up, addons, receipt, want, attempt>>

\* SteamCMD was interrupted (state 0x6): again, or give up.
SteamIncomplete ==
  /\ pc = "check"
  /\ pc' = IF attempt < maxSteamAttempts THEN "steam" ELSE "down"
  /\ UNCHANGED <<up, base, receipt, run>>

\* reconcileMods: resolveMods, and addons/ is there with the receipt's versions.
ModsUpToDate ==
  /\ pc = "mods"
  /\ want' = bundle(up)
  /\ addons.there /\ bundle(rec) = bundle(up)
  /\ pc' = "hook"
  /\ UNCHANGED <<up, base, receipt, rec, attempt>>

\* buildBundle clears addons/ ...
ClearMods ==
  /\ pc = "mods"
  /\ want' = bundle(up)
  /\ ~(addons.there /\ bundle(rec) = bundle(up))
  /\ addons' = NoAddons
  /\ pc' = "metamod"
  /\ UNCHANGED <<up, files, manifest, receipt, rec, attempt>>

\* Mutant: the receipt records the mods before they are laid.
LayMetaModRecords ==
  /\ pc = "metamod"
  /\ receipt' = [receipt EXCEPT !.mm = want.mm, !.css = want.css]
  /\ addons' = [addons EXCEPT !.there = TRUE, !.mm = want.mm]
  /\ pc' = "css"
  /\ UNCHANGED <<up, files, manifest, run>>

\* ... and lays MetaMod, CounterStrikeSharp and core.json, from version-stamped urls.
LayMetaMod ==
  /\ pc = "metamod"
  /\ addons' = [addons EXCEPT !.there = TRUE, !.mm = want.mm]
  /\ pc' = "css"
  /\ UNCHANGED <<up, files, manifest, receipt, run>>

LayCSS ==
  /\ pc = "css"
  /\ addons' = [addons EXCEPT !.css = want.css]
  /\ pc' = "core"
  /\ UNCHANGED <<up, files, manifest, receipt, run>>

\* An extraction breaks off with some of its files written.
LayFails ==
  /\ pc \in {"metamod", "css"}
  /\ addons' = [addons EXCEPT !.there = TRUE]
  /\ pc' = "down"
  /\ UNCHANGED <<up, files, manifest, receipt, run>>

bakeCoreJSON ==
  /\ pc = "core"
  /\ addons' = [addons EXCEPT !.core = TRUE]
  /\ rec' = [rec EXCEPT !.mm = want.mm, !.css = want.css]
  /\ pc' = "hook"
  /\ UNCHANGED <<up, files, manifest, receipt, want, attempt>>

bakeHook ==
  /\ pc = "hook"
  /\ pc' = "save"
  /\ UNCHANGED <<up, base, receipt, run>>

saveReceipt ==
  /\ pc = "save"
  /\ receipt' = rec
  /\ pc' = "done"
  /\ UNCHANGED <<up, base, run>>

\* An error of any step ends the process (log.Fatalf), as does a crash or, when
\* provisioning is done, a shutdown.
Stop ==
  /\ pc # "down"
  /\ pc' = "down"
  /\ UNCHANGED <<up, base, receipt, run>>

\* Upstream moves, also in the middle of a run, and never back.
Publish(part) ==
  /\ up[part] < MaxVersion
  /\ up' = [up EXCEPT ![part] = @ + 1]
  /\ UNCHANGED <<base, receipt, pc, run>>

ProvisionNext ==
  \/ Start \/ ensureImage
  \/ GameUpToDate \/ GameOutdated \/ steamUpdate \/ SteamComplete \/ SteamIncomplete
  \/ ModsUpToDate \/ ClearMods \/ LayMetaMod \/ LayCSS \/ LayFails \/ bakeCoreJSON
  \/ bakeHook \/ saveReceipt \/ Stop
  \/ \E part \in {"game", "mm", "css"} : Publish(part)

ProvisionSpec == ProvisionInit /\ [][ProvisionNext]_pvars

-----------------------------------------------------------------------------
\* When provisioning is complete, base/ holds a fully installed game of one build and
\* complete mods of the versions resolved in this run, and the receipt says so, after
\* any number of failed, crashed or skipped steps, as long as upstream withdraws nothing.
DoneMeansBuilt ==
  pc = "done" =>
    /\ manifest # 0 /\ files = manifest /\ receipt.game = manifest
    /\ Complete(addons, want)
    /\ bundle(receipt) = want

\* Upstream has moved on from the receipt.
Outdated == receipt.mm < up.mm \/ receipt.css < up.css

\* Why a start may trust what it skips: whenever the process may die, addons/ is
\* complete and the receipt's, or upstream has moved on, so that the next start will lay
\* it again unless upstream moves back; and a full appmanifest means that the game files
\* are all of its build.
SkippedIsComplete ==
  /\ Complete(addons, bundle(receipt)) \/ Outdated
  /\ manifest # 0 => files = manifest

\* The inductive invariant behind DoneMeansBuilt (proved in StartupProofs): what each
\* step knows of the receipt in memory, the tree it is laying and the game.
ProvisionInv ==
  /\ SkippedIsComplete
  /\ receipt.mm <= up.mm /\ receipt.css <= up.css
  /\ want.mm <= up.mm /\ want.css <= up.css
  /\ pc \in {"image", "game"} => attempt = 0
  /\ pc = "steam" => attempt < maxSteamAttempts
  /\ pc \in {"image", "game", "steam", "check", "mods", "metamod", "css", "core"} =>
       bundle(rec) = bundle(receipt)
  /\ pc \in {"metamod", "css", "core"} => Outdated
  /\ pc = "metamod" => addons = NoAddons
  /\ pc = "css" => addons = [NoAddons EXCEPT !.there = TRUE, !.mm = want.mm]
  /\ pc = "core" => addons = [there |-> TRUE, mm |-> want.mm, css |-> want.css, core |-> FALSE]
  /\ pc \in {"hook", "save"} => Complete(addons, want) /\ bundle(rec) = want
  /\ pc \in {"mods", "metamod", "css", "core", "hook", "save"} =>
       manifest # 0 /\ rec.game = manifest
  /\ DoneMeansBuilt

=============================================================================
