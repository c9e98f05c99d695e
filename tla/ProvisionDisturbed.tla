------------------------- MODULE ProvisionDisturbed --------------------------
(***************************************************************************)
(* Provisioning where addons/ may be deleted between two starts, the case  *)
(* reconcileMods' stat of addons/ is there for (provision/mods.go:41), or  *)
(* where upstream may withdraw a release of the mods.                      *)
(***************************************************************************)
EXTENDS Provision

\* Somebody deletes addons/ between two starts.
RemoveAddons ==
  /\ pc = "down"
  /\ addons' = NoAddons
  /\ UNCHANGED <<up, files, manifest, receipt, pc, run>>

DisturbedNext == ProvisionNext \/ RemoveAddons

DisturbedSpec == ProvisionInit /\ [][DisturbedNext]_pvars

\* The latest release is withdrawn: the one before it is the latest again.
Withdraw(part) ==
  /\ up[part] > 1
  /\ up' = [up EXCEPT ![part] = @ - 1]
  /\ UNCHANGED <<base, receipt, pc, run>>

WithdrawSpec ==
  ProvisionInit /\ [][ProvisionNext \/ \E part \in {"mm", "css"} : Withdraw(part)]_pvars
=============================================================================
