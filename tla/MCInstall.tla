----------------------------- MODULE MCInstall -----------------------------
(* Instances of Install for TLC. *)
EXTENDS Install, TLC

\* Runs differ only by their random ids.
InstallerSymmetry == Permutations(Installers)
=============================================================================
