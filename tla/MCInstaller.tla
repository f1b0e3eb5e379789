----------------------------- MODULE MCInstaller -----------------------------
(***************************************************************************)
(* Instances of Installer for TLC.                                         *)
(***************************************************************************)
EXTENDS Installer, TLC

CONSTANTS p443, p9000

MCPort == {p443, p9000}
=============================================================================
