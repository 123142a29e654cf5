---------------------------- MODULE MCVaultStore ----------------------------
(***************************************************************************)
(* Model-checking instances of VaultStore.                                 *)
(***************************************************************************)
EXTENDS VaultStore

CONSTANTS p1, p2    \* model values for Procs

\* Every system call, and every one but the parent directory's fsync, may fail.
AllFaults == Syscalls
AllButDirSync == Syscalls \ {"dirsync"}
OnlyDirSync == {"dirsync"}
NoFaults == {}

BothCrashes == {"kill", "power"}
KillOnly == {"kill"}
NoCrashes == {}
=============================================================================
