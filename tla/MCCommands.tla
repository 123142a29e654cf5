----------------------------- MODULE MCCommands -----------------------------
(***************************************************************************)
(* Model-checking instance of Commands, and with it of SealedVault.        *)
(***************************************************************************)
EXTENDS Commands

\* Each call stores a secret of its own, as equal ones could only hide an exchange;
\* the first item's is empty.  The first call creates the vault.
MCSecrets == <<{"none"}, {""}, {"second"}, {"third"}, {"after the bound"}>>
MCPasswords == {"password"}
MCPassphrases == {"long pass phrase", "short"}
MCLongPhrases == {"long pass phrase"}
=============================================================================
