----------------------------- MODULE MCSSHCommand -----------------------------
(* Instances of SSHCommand for TLC.                                            *)
EXTENDS SSHCommand

\* The user's own password opens sudo, root's opens su; the third is a slip.
MCPasswords == {"own", "root", "slip"}
MCOpens == [tool \in Tools |-> IF tool = "sudo" THEN {"own"} ELSE {"root"}]

MCMaybe == BOOLEAN
=============================================================================
