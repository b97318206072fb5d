----------------------------- MODULE MCRunCommand -----------------------------
(* Instances of RunCommand for TLC.                                            *)
EXTENDS RunCommand

\* The user's own password opens sudo and root's opens su; the third is a slip.
MCPasswords == {"own", "root", "slip"}
MCOpens == [tool \in Tools |-> IF tool = "sudo" THEN {"own"} ELSE {"root"}]

MCBoth == {"SUDO", "SU"}

MCNo == {FALSE}
MCMaybe == BOOLEAN
=============================================================================
