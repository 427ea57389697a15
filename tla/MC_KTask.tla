------------------------------ MODULE MC_KTask ------------------------------
(* Instances of KTask for TLC. *)
EXTENDS KTask

BootInfo(entry, p, priv) == [entry |-> entry, prio |-> p, priv |-> priv]

(* Boot tables in the shape of ae.c: TEST 3 has a user task and the KCD task, *)
(* TEST 0 a privileged and a user task on one level, TEST 1 a single user task.  *)
BootUserAndKcd == << BootInfo("user", 2, FALSE), BootInfo("kcd_task", 1, FALSE) >>
BootEquals     == << BootInfo("user", 1, TRUE), BootInfo("kcd_task", 1, FALSE) >>
BootSingle     == << BootInfo("user", 2, FALSE) >>

=============================================================================
