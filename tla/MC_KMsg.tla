------------------------------ MODULE MC_KMsg ------------------------------
(* An instance of KMsg for TLC: a user task and the KCD task, on two levels, *)
(* either of which can exit and be created again by the other.               *)
EXTENDS KMsg

BootUserAndKcd ==
  << [entry |-> "user", prio |-> 2, priv |-> FALSE],
     [entry |-> "kcd_task", prio |-> 1, priv |-> FALSE] >>

=============================================================================
