------------------------------ MODULE MC_Test2 ------------------------------
(* An instance of Test2 for TLC: the boot table of ae.c, the lines of the   *)
(* test, and lines that are no command of it, with an input_buf of 6.       *)
EXTENDS Test2

Boot2 == << [entry |-> "user", prio |-> 2, priv |-> FALSE],
            [entry |-> "user", prio |-> 3, priv |-> FALSE],
            [entry |-> "kcd_task", prio |-> 1, priv |-> FALSE],
            [entry |-> "user", prio |-> 4, priv |-> FALSE] >>

Script2 == << Line(TheC), Line(TheC), Line(TheC), Line(TheD), Line(TheC), Line(TheD) >>

(* No %, no such command, no letter, as long as input_buf, longer than it. *)
Junk2 == {<< "A", CR >>, Line(<< "A" >>), Line(<< "%" >>),
          Line(TheC \o << "A" >>), Line(TheC \o << "A", "A" >>)}

Chars2   == {CR, PERCENT, NUL, "c", "d", "G", "T", "A"}
Lengths2 == 1..(HdrSize + INPUT_SIZE)

=============================================================================
