-------------------------------- MODULE Kcd ---------------------------------
(***************************************************************************)
(* The data of the KCD task, app/kcd_task.c, and what its loop does with   *)
(* one message: it keeps which task has registered which command, collects *)
(* characters into a line, and at the end of the line makes a message of   *)
(* it.  The calls it makes are in the module that runs it.                 *)
(***************************************************************************)
EXTENDS Integers, Sequences

CONSTANTS
  INPUT_SIZE,       \* size of input_buf, 64 in the code
  Char,
  Alphanumeric      \* is_alphanumeric holds

CR      == "cr"     \* 13
PERCENT == "%"
NUL     == "nul"

ASSUME KcdAssumption ==
  /\ INPUT_SIZE \in Nat /\ INPUT_SIZE >= 2
  /\ {CR, PERCENT, NUL} \subseteq Char
  /\ Alphanumeric \subseteq Char \ {CR, PERCENT, NUL}

HDR == 8            \* sizeof(RTX_MSG_HDR)

(* cmd_ids, input_buf and tail; both arrays start out zeroed. *)
NoCommand == 0
KcdInit ==
  [cmd_ids   |-> [c \in Char |-> NoCommand],
   input_buf |-> [i \in 0..(INPUT_SIZE - 1) |-> NUL],
   tail      |-> 0]

(* Faulty variants: a command stays with who registered it first; the text  *)
(* of a command keeps the leading character, or has one more than the line; *)
(* the next line goes on where this one ends.                               *)
Register_once(k, m, sender) ==
  IF m.length # HDR + 1 \/ k.cmd_ids[m.data[1]] # NoCommand THEN k
  ELSE [k EXCEPT !.cmd_ids[m.data[1]] = sender]
Text_with_percent(k) == [i \in 1..(k.tail - 1) |-> k.input_buf[i - 1]]
Text_one_more(k) ==
  [i \in 1..(IF k.tail < INPUT_SIZE THEN k.tail ELSE INPUT_SIZE - 1) |-> k.input_buf[i]]
NextLine_not(k) == k

(* KCD_REG: the sender gets the command. *)
Register(k, m, sender) ==
  IF m.length # HDR + 1 THEN k ELSE [k EXCEPT !.cmd_ids[m.data[1]] = sender]

(* A character that does not end the line; too long a line is only counted. *)
Store(k, c) ==
  [k EXCEPT !.tail = @ + 1,
            !.input_buf = IF k.tail < INPUT_SIZE THEN [@ EXCEPT ![k.tail] = c] ELSE @]

(* The end of the line.  input_buf keeps what an earlier line has left in it. *)
Invalid(k) == k.tail > INPUT_SIZE \/ k.input_buf[0] # PERCENT

Receiver(k) == k.cmd_ids[k.input_buf[1]]

Unknown(k) == k.input_buf[1] \notin Alphanumeric \/ Receiver(k) = NoCommand

(* The line without its first character. *)
Limit(k) == IF k.tail >= INPUT_SIZE THEN INPUT_SIZE ELSE k.tail

Text(k) == [i \in 1..(Limit(k) - 1) |-> k.input_buf[i]]

Command(k) == [length |-> HDR + Limit(k) - 1, type |-> "KEY_IN", data |-> Text(k)]

NextLine(k) == [k EXCEPT !.tail = 0]

=============================================================================
