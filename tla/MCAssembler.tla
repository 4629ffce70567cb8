---------------------------- MODULE MCAssembler ----------------------------
EXTENDS Assembler

(* Messages of all the parts, of a single part, and one that is too long.  *)
Long == [id |-> 1, key |-> "a:1", total |-> MaxParts]
Single == [id |-> 2, key |-> "b:1", total |-> 1]
TooLong == [id |-> 3, key |-> "b:2", total |-> MaxParts + 1]
(* The sender of Long uses its reference again, for a message of the same  *)
(* length and for a shorter one.                                           *)
Again == [id |-> 4, key |-> "a:1", total |-> MaxParts]
Shorter == [id |-> 5, key |-> "a:1", total |-> MaxParts - 1]

MCMsgs == {Long, Single, TooLong, Again, Shorter}
Separate == {[msgs |-> {Long}, deliveries |-> 4],
             [msgs |-> {Single, TooLong}, deliveries |-> 2],
             [msgs |-> {Long, Again}, deliveries |-> 3]}
Mixed == {[msgs |-> {Long, Shorter}, deliveries |-> 3]}
=============================================================================
