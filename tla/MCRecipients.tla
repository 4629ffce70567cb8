---------------------------- MODULE MCRecipients ----------------------------
(* An instance of Recipients: one number in its national and its           *)
(* international form, one that is too short, and one in the whitelist.    *)
EXTENDS Recipients

National == [digits |-> TRUE, plus |-> FALSE, lead |-> 8, rest |-> "a", len |-> 11]
International == [digits |-> TRUE, plus |-> TRUE, lead |-> 7, rest |-> "a", len |-> 11]
Short == [digits |-> TRUE, plus |-> FALSE, lead |-> 8, rest |-> "b", len |-> 3]
Other == [digits |-> TRUE, plus |-> TRUE, lead |-> 4, rest |-> "b", len |-> 12]

MCRaws == {National, International, Short}
MCLists == {<<>>, <<National, International>>, <<International, Short>>}
MCWhitelist == <<Short, Other>>
=============================================================================
