------------------------------ MODULE MCFriends -------------------------------
(***************************************************************************)
(* Two users who may look each other up, and themselves.                   *)
(***************************************************************************)
EXTENDS Friends

CONSTANTS ann, ben

MCUsers == {ann, ben}
MCMaxSearches == [u \in MCUsers |-> 1]
==============================================================================
