-------------------------------- MODULE MCChat --------------------------------
(***************************************************************************)
(* Two users.  The first writes two messages, so that they can overtake    *)
(* each other; both fetch one page of history in whatever session.         *)
(***************************************************************************)
EXTENDS Chat

CONSTANTS alice, bob, u1, u2

MCClients == {alice, bob}
MCUserOf == [c \in MCClients |-> IF c = alice THEN u1 ELSE u2]
MCMaxSends == [c \in MCClients |-> IF c = alice THEN 2 ELSE 0]
MCMaxFetches == [c \in MCClients |-> 1]
==============================================================================
