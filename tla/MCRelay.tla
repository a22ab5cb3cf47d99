------------------------------ MODULE MCRelay ------------------------------
(***************************************************************************)
(* Two clients: c1 moves between two rooms, c2 only takes the first one    *)
(* and is behind a NAT that gives it two ports in turn.                    *)
(***************************************************************************)
EXTENDS Relay

CONSTANTS c1, c2, r1, r2

MCClients == {c1, c2}
MCPeerOf == [c \in MCClients |-> c]
MCRooms == {r1, r2}
MCVisits == [c \in MCClients |-> IF c = c1 THEN {r1, r2} ELSE {r1}]
MCMappings == [c \in MCClients |-> IF c = c2 THEN {1, 2} ELSE {1}]
=============================================================================
