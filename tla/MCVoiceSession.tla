---------------------------- MODULE MCVoiceSession ----------------------------
(***************************************************************************)
(* Three client processes of three users.                                  *)
(***************************************************************************)
EXTENDS VoiceSession

CONSTANTS s1, s2, s3, u1, u2, u3, r1, r2

MCSockets == {s1, s2, s3}
MCRooms == {r1, r2}
MCMembers == [u \in {u1, u2, u3} |-> IF u = u1 THEN {r2} ELSE {}]
MCWithGui == {s1, s2}
MCUsers == {u1, u2, u3}
MCUserOf == [s \in MCSockets |-> CASE s = s1 -> u1 [] s = s2 -> u2 [] s = s3 -> u3]
==============================================================================
