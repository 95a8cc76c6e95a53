----------------------------- MODULE MCPlayback -----------------------------
(* Playback on a small instance for TLC: a master playlist, the playlist of a
   quality and a segment. *)
EXTENDS Playback

CONSTANTS u1, u2

MCUrls == {"master", "variant", "segment"}
MCChildren == [x \in MCUrls |-> CASE x = "master" -> {"variant"}
                                  [] x = "variant" -> {"segment"}
                                  [] OTHER -> {}]
=============================================================================
