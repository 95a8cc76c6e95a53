--------------------------- MODULE MCAuthSessions ---------------------------
(* AuthSessions on small instances for TLC. *)
EXTENDS AuthSessions, TLC

CONSTANTS r1, r2, u1, u2, s1, s2, s3

MCSymmetry == Permutations(Reqs) \cup Permutations(SessionIds)
                 \cup Permutations(UserIds)

\* Two spellings of the administrator's name, and a second account.
MCEmails == {"a@x", "b@x"}
MCUsernames == {"Root", "root", "bob"}
MCLower == [x \in MCEmails \cup MCUsernames |->
              IF x = "Root" THEN "root" ELSE x]
=============================================================================
