--------------------------- MODULE MCIngressGuard ---------------------------
(* IngressGuard with one add-on that comes and goes; two requests, one user and *)
(* one session, or one request, two users and three sessions with room for two. *)
EXTENDS IngressGuard, TLC

CONSTANTS terminal, s1, s2, s3, alice, bob, q1, q2

MCOneAddon == {terminal}
MCThreeSessions == {s1, s2, s3}
MCOneSession == {s1}
MCUsers == {alice, bob}
MCOneUser == {alice}
MCRequests == {q1, q2}
MCOneRequest == {q1}

\* Users are told apart by nothing but their names.
Symmetric == Permutations(MCUsers)
=============================================================================
