-------------------------- MODULE MCSessionManager --------------------------
(* Model checking of SessionManager: two session objects, under two IDs or *)
(* under one (the second is then opened by a copy of the open message).    *)
EXTENDS SessionManager, TLC

CONSTANTS s1, s2, a, b

MCIdChoices == {s1 :> a @@ s2 :> b, s1 :> a @@ s2 :> a}
=============================================================================
