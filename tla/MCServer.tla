------------------------------ MODULE MCServer ------------------------------
(* Instances of Server for TLC.  Clients being interchangeable, it is enough *)
(* to say how many make each request.                                        *)
EXTENDS Server, TLC

CONSTANTS c1, c2, c3

Share(r1, r2, r3) == c1 :> r1 @@ c2 :> r2 @@ c3 :> r3

MCAsks == {Share("page", "stop", "silent")}
=============================================================================
