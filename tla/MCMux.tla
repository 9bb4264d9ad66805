------------------------------- MODULE MCMux -------------------------------
(* Instances of Mux for TLC.                                               *)
EXTENDS MuxInvariant

\* Both sides open a channel, the server sends enough for its numbers to wrap.
OneEach == [s \in Side |-> 1]
Accept == {1}
RefuseOrAccept == {-1, 0}
ServerSends == [s \in Side |-> IF s = 0 THEN 5 ELSE 1]
=============================================================================
