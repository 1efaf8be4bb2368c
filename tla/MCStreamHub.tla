---------------------------- MODULE MCStreamHub -----------------------------
(* Small instances of StreamHub for TLC.                                   *)
EXTENDS StreamHub

CONSTANTS p1, p2, c1, c2

TwoPublishers == {p1, p2}
TwoClients == {c1, c2}

=============================================================================
