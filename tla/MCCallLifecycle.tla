--------------------------- MODULE MCCallLifecycle ---------------------------
(* Instances of CallLifecycle for TLC: two people, one of them with a second *)
(* connection (a reconnect, or a second tab).                                *)
EXTENDS CallLifecycle

CONSTANTS ann, bob, a1, a2, b1, dm, hall, attic, v1, v2

TwoUsers   == {ann, bob}
ThreeSocks == {a1, a2, b1}
AnnSocks   == {a1, a2}
OwnerOf    == [s \in Sock |-> IF s = b1 THEN bob ELSE ann]
=============================================================================
