--------------------------- MODULE MCReplyChannel ---------------------------
(* Instances of ReplyChannel for TLC.                                      *)
EXTENDS ReplyChannel

CONSTANTS d1, d2, comment

MCLines  == {d1, d2, comment}
MCUsable == {d1, d2}
NoLines  == {}

\* Two devices around a line that is not sent.
TwoDevices == <<d1, comment, d2>>
NoDevices  == <<>>
=============================================================================
