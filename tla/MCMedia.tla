------------------------------- MODULE MCMedia -------------------------------
(* Media on small instances: bytes 0 and 1 make start codes, 9 is any other. *)
EXTENDS Media

\* NAL units without a start code: empty, a one, and with zeros at the end.
SmallNals == {<<>>, <<1>>, <<9, 0, 0>>}

SomeFps == {None, Some(25), Some(30)}
=============================================================================
