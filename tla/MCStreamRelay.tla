--------------------------- MODULE MCStreamRelay ---------------------------
(* TLC instances of StreamRelay: a session without and one with audio.        *)
EXTENDS StreamRelay

TwoChannels == <<"video", "control">>
ThreeChannels == <<"video", "audio", "control">>
=============================================================================
