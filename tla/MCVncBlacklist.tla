--------------------------- MODULE MCVncBlacklist ---------------------------
(* Model-checking instance of VncBlacklist: two machines, one of whose     *)
(* names is the beginning of the other's.                                  *)
EXTENDS VncBlacklist

MCHost == {<<"a">>, <<"a", ".", "b">>}

MCAuthHosts ==
  { <<>>,
    <<"+", "a", ":", "-", "a", ".", "b">>,
    <<"-", ":", "a", ":", "?", "a", ".", "b", ":", "+", "b">> }
=============================================================================
