----------------------------- MODULE MCWatchMode -----------------------------
(***************************************************************************)
(* WatchMode for TLC: a root, a directory a and its subdirectories b and c.  *)
(* The first configuration ignores c; the second one ignores b, and its     *)
(* root is in a directory of an ignored name: nobody watches c.             *)
(***************************************************************************)
EXTENDS WatchMode, TLC

CONSTANTS r, a, b, c, outside

MCParent == (a :> r) @@ (b :> a) @@ (c :> a)
MCConfigs == <<{c}, {b, outside}>>
=============================================================================
