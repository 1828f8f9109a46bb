------------------------------ MODULE MCMetrics ------------------------------
(***************************************************************************)
(* Three recording calls, two of which meet at one counter, and one scrape *)
(* or two.                                                                 *)
(***************************************************************************)
EXTENDS Metrics

CONSTANTS c1, c2, v1, s1, s2

MCCall   == {c1, c2, v1}
MCRender == {s1, s2}

MCKeysOf(c) ==
    IF c = v1 THEN <<"false">> ELSE <<"redirect", "sum", "count">>
===============================================================================
