---------------------------- MODULE MCProcessTree ----------------------------
(* Instances of Whitelisting for TLC.  The comms are those of a few programs, *)
(* and those that start an operation are found as the agent finds them.       *)
(* "^" continues a character.                                                 *)
EXTENDS Whitelisting

SomeNames ==
    {<<"n", "p">>, <<"n", "p", "m">>, <<"n", "p", "m", "x">>,
     <<"s", "h", "e", "l", "l">>, <<"s", "h", "e", "^">>}

\* Patterns that fit, of just COMM_LEN bytes, longer, and with a character that
\* begins at COMM_LEN - 1.
Fitting == <<"n", "p">>
Filling == <<"n", "p", "m">>
Long == <<"s", "h", "e", "l", "l">>
Split == <<"s", "h", "e", "^">>

TheComms == {Comm(n) : n \in SomeNames}
TheWhitelist == {Fitting}

SomeConfigs == {<<Fitting, Filling, Long>>, <<Fitting, Split>>}
OneIsLong == {<<Fitting, Long>>}
=============================================================================
