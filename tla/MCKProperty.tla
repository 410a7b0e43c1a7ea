---------------------------- MODULE MCKProperty -----------------------------
(***************************************************************************)
(* Two cache entries; a set also goes to the store directly, when it gets  *)
(* no memory.  One of the values is too big for the store.                 *)
(***************************************************************************)
EXTENDS KProperty

CONSTANTS volume, micGain, micGainBoost

MCNames == {volume, micGain, micGainBoost}
TwoNames == {micGain, micGainBoost}

\* Of the keys of property_manager.h MIC_GAIN is the beginning of
\* MIC_GAIN_BOOST, and BTPLAY_VOLUME shares its beginning with no other.
Prefixes == [n \in Names |-> IF n = micGain THEN {micGain, micGainBoost} ELSE {n}]

\* The history of the keys that no property speaks of, which nothing else
\* depends on, does not tell states apart.
Seen == LET S == {n \in Names : Separate(n)}
        IN  <<cache, nvram, flush, clear,
              [n \in S |-> latest[n]], [n \in S |-> since[n]], fresh \cap S>>

=============================================================================
