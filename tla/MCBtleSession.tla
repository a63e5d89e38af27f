--------------------------- MODULE MCBtleSession ---------------------------
(* Channel maps for the runs, over four data channels: in the first every    *)
(* unused channel finds a next used one, in the second one is left over.     *)
EXTENDS BtleSession

MCMaps == {{1, 3}, {0, 3}}

\* The loop of get_channels gives every channel one that is in use, whatever
\* the map: what the proofs take as UsedOnly.
ASSUME AllMapsUsedOnly ==
  \A used \in (SUBSET DataChannels) \ {{}} : GetChannels(used) \in [DataChannels -> used]
============================================================================
