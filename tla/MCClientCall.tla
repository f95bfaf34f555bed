---------------------------- MODULE MCClientCall ----------------------------
(***************************************************************************)
(* Small instances of ClientCall for TLC.                                  *)
(***************************************************************************)
EXTENDS ClientCall

Raw(t, ttl, threshold, limit, codec) ==
    [Timeout |-> t, DefaultTTL |-> ttl, CompressionThreshold |-> threshold,
     MaxRequestBytes |-> limit, MaxDecodedBytes |-> limit, codec |-> codec]

MCTimeouts == {Nil, -1, 0}

(* The zero Config and one that is refused.                                *)
MCConfigs == {Raw(0, 0, Nil, 0, 0), Raw(0, 0, -1, 0, 0)}
=============================================================================
