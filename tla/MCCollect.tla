----------------------------- MODULE MCCollect ------------------------------
(***************************************************************************)
(* Small instances of Collect for TLC.                                     *)
(***************************************************************************)
EXTENDS Collect

Client(id, codec) ==
    [ClientID |-> id, CompressionCodec |-> codec, CompressionThreshold |-> 1,
     MaxDecodedBytes |-> 4]
MCConfigs == {Client(0, "GZIP"), Client(5, "LZ4")}

MCData == {Empty, [id |-> "key", len |-> 2], [id |-> "long", len |-> 3]}
Long == [id |-> "long", len |-> 3]
MCPayloads ==
    {Payload(Empty),
     [Payload(Long) EXCEPT
        !.ExpiresAtMillis = 0,
        !.Lock = [Type |-> GLOBAL, LockedBy |-> 0, LockedTillMillis |-> Nil]]}
MCSpans == {[start |-> 0, end |-> 1, reverse |-> TRUE],
            [start |-> 1, end |-> 1, reverse |-> FALSE],
            [start |-> 1, end |-> 0, reverse |-> FALSE]}
MCKeys ==
    {Payload([id |-> "key", len |-> 2]),
     [Payload(Long) EXCEPT !.ClientID = 0,
                           !.Hint = [WeakHash |-> Nil, StrongHash |-> 0]]}
=============================================================================
