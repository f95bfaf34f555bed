---------------------------- MODULE MCOperations ----------------------------
(***************************************************************************)
(* Small instances of Operations for TLC.                                  *)
(***************************************************************************)
EXTENDS Operations

MCData == {Empty, [id |-> "short", len |-> 1], [id |-> "long", len |-> 3],
             [id |-> "huge", len |-> 5]}
Client(id, ttl, codec) ==
    [ClientID |-> id, DefaultTTL |-> ttl, CompressionCodec |-> codec,
     CompressionThreshold |-> 1, MaxDecodedBytes |-> 4]
MCConfigs == {Client(0, 0, "GZIP"), Client(5, 3, "LZ4")}

Zero == [WeakHash |-> 0, StrongHash |-> Nil]
Opt(hint, id, ttl) == [Hint |-> hint, ClientID |-> id, TTL |-> ttl]
MCOptions == {Opt(Nil, Nil, Nil), Opt(Zero, 0, 0), Opt(Nil, 7, 2),
              Opt(Nil, Nil, -1)}
MCPositions == {Position(2, Nil, Nil, FALSE), Position(1, 2, LIST, TRUE),
                Position(2, 1, Nil, FALSE), Position(0, 0, ORDERED_SET, FALSE)}
MCDurations == {-1, 0, 3}
MCIntegers == {-1, 0}
MCLocks == {[kind |-> k, duration |-> d] : k \in {-1, 0, 2, 4}, d \in {-1, 0, 3, 50}}
=============================================================================
