------------------------------ MODULE MCCodec -------------------------------
(***************************************************************************)
(* Small instances of Codec for TLC.                                       *)
(***************************************************************************)
EXTENDS Codec

CONSTANTS MaxLen, Limits, Thresholds

MCData == [id : {"x"}, len : 0..MaxLen]
MCConfigs == [CompressionCodec : Codecs, CompressionThreshold : Thresholds,
              MaxDecodedBytes : Limits]
=============================================================================
