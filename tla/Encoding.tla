------------------------------ MODULE Encoding ------------------------------
(***************************************************************************)
(* encode() and decode() of codec.go as operators.                         *)
(*                                                                         *)
(* Data is an identity and a length.  A byte string on the wire says what  *)
(* it holds: the data as it is, or a block of one of the two compressors.  *)
(* The compressors (compress/gzip and lz4) are external: a block may have  *)
(* any length up to the bound of the format, GZIP ends with a checksum,    *)
(* and LZ4 blocks carry none.                                              *)
(*                                                                         *)
(* A definition named Fault... is a deliberately wrong variant of the one  *)
(* below it; no specification uses it.                                     *)
(***************************************************************************)
EXTENDS Naturals

CONSTANTS
    SizeBits,       \* width of Size and RawSize, 32 in the code
    Overhead,       \* bound: how much longer than its data a block may be
    Garbled,        \* the identity of data nobody wrote
    Nil             \* a nil pointer

ASSUME EncodingAssumption ==
    /\ SizeBits \in Nat /\ 2^SizeBits \in Nat \ {0} /\ Overhead \in Nat
    /\ Nil \notin Nat /\ Nil \notin [Enabled : BOOLEAN, RawSize : Nat \cup {Nil}]

Codecs == {"GZIP", "LZ4"}
Config == [CompressionCodec : Codecs, CompressionThreshold : Nat,
           MaxDecodedBytes : Nat]

(* The conversion to uint32.                                               *)
Uint32(n) == n % 2^SizeBits

(* Byte strings.  A damaged block is not intact.                           *)
Plain(d) == [format |-> "plain", data |-> d, len |-> d.len, intact |-> TRUE]
Block(codec, d, n) ==
    [format |-> codec, data |-> d, len |-> n, intact |-> TRUE]
Junk(n) == [id |-> Garbled, len |-> n]

(* The bytes taken for data as they are.                                   *)
AsData(b) == IF b.format = "plain" /\ b.intact THEN b.data ELSE Junk(b.len)
-----------------------------------------------------------------------------
(* encode() refuses data that no client with this configuration can read.  *)
TooLong(d, c) == d.len > c.MaxDecodedBytes

Compresses(d, compress, c) == compress /\ d.len > c.CompressionThreshold

(* The results of encode(): the bytes and their CompressedInfo.            *)
Encodings(d, compress, c) ==
    IF Compresses(d, compress, c)
    THEN {[bytes |-> Block(c.CompressionCodec, d, n),
           info |-> [Enabled |-> TRUE, RawSize |-> Uint32(d.len)]] :
             n \in 1..(d.len + Overhead)}
    ELSE {[bytes |-> Plain(d), info |-> Nil]}

(* decode() ends in an error or with data; n is how many bytes of decoded  *)
(* data it has allocated or read by then.                                  *)
Failed(code, n) == [code |-> code, data |-> Nil, read |-> n]
Decoded(d, n) == [code |-> "OK", data |-> d, read |-> n]

(* lz4.UncompressBlock into rawSize bytes, which are allocated before it   *)
(* is called.  What is not an intact block gives an error or any bytes.    *)
Lz4Results(b, rawSize) ==
    IF b.format = "LZ4" /\ b.intact
    THEN IF b.data.len = rawSize THEN {Decoded(b.data, rawSize)}
                                 ELSE {Failed("DataLoss", rawSize)}
    ELSE {Failed("DataLoss", rawSize), Decoded(Junk(rawSize), rawSize)}

(* Fault (DamageDetected): the limit is the raw size itself, so the reader *)
(* does not reach the checksum.                                            *)
FaultGzipLimit(rawSize) == rawSize

(* One byte more than the raw size is asked for.                           *)
GzipLimit(rawSize) == rawSize + 1

(* Fault (AllocationBounded): io.ReadAll without io.LimitReader, so that   *)
(* the stream says how much is read.                                       *)
FaultGzipReads(b, rawSize) ==
    IF b.intact THEN {b.data.len} ELSE 0..b.data.len

(* How many bytes io.ReadAll may have read when it returns: to the end of  *)
(* the stream or to the limit, and anywhere before it in a damaged stream. *)
GzipReads(b, rawSize) ==
    IF ~b.intact THEN 0..GzipLimit(rawSize)
    ELSE IF b.data.len < GzipLimit(rawSize) THEN {b.data.len}
    ELSE {GzipLimit(rawSize)}

(* gzip.NewReader, io.LimitReader and io.ReadAll.  Below the limit, a      *)
(* damaged stream has ended in an error, at the latest by its checksum.    *)
GzipResults(b, rawSize) ==
    IF b.format # "GZIP" THEN {Failed("DataLoss", 0)}
    ELSE {IF n # rawSize \/ (~b.intact /\ n < GzipLimit(rawSize))
          THEN Failed("DataLoss", n)
          ELSE Decoded(IF n = b.data.len /\ b.intact THEN b.data ELSE Junk(n), n) :
             n \in GzipReads(b, rawSize)}

OverLimit(rawSize, c) == rawSize > c.MaxDecodedBytes

(* The results of decode().                                                *)
Decodings(b, size, info, c) ==
    IF b.len # size THEN {Failed("DataLoss", 0)}
    ELSE IF info = Nil \/ ~info.Enabled
    THEN IF b.len > c.MaxDecodedBytes THEN {Failed("ResourceExhausted", 0)}
                                      ELSE {Decoded(AsData(b), b.len)}
    ELSE IF info.RawSize \in {Nil, 0} THEN {Failed("DataLoss", 0)}
    ELSE IF OverLimit(info.RawSize, c) THEN {Failed("ResourceExhausted", 0)}
    ELSE IF c.CompressionCodec = "LZ4" THEN Lz4Results(b, info.RawSize)
    ELSE GzipResults(b, info.RawSize)
=============================================================================
