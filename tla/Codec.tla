------------------------------- MODULE Codec --------------------------------
(***************************************************************************)
(* A payload on its way to the wire and back through encode() and decode() *)
(* of codec.go (module Encoding).  One client writes a payload, its stored *)
(* form may be damaged, another client reads it.                           *)
(*                                                                         *)
(* A definition named Fault... is a deliberately wrong variant of the one  *)
(* below it; no specification uses it.                                     *)
(***************************************************************************)
EXTENDS Encoding

CONSTANTS
    Data,           \* what a caller may store: [id, len]
    Writers,        \* the configurations of the client that writes
    Readers         \* and of the one that reads

ASSUME CodecAssumption ==
    /\ \A d \in Data : d.len \in Nat /\ d.id # Garbled
    /\ \A d \in Data : d = [id |-> d.id, len |-> d.len]
    /\ Writers \subseteq Config /\ Readers \subseteq Config

VARIABLES
    datum, compress,    \* the payload and the policy of its operation
    writer, reader,     \* the configurations
    pc,                 \* "write", "stored", then how it ended
    wire,               \* the stored form: [bytes, size, info]
    damaged,            \* history: the stored form was changed
    result              \* what decode() returned

vars == <<datum, compress, writer, reader, pc, wire, damaged, result>>

Init ==
    /\ datum \in Data /\ compress \in BOOLEAN
    /\ writer \in Writers /\ reader \in Readers
    /\ pc = "write" /\ wire = Nil /\ damaged = FALSE /\ result = Nil

Refuse ==
    /\ pc = "write" /\ TooLong(datum, writer)
    /\ pc' = "refused"
    /\ UNCHANGED <<datum, compress, writer, reader, wire, damaged, result>>

(* Fault (ReadBackExact): Size is the length of the data, not of the       *)
(* bytes that are sent.                                                    *)
FaultWrite ==
    /\ pc = "write" /\ ~TooLong(datum, writer)
    /\ \E e \in Encodings(datum, compress, writer) :
          wire' = [bytes |-> e.bytes, size |-> Uint32(datum.len),
                   info |-> e.info]
    /\ pc' = "stored"
    /\ UNCHANGED <<datum, compress, writer, reader, damaged, result>>

Write ==
    /\ pc = "write" /\ ~TooLong(datum, writer)
    /\ \E e \in Encodings(datum, compress, writer) :
          wire' = [bytes |-> e.bytes, size |-> Uint32(e.bytes.len),
                   info |-> e.info]
    /\ pc' = "stored"
    /\ UNCHANGED <<datum, compress, writer, reader, damaged, result>>

(* The stored form is changed: another size, another or no raw size, other *)
(* bytes in a compressed block.                                            *)
Damages ==
    {[wire EXCEPT !.size = n] : n \in 0..(2^SizeBits - 1)}
    \cup (IF wire.info = Nil \/ ~wire.info.Enabled THEN {}
          ELSE {[wire EXCEPT !.info.RawSize = n] :
                    n \in {Nil} \cup 0..(2^SizeBits - 1)}
               \cup {[wire EXCEPT !.bytes.intact = FALSE]})

Damage ==
    /\ pc = "stored" /\ ~damaged
    /\ wire' \in Damages
    /\ damaged' = TRUE
    /\ UNCHANGED <<datum, compress, writer, reader, pc, result>>

(* A server may say of uncompressed bytes that they are not compressed.    *)
Annotate ==
    /\ pc = "stored" /\ wire.info = Nil
    /\ wire' \in {[wire EXCEPT !.info = [Enabled |-> FALSE, RawSize |-> n]] :
                     n \in {Nil, 0, Uint32(datum.len)}}
    /\ UNCHANGED <<datum, compress, writer, reader, pc, damaged, result>>

Read ==
    /\ pc = "stored"
    /\ result' \in Decodings(wire.bytes, wire.size, wire.info, reader)
    /\ pc' = "read"
    /\ UNCHANGED <<datum, compress, writer, reader, wire, damaged>>

Next == Refuse \/ Write \/ Damage \/ Annotate \/ Read

Spec == Init /\ [][Next]_vars
-----------------------------------------------------------------------------
ReadOk == pc = "read" /\ result.code = "OK"

(* The sizes of what this client sends fit their fields.                   *)
SizesFit == writer.MaxDecodedBytes + Overhead < 2^SizeBits

(* A payload that encode() accepted and nobody changed is read back as it  *)
(* was by any client with the same codec whose limit admits it, whatever   *)
(* the thresholds of the two and the length of the block.                  *)
ReadBackExact ==
    /\ pc = "read" /\ ~damaged /\ SizesFit
    /\ writer.CompressionCodec = reader.CompressionCodec
    /\ datum.len <= reader.MaxDecodedBytes
    => /\ result.code = "OK"
       /\ result.data = datum

(* decode() does not pass off other bytes as the payload: a wrong size, a  *)
(* wrong or missing raw size, a damaged block or the other codec's block   *)
(* is an error.  A raw LZ4 block has no checksum: there the length is all  *)
(* that is certain, and only an intact one is certain to be right.         *)
DamageDetected ==
    ReadOk /\ result.data # datum =>
        /\ reader.CompressionCodec = "LZ4"
        /\ ~(wire.bytes.format = "LZ4" /\ wire.bytes.intact)
        /\ result.data.len = wire.info.RawSize

(* However large a block claims or turns out to be, and whether decode()   *)
(* returns it or fails, what it has allocated or read of the decoded data  *)
(* is at most one byte more than MaxDecodedBytes, and at most one byte     *)
(* more than the raw size announced: a stream that goes on is not followed.*)
AllocationBounded ==
    pc = "read" =>
        /\ result.read <= reader.MaxDecodedBytes + 1
        /\ wire.info # Nil /\ wire.info.Enabled =>
              result.read <= (IF wire.info.RawSize = Nil THEN 0
                              ELSE wire.info.RawSize + 1)
=============================================================================
