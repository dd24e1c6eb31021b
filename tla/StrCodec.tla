------------------------------ MODULE StrCodec ------------------------------
(***************************************************************************)
(* The state request envelope of src/galera/src/replicator_str.cpp:       *)
(* StateRequest_v0, StateRequest_v1 (encoding and decoding constructors)  *)
(* and read_state_request(), the donor's version detection.               *)
(*                                                                         *)
(* A buffer is a sequence of byte values.  The joiner encodes a request,  *)
(* the group layer carries the bytes, and a damaged or foreign buffer can *)
(* reach the donor (a peer of another version, a v0 request whose SST    *)
(* part happens to start with the magic); the donor decodes it.           *)
(***************************************************************************)
EXTENDS Integers, Sequences, SequencesExt

CONSTANTS
    SstPayloads,  \* SST request byte strings the application may pass
    IstPayloads,  \* IST descriptor byte strings (v1 only)
    DamageBytes,  \* byte values a damaged buffer may carry
    MaxDamage     \* bound on damaging steps applied to one buffer

ASSUME MaxDamage \in Nat

VARIABLES
    sent,    \* what the joiner encoded: [ver, sst, ist], or None
    wire,    \* the bytes delivered to the donor
    damage,  \* damaging steps applied to wire
    result   \* read_state_request() followed by the accessors, or None

vars == <<sent, wire, damage, result>>

None == [none |-> TRUE]
INT32_MAX == 2147483647
-----------------------------------------------------------------------------
\* StateRequest_v1::MAGIC, "STRv1"; the encoding writes it with its NUL.
MAGIC == <<83, 84, 82, 118, 49>>

\* sst_offset(): the SST length prefix follows MAGIC and its NUL.
SstOffsetNoNul == Len(MAGIC)
SstOffset == Len(MAGIC) + 1

\* htogl()/gtohl(): a 32-bit length in galera byte order (little-endian).
U32(n) == [i \in 1..4 |-> (n \div (256 ^ (i - 1))) % 256]

\* len(offset): the length prefix at 0-based offset (no bounds check; a byte
\* outside the buffer reads as 0 and is recorded by the caller).
ByteAt(buf, i) == IF i \in 1..Len(buf) THEN buf[i] ELSE 0
LenAt(buf, off) ==
    ByteAt(buf, off + 1) + 256 * ByteAt(buf, off + 2)
        + 65536 * ByteAt(buf, off + 3) + 16777216 * ByteAt(buf, off + 4)

\* req(offset): the payload after a length prefix, a null pointer when the
\* length is 0 (modelled as the empty string).
Slice(buf, off) == SubSeq(buf, off + 5, off + 4 + LenAt(buf, off))

\* StateRequest_v1 encoding constructor: MAGIC, NUL, u32 sst length, sst,
\* u32 ist length, ist; a length outside 0..INT32_MAX is EMSGSIZE.
EncodeV1(sst, ist) ==
    IF Len(sst) > INT32_MAX \/ Len(ist) > INT32_MAX
    THEN [ok |-> FALSE, err |-> "EMSGSIZE"]
    ELSE [ok |-> TRUE,
          buf |-> MAGIC \o <<0>> \o U32(Len(sst)) \o sst \o U32(Len(ist)) \o ist]

\* The length check that keeps the IST prefix inside the buffer.
SstFitsUnchecked(buf) == TRUE
SstFits(buf) == SstOffset + LenAt(buf, SstOffset) + 8 <= Len(buf)

\* StateRequest_v1 decoding constructor and its accessors.  'hi' is the
\* highest byte position the decoder reads.
DecodeV1(buf) ==
    LET n == Len(buf)
        istOff == SstOffset + 4 + LenAt(buf, SstOffset)
        bad(hi) == [ver |-> 1, ok |-> FALSE, hi |-> hi]
    IN CASE SstOffset + 8 > n -> bad(0)
         [] SubSeq(buf, 1, Len(MAGIC)) # MAGIC -> bad(Len(MAGIC))
         [] ~SstFits(buf) -> bad(SstOffset + 4)
         [] istOff + LenAt(buf, istOff) + 4 # n -> bad(istOff + 4)
         [] OTHER -> [ver |-> 1, ok |-> TRUE, hi |-> n,
                      sst |-> Slice(buf, SstOffset), ist |-> Slice(buf, istOff)]

\* StateRequest_v0: the whole buffer is the SST request, no IST part.
DecodeV0(buf) == [ver |-> 0, ok |-> TRUE, hi |-> Len(buf), sst |-> buf, ist |-> <<>>]

\* read_state_request(): v1 when the buffer is longer than MAGIC and starts
\* with it (strncmp over MAGIC.length() bytes), v0 otherwise.
ReadStateRequest(buf) ==
    IF Len(buf) > Len(MAGIC) /\ SubSeq(buf, 1, Len(MAGIC)) = MAGIC
    THEN DecodeV1(buf)
    ELSE DecodeV0(buf)
-----------------------------------------------------------------------------
Init ==
    /\ sent = None
    /\ wire = <<>>
    /\ damage = 0
    /\ result = None

\* prepare_state_request() with str_proto_ver_ 0: StateRequest_v0 carries
\* the application's bytes as they are.
EncodeReqV0 ==
    /\ sent = None
    /\ \E sst \in SstPayloads :
          /\ sent' = [ver |-> 0, sst |-> sst, ist |-> <<>>]
          /\ wire' = sst
    /\ UNCHANGED <<damage, result>>

\* prepare_state_request() with str_proto_ver_ 1 or 2: StateRequest_v1.
EncodeReqV1 ==
    /\ sent = None
    /\ \E sst \in SstPayloads, ist \in IstPayloads :
          LET e == EncodeV1(sst, ist)
          IN /\ e.ok
             /\ sent' = [ver |-> 1, sst |-> sst, ist |-> ist]
             /\ wire' = e.buf
    /\ UNCHANGED <<damage, result>>

\* A buffer that is not the joiner's encoding reaches the donor: cut short,
\* extended, or with one byte changed.
Damage ==
    /\ sent # None /\ result = None
    /\ damage < MaxDamage
    /\ damage' = damage + 1
    /\ \/ \E k \in 0..Len(wire) - 1 : wire' = SubSeq(wire, 1, k)
       \/ \E b \in DamageBytes : wire' = Append(wire, b)
       \/ \E i \in 1..Len(wire), b \in DamageBytes :
             b # wire[i] /\ wire' = ReplaceAt(wire, i, b)
    /\ UNCHANGED <<sent, result>>

\* process_state_req(): read_state_request() on the delivered bytes.
Decode ==
    /\ sent # None /\ result = None
    /\ result' = ReadStateRequest(wire)
    /\ UNCHANGED <<sent, wire, damage>>

Done == result # None /\ UNCHANGED vars

Next == EncodeReqV0 \/ EncodeReqV1 \/ Damage \/ Decode \/ Done

Spec == Init /\ [][Next]_vars
-----------------------------------------------------------------------------
\* Round trip: an undamaged request decodes, in the version it was sent,
\* to exactly the SST and IST parts the joiner encoded (v1 offsets, length
\* prefixes and null-pointer slices agree between the two constructors).
RoundTrip ==
    result # None /\ damage = 0 /\ sent.ver = 1
        => result.ok /\ result.sst = sent.sst /\ result.ist = sent.ist

\* The decoding constructor reads no byte outside the buffer, whatever
\* lengths a damaged buffer claims: the IST length prefix is read only
\* after the SST length has been checked against the buffer.
DecodeInBounds ==
    result # None => result.hi <= Len(wire)

\* A v0 request is never taken for a v1 envelope: version detection needs
\* the magic and its trailing NUL (spec section 5, boundary behaviours).
VersionByFullMagic ==
    result # None /\ damage = 0 /\ sent.ver = 0 => result.ver = 0
=============================================================================
