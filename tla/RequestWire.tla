----------------------------- MODULE RequestWire -----------------------------
(***************************************************************************)
(* The state request as it travels, composing the two codecs of           *)
(* src/galera/src/replicator_str.cpp: prepare_state_request() builds the  *)
(* IST descriptor text (IstDescriptor), copies it into a C string and     *)
(* wraps it with the SST request in the envelope (StrCodec); the donor's  *)
(* process_state_req() decodes the envelope and, when it has an IST part, *)
(* get_ist_request() reads the descriptor back from its bytes.            *)
(*                                                                         *)
(* Characters become bytes by their ASCII codes; a history UUID, one      *)
(* symbol of the descriptor text, is one byte here (UuidByte).            *)
(***************************************************************************)
EXTENDS Integers, Sequences, Functions, TLC

CONSTANTS
    SstPayloads,  \* SST request byte strings the application may pass
    UuidSyms,     \* history UUID symbols of the descriptor text
    UuidByte,     \* the byte each UUID symbol is carried as
    Seqnos,       \* last_applied / group_seqno values a joiner may send
    Peers,        \* receive addresses, as character sequences
    DamageBytes,  \* byte values a damaged buffer may carry
    MaxDamage     \* bound on damaging steps

VARIABLES
    desc,    \* the IST_request prepare_for_IST() wrote, or None
    sent,    \* what the joiner encoded: [ver, sst, ist], or None
    wire,    \* the bytes delivered to the donor
    damage,  \* damaging steps applied to wire
    result,  \* read_state_request() followed by the accessors, or None
    istr     \* the IST_request get_ist_request() produced, or None

vars == <<desc, sent, wire, damage, result, istr>>

C == INSTANCE StrCodec WITH IstPayloads <- {}
D == INSTANCE IstDescriptor WITH DamageChars <- {}, text <- <<>>, result <- istr

None == C!None
\* The terminating NUL of a C string, as a character.
Nul == "NUL"

\* ASCII: the characters a descriptor is written with.
Ascii ==
    [c \in {D!Digit[d] : d \in 0..9} |-> 48 + D!DigitVal[c]]
        @@ (" " :> 32) @@ ("-" :> 45) @@ (":" :> 58) @@ ("|" :> 124)
        @@ ("h" :> 104) @@ (Nul :> 0) @@ UuidByte

ASSUME IsInjective(Ascii)

\* Bytes to characters: std::string(ptr, len) takes every byte, including
\* NULs; a byte no descriptor character has is some other character.
CharOf(b) == IF b \in Range(Ascii) THEN AntiFunction(Ascii)[b] ELSE "?"
ToBytes(s) == [i \in 1..Len(s) |-> Ascii[s[i]]]
ToChars(b) == [i \in 1..Len(b) |-> CharOf(b[i])]

\* prepare_for_IST(): strdup(os.str().c_str()) and len = strlen(str) + 1,
\* so the IST part carries the descriptor text and its NUL.
IstReq(d) == ToBytes(D!Format(d)) \o <<Ascii[Nul]>>

\* The descriptors prepare_for_IST() can write: 0 <= local < group.
Descriptors ==
    {[uuid |-> u, last |-> l, group |-> g, peer |-> p] :
        u \in UuidSyms, l \in Seqnos, g \in Seqnos, p \in Peers}
Writable == {d \in Descriptors : 0 <= d.last /\ d.last < d.group}
-----------------------------------------------------------------------------
Init ==
    /\ desc = None
    /\ istr = None
    /\ C!Init

\* prepare_state_request() with str_proto_ver_ 0: no IST part.
JoinerPrepareV0 == C!EncodeReqV0 /\ UNCHANGED <<desc, istr>>

\* prepare_state_request() with str_proto_ver_ 1 or 2: prepare_for_IST()
\* either writes a descriptor or throws (no IST part); then the v1
\* envelope is built from the SST request and the IST buffer.
JoinerPrepareV1 ==
    /\ sent = None
    /\ \E sst \in SstPayloads, d \in Writable \cup {None} :
          LET ist == IF d = None THEN <<>> ELSE IstReq(d)
              e == C!EncodeV1(sst, ist)
          IN /\ e.ok
             /\ desc' = d
             /\ sent' = [ver |-> 1, sst |-> sst, ist |-> ist]
             /\ wire' = e.buf
    /\ UNCHANGED <<damage, result, istr>>

\* The buffer is cut, extended or changed on its way.
Damage == C!Damage /\ UNCHANGED <<desc, istr>>

\* process_state_req(): read_state_request(), then get_ist_request() on the
\* IST part when ist_len() is not 0.
DonorRead ==
    /\ C!Decode
    /\ istr' = IF result'.ok /\ result'.ist # <<>>
               THEN D!ParseIstRequest(ToChars(result'.ist))
               ELSE None
    /\ UNCHANGED desc

Done == result # None /\ UNCHANGED vars

Next == JoinerPrepareV0 \/ JoinerPrepareV1 \/ Damage \/ DonorRead \/ Done

Spec == Init /\ [][Next]_vars
-----------------------------------------------------------------------------
\* An undamaged v1 request decodes to exactly the SST and IST parts the
\* joiner encoded (StrCodec's round trip, over the real IST buffers).
EnvelopeRoundTrip == C!RoundTrip

\* The decoding constructor reads no byte outside the buffer, whatever
\* lengths a damaged buffer claims.
DecodeInBounds == C!DecodeInBounds

\* From an undamaged request the donor reads back the joiner's descriptor:
\* the history, last applied and group seqno it wrote, the stream ending
\* good, and as the receive address the joiner's address followed by the
\* NUL that prepare_for_IST() sends with it (operator>> into a string stops
\* only at white space).
IstReadBack ==
    result # None /\ damage = 0 /\ desc # None
        => /\ istr # None /\ istr.good
           /\ istr.uuid = desc.uuid /\ istr.last = desc.last
           /\ istr.group = desc.group
           /\ istr.peer = desc.peer \o <<Nul>>
=============================================================================
