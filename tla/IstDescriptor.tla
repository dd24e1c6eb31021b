---------------------------- MODULE IstDescriptor ----------------------------
(***************************************************************************)
(* The IST descriptor of src/galera/src/replicator_str.cpp: IST_request,  *)
(* its operator<< (written by prepare_for_IST() on the joiner) and        *)
(* operator>> (read by get_ist_request() on the donor).                   *)
(*                                                                         *)
(* Text is a sequence of one-character strings.  A history UUID, which    *)
(* the wsrep_uuid_t stream operators write and read as one 36-character   *)
(* field, is one symbol here.  The stream is an istringstream: every      *)
(* extraction skips white space, and once one fails the rest do nothing.  *)
(***************************************************************************)
EXTENDS Integers, Sequences

CONSTANTS
    UuidSyms,    \* symbols standing for whole canonical UUID fields
    Seqnos,      \* last_applied / group_seqno values a joiner may send
    Peers,       \* receive addresses, as character sequences
    DamageChars, \* characters a damaged descriptor may carry
    MaxDamage    \* bound on damaging steps

VARIABLES
    desc,    \* the IST_request the joiner wrote, or None
    text,    \* the descriptor text the donor reads
    damage,  \* damaging steps applied to text
    result   \* the IST_request get_ist_request() produced, or None

vars == <<desc, text, damage, result>>

None == [none |-> TRUE]
Digit == [d \in 0..9 |-> <<"0","1","2","3","4","5","6","7","8","9">>[d + 1]]
DigitVal == [c \in {Digit[d] : d \in 0..9} |-> CHOOSE d \in 0..9 : Digit[d] = c]
IsDigit(c) == c \in DOMAIN DigitVal
IsSpace(c) == c = " "
-----------------------------------------------------------------------------
(* Writing.                                                                *)

\* operator<<(std::ostream&, long): decimal, with a leading '-' if negative.
RECURSIVE Decimal(_)
Decimal(n) ==
    IF n < 0 THEN <<"-">> \o Decimal(-n)
    ELSE IF n < 10 THEN <<Digit[n]>>
    ELSE Decimal(n \div 10) \o <<Digit[n % 10]>>

\* operator<<(std::ostream&, const IST_request&): "uuid:last-group|peer".
FormatGroupFirst(r) ==
    <<r.uuid, ":">> \o Decimal(r.group) \o <<"-">> \o Decimal(r.last)
        \o <<"|">> \o r.peer
Format(r) ==
    <<r.uuid, ":">> \o Decimal(r.last) \o <<"-">> \o Decimal(r.group)
        \o <<"|">> \o r.peer
-----------------------------------------------------------------------------
(* Reading: one istream extraction each.  A reader takes the text and the *)
(* position and yields [ok, val, pos].                                    *)

RECURSIVE SkipWs(_, _)
SkipWs(s, i) == IF i <= Len(s) /\ IsSpace(s[i]) THEN SkipWs(s, i + 1) ELSE i

Fail(i) == [ok |-> FALSE, val |-> 0, pos |-> i, threw |-> FALSE]

\* operator>>(std::istream&, wsrep_uuid_t&) (galerautils, not in these
\* sources): a field that is present but is no UUID makes it throw a
\* scan exception out of get_ist_request(); a missing field fails the
\* stream and leaves the uuid UNDEFINED.
ReadUuid(s, i) ==
    LET j == SkipWs(s, i)
    IN IF j <= Len(s) /\ s[j] \in UuidSyms
       THEN [ok |-> TRUE, val |-> s[j], pos |-> j + 1, threw |-> FALSE]
       ELSE [Fail(j) EXCEPT !.threw = (j <= Len(s))]

\* operator>>(std::istream&, char&): any one non-blank character.
ReadChar(s, i) ==
    LET j == SkipWs(s, i)
    IN IF j <= Len(s) THEN [ok |-> TRUE, val |-> s[j], pos |-> j + 1] ELSE Fail(j)

RECURSIVE DigitsFrom(_, _, _)
DigitsFrom(s, i, acc) ==
    IF i <= Len(s) /\ IsDigit(s[i])
    THEN DigitsFrom(s, i + 1, 10 * acc + DigitVal[s[i]])
    ELSE [val |-> acc, pos |-> i]

\* operator>>(std::istream&, long&): optional sign, at least one digit.
ReadLong(s, i) ==
    LET j == SkipWs(s, i)
        neg == j <= Len(s) /\ s[j] = "-"
        k == IF j <= Len(s) /\ s[j] \in {"-", "+"} THEN j + 1 ELSE j
        d == DigitsFrom(s, k, 0)
    IN IF d.pos = k THEN Fail(k)
       ELSE [ok |-> TRUE, val |-> IF neg THEN -d.val ELSE d.val, pos |-> d.pos]

RECURSIVE WordFrom(_, _)
WordFrom(s, i) ==
    IF i <= Len(s) /\ ~IsSpace(s[i]) THEN <<s[i]>> \o WordFrom(s, i + 1) ELSE <<>>

\* operator>>(std::istream&, std::string&): up to the next blank; fails on
\* an empty word.
ReadString(s, i) ==
    LET j == SkipWs(s, i)
        w == WordFrom(s, j)
    IN IF w = <<>> THEN Fail(j) ELSE [ok |-> TRUE, val |-> w, pos |-> j + Len(w)]

\* operator>>(std::istream&, IST_request&) on a fresh IST_request, as
\* get_ist_request() does it: fields not reached keep their default
\* values, the separator characters are read and dropped, and the stream
\* state ('good') is never looked at by the caller.  'seps' records the
\* three characters the separator extractions consumed.
ParseIstRequest(s) ==
    LET u == ReadUuid(s, 1)
        c1 == ReadChar(s, u.pos)
        l == ReadLong(s, c1.pos)
        c2 == ReadChar(s, l.pos)
        g == ReadLong(s, c2.pos)
        c3 == ReadChar(s, g.pos)
        p == ReadString(s, c3.pos)
        okU == u.ok
        okL == okU /\ c1.ok /\ l.ok
        okG == okL /\ c2.ok /\ g.ok
        okP == okG /\ c3.ok /\ p.ok
    IN [uuid |-> IF okU THEN u.val ELSE "UNDEFINED",
        last |-> IF okL THEN l.val ELSE 0,
        group |-> IF okG THEN g.val ELSE 0,
        peer |-> IF okP THEN p.val ELSE <<>>,
        good |-> okP,
        threw |-> u.threw,
        seps |-> <<c1.val, c2.val, c3.val>>]
-----------------------------------------------------------------------------
Init ==
    /\ desc = None
    /\ text = <<>>
    /\ damage = 0
    /\ result = None

\* prepare_for_IST(): os << IST_request(recv_addr, state_uuid_,
\* local_seqno, group_seqno), with 0 <= local_seqno < group_seqno.
WriteDescriptor ==
    /\ desc = None
    /\ \E u \in UuidSyms, last \in Seqnos, group \in Seqnos, peer \in Peers :
          /\ 0 <= last /\ last < group
          /\ desc' = [uuid |-> u, last |-> last, group |-> group, peer |-> peer]
          /\ text' = Format(desc')
    /\ UNCHANGED <<damage, result>>

\* A descriptor that is not the joiner's text reaches the donor (a peer of
\* another version, or a corrupted request): one character changed.
Damage ==
    /\ desc # None /\ result = None
    /\ damage < MaxDamage
    /\ damage' = damage + 1
    /\ \E i \in 1..Len(text), c \in DamageChars :
          c # text[i] /\ text' = [text EXCEPT ![i] = c]
    /\ UNCHANGED <<desc, result>>

\* process_state_req(): get_ist_request(streq, &istr).
ReadDescriptor ==
    /\ desc # None /\ result = None
    /\ result' = ParseIstRequest(text)
    /\ UNCHANGED <<desc, text, damage>>

Done == result # None /\ UNCHANGED vars

Next == WriteDescriptor \/ Damage \/ ReadDescriptor \/ Done

Spec == Init /\ [][Next]_vars
-----------------------------------------------------------------------------
\* The donor reads back exactly the descriptor the joiner wrote: uuid,
\* last_applied, group_seqno and receive address, and the stream ends good.
RoundTrip ==
    result # None /\ damage = 0
        => /\ result.good
           /\ result.uuid = desc.uuid /\ result.last = desc.last
           /\ result.group = desc.group /\ result.peer = desc.peer

\* The donor acts on a descriptor only when it is well formed (spec 4.2:
\* any mismatch of the ':', '-', '|' separators is MALFORMED and the
\* transfer is not attempted).  In process_state_req() the donor goes on
\* to seqno_lock() and the IST sender only when the uuid read equals
\* state_uuid_ (line 375), which is the uuid the joiner wrote; otherwise
\* it falls back to a full SST.  So: a descriptor whose separators, as the
\* parser consumed them, are not ':', '-', '|' never yields an IST request
\* with the joiner's uuid, unless the parse threw.
MalformedRejected ==
    result # None /\ ~result.threw /\ result.seps # <<":", "-", "|">>
        => result.uuid # desc.uuid
=============================================================================
