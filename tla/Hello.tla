------------------------------- MODULE Hello -------------------------------
(***************************************************************************)
(* From a fingerprint profile to the octets of a ClientHello and back:     *)
(* hello (parser, builder, extension bodies, profile extraction), ja3,     *)
(* ja4, the uTLS adapter and TLSProfile.Validate.                          *)
(*                                                                         *)
(* An octet is a number below Base (256), an identifier two octets; the    *)
(* code's numeric limits are the same functions of Base.  Fingerprint      *)
(* strings are tuples of their parts.  What uTLS does with a               *)
(* ClientHelloSpec is external: Emit.                                      *)
(***************************************************************************)
EXTENDS Integers, Sequences, FiniteSets, SequencesExt

CONSTANTS
    None,
    Base,               \* 256
    Nibble, Ten,        \* 16 and 10: a GREASE octet is Ten modulo Nibble
    RandomLen,          \* 32
    MaxRecord,          \* maxRecordPlain
    RecordType,         \* recordTypeHandshake
    OtherRecords,       \* the other content types
    MaxHandshakeType,   \* 0x1f in looksLikeHandshake
    Alnum,              \* octets that are ASCII letters or digits
    KeyshareGroups,     \* keyshareCapable
    OwnBody,            \* types whose uTLS instance takes nothing from the profile
                        \* (status_request, SCT, ALPS, ECH, session_ticket, ...)
    Profiles, Hellos,   \* profiles and ClientHellos to start from
    Options,            \* options of the adapter
    Edits               \* [type, data], or [type] to be removed

HandshakeType == 1
ExtServerName == 0
ExtSupportedGroups == 10
ExtECPointFormats == 11
ExtSignatureAlgorithms == 13
ExtALPN == 16
ExtPadding == 21
ExtCompressCertificate == 27
ExtRecordSizeLimit == 28
ExtDelegatedCredentials == 34
ExtPreSharedKey == 41
ExtEarlyData == 42
ExtSupportedVersions == 43
ExtPSKKeyExchangeModes == 45
ExtSignatureAlgorithmsCert == 50
ExtKeyShare == 51
PostHandshakeAuth == 49

VersionTLS10 == 3 * Base + 1
VersionTLS12 == 3 * Base + 3
VersionTLS13 == 3 * Base + 4

IsGrease(v) == v % Nibble = Ten /\ v \div Base = v % Base
GreaseTable == {v \in 0 .. Base * Base - 1 : IsGrease(v)}
GreaseMarker == Ten * Base + Ten

ASSUME BaseAssumption == Base \in Nat /\ Base > 3 /\ {RecordType, HandshakeType} \cup OtherRecords \subseteq 0 .. Base - 1
ASSUME GreaseAssumption == Ten < Nibble /\ IsGrease(GreaseMarker)
ASSUME LengthsAssumption == {RandomLen, MaxRecord} \subseteq Nat /\ MaxRecord < Base * Base

VARIABLES
    p,      \* a TLSProfile
    ch,     \* the ClientHello at hand, or None
    made,   \* how it was made
    wire,   \* [kind, octets, cut], or None
    got     \* result of Parse, or None

vars == <<p, ch, made, wire, got>>

-----------------------------------------------------------------------------
(***************************************************************************)
(* Octets                                                                  *)
(***************************************************************************)
U8(n) == <<n % Base>>
U16(n) == <<(n \div Base) % Base, n % Base>>
U24(n) == U8(n \div (Base * Base)) \o U16(n)
Num(b) == FoldLeft(LAMBDA acc, o : acc * Base + o, 0, b)
Drop(b, n) == SubSeq(b, n + 1, Len(b))
U16s(list) == FlattenSeq([i \in DOMAIN list |-> U16(list[i])])
Pairs(b) == [i \in 1 .. Len(b) \div 2 |-> Num(SubSeq(b, 2 * i - 1, 2 * i))]

Ok(v) == [err |-> "none", val |-> v]
Err(e) == [err |-> e, val |-> None]

\* takeU8 or takeU16, then takeBytes: a vector with a length of w octets.
take(w, b) ==
    IF Len(b) < w \/ Len(b) < w + Num(SubSeq(b, 1, w)) THEN None
    ELSE [v |-> SubSeq(b, w + 1, w + Num(SubSeq(b, 1, w))), rest |-> Drop(b, w + Num(SubSeq(b, 1, w)))]

-----------------------------------------------------------------------------
(***************************************************************************)
(* Building                                                                *)
(***************************************************************************)
Extension(t, d) == [type |-> t, data |-> d]
ExtOctets(e) == U16(e.type) \o U16(Len(e.data)) \o e.data
extBytesLen(exts) == FoldLeft(LAMBDA acc, e : acc + 4 + Len(e.data), 0, exts)

Oversized(c) ==
    \/ Len(c.sid) > Base - 1
    \/ Len(c.ciphers) = 0 \/ Len(c.ciphers) > (Base * Base) \div 2 - 1
    \/ Len(c.comp) > Base - 1
    \/ extBytesLen(c.exts) > Base * Base - 1

MarshalBodyMutant(c) ==
    IF Oversized(c) THEN None
    ELSE U16(c.version) \o c.random \o U8(Len(c.sid)) \o c.sid \o U16(2 * Len(c.ciphers)) \o U16s(c.ciphers)
         \o U8(Len(c.comp)) \o c.comp
         \o (IF c.exts = <<>> THEN <<>>
             ELSE U16(Len(c.exts)) \o FlattenSeq([i \in DOMAIN c.exts |-> ExtOctets(c.exts[i])]))
MarshalBody(c) ==
    IF Oversized(c) THEN None
    ELSE U16(c.version) \o c.random \o U8(Len(c.sid)) \o c.sid \o U16(2 * Len(c.ciphers)) \o U16s(c.ciphers)
         \o U8(Len(c.comp)) \o c.comp
         \o (IF c.exts = <<>> THEN <<>>
             ELSE U16(extBytesLen(c.exts)) \o FlattenSeq([i \in DOMAIN c.exts |-> ExtOctets(c.exts[i])]))

MarshalHandshake(c) ==
    LET body == MarshalBody(c) IN
    IF body = None THEN None ELSE U8(HandshakeType) \o U24(Len(body)) \o body

MarshalRecord(c, recordVersion) ==
    LET hs == MarshalHandshake(c)
        v == IF recordVersion = 0 THEN c.version ELSE recordVersion IN
    IF hs = None THEN None
    ELSE IF Len(hs) > MaxRecord THEN None
    ELSE U8(RecordType) \o U16(v) \o U16(Len(hs)) \o hs

-----------------------------------------------------------------------------
(***************************************************************************)
(* Parsing                                                                 *)
(***************************************************************************)
RECURSIVE ParseExtensions(_, _)
ParseExtensions(raw, acc) ==
    LET e == take(2, Drop(raw, 2)) IN
    IF raw = <<>> THEN Ok(acc)
    ELSE IF Len(raw) < 4 THEN Err("malformed")
    ELSE IF e = None THEN Err("short")
    ELSE ParseExtensions(e.rest, Append(acc, Extension(Num(SubSeq(raw, 1, 2)), e.v)))

ParseBody(b) ==
    LET sid == take(1, Drop(b, 2 + RandomLen))
        odd == Len(sid.rest) >= 2 /\ Num(SubSeq(sid.rest, 1, 2)) % 2 # 0
        cs == take(2, sid.rest)
        cm == take(1, cs.rest)
        ext == take(2, cm.rest)
        exts == IF cm.rest = <<>> THEN Ok(<<>>) ELSE IF ext = None THEN Err("short") ELSE ParseExtensions(ext.v, <<>>)
    IN
    IF Len(b) < 2 + RandomLen THEN Err("short")
    ELSE IF sid = None THEN Err("short")
    ELSE IF odd THEN Err("malformed")
    ELSE IF cs = None THEN Err("short")
    ELSE IF cm = None THEN Err("short")
    ELSE IF exts.err # "none" THEN exts
    ELSE Ok([version |-> Num(SubSeq(b, 1, 2)), random |-> SubSeq(b, 3, 2 + RandomLen), sid |-> sid.v,
             ciphers |-> Pairs(cs.v), comp |-> cm.v, exts |-> exts.val])

ParseHandshake(b) ==
    LET n == Num(SubSeq(b, 2, 4)) IN
    IF Len(b) < 4 THEN Err("short")
    ELSE IF b[1] # HandshakeType THEN Err("handshakeType")
    ELSE IF Len(b) < 4 + n THEN Err("short") ELSE ParseBody(SubSeq(b, 5, 4 + n))

ParseRecord(b) ==
    LET n == Num(SubSeq(b, 4, 5)) IN
    IF Len(b) < 5 THEN Err("short")
    ELSE IF b[1] # RecordType THEN Err("recordType")
    ELSE IF Len(b) < 5 + n THEN Err("short") ELSE ParseHandshake(SubSeq(b, 6, 5 + n))

looksLikeHandshake(b) == Len(b) >= 4 /\ b[1] <= MaxHandshakeType /\ Num(SubSeq(b, 2, 4)) = Len(b) - 4

Parse(b) ==
    IF b = <<>> THEN Err("short")
    ELSE IF b[1] \in {RecordType} \cup OtherRecords THEN ParseRecord(b)
    ELSE IF b[1] = HandshakeType \/ looksLikeHandshake(b) THEN ParseHandshake(b)
    ELSE ParseBody(b)

-----------------------------------------------------------------------------
(***************************************************************************)
(* Extension bodies                                                        *)
(***************************************************************************)
\* A list of identifiers behind a length of w octets; trailing octets are ignored.
U16List(w, d) ==
    IF Len(d) < w THEN Err("short")
    ELSE LET n == Num(SubSeq(d, 1, w)) IN
         IF n % 2 # 0 \/ w + n > Len(d) THEN Err("malformed") ELSE Ok(Pairs(SubSeq(d, w + 1, w + n)))
U8List(d) ==
    IF Len(d) < 1 THEN Err("short")
    ELSE IF 1 + d[1] > Len(d) THEN Err("short") ELSE Ok(SubSeq(d, 2, 1 + d[1]))

DecodeSupportedGroups(d) == U16List(2, d)
DecodeSupportedVersions(d) == U16List(1, d)
DecodeSignatureAlgorithms(d) == U16List(2, d)
DecodeCertCompression(d) == U16List(2, d)
DecodeDelegatedCredentials(d) == U16List(2, d)
DecodeECPointFormats(d) == U8List(d)
DecodePSKModes(d) == U8List(d)
DecodeRecordSizeLimit(d) == IF Len(d) # 2 THEN Err("malformed") ELSE Ok(Num(d))

\* Entries of a list that fills the whole body, each with its head of h octets
\* and a length of w.
RECURSIVE Entries(_, _, _, _)
Entries(h, w, rest, acc) ==
    LET e == take(w, Drop(rest, h)) IN
    IF rest = <<>> THEN Ok(acc)
    ELSE IF Len(rest) < h + w \/ e = None THEN Err("short")
    ELSE Entries(h, w, e.rest, Append(acc, <<SubSeq(rest, 1, h), e.v>>))
WholeList(h, w, d) ==
    IF Len(d) < 2 THEN Err("short")
    ELSE IF Len(d) - 2 # Num(SubSeq(d, 1, 2)) THEN Err("malformed") ELSE Entries(h, w, Drop(d, 2), <<>>)
DecodeALPN(d) == WholeList(0, 1, d)
DecodeKeyShares(d) == WholeList(2, 2, d)

EncodeSupportedGroups(l) == U16(2 * Len(l)) \o U16s(l)
EncodeSignatureAlgorithms(l) == U16(2 * Len(l)) \o U16s(l)
EncodeSupportedVersions(l) == U8(2 * Len(l)) \o U16s(l)
EncodeECPointFormats(l) == U8(Len(l)) \o l
EncodePSKModes(l) == U8(Len(l)) \o l
EncodeALPN(l) ==
    LET body == FlattenSeq([i \in DOMAIN l |-> U8(Len(l[i])) \o l[i]]) IN U16(Len(body)) \o body

FindExtension(c, t) ==
    LET S == {i \in DOMAIN c.exts : c.exts[i].type = t} IN
    IF S = {} THEN None ELSE c.exts[CHOOSE i \in S : \A j \in S : i <= j]

-----------------------------------------------------------------------------
(***************************************************************************)
(* Profiles                                                                *)
(***************************************************************************)
EmptyProfile == [legacy |-> 0, ciphers |-> <<>>, exts |-> <<>>, groups |-> <<>>, formats |-> <<>>, versions |-> <<>>,
                 sigs |-> <<>>, sigsCert |-> <<>>, modes |-> <<>>, certComp |-> <<>>, delegated |-> <<>>,
                 limit |-> 0, extra |-> {}]

Types(c) == [i \in DOMAIN c.exts |-> c.exts[i].type]

DecodeExtension(e) ==
    CASE e.type = ExtSupportedGroups -> DecodeSupportedGroups(e.data)
      [] e.type = ExtECPointFormats -> DecodeECPointFormats(e.data)
      [] e.type = ExtSupportedVersions -> DecodeSupportedVersions(e.data)
      [] e.type \in {ExtSignatureAlgorithms, ExtSignatureAlgorithmsCert} -> DecodeSignatureAlgorithms(e.data)
      [] e.type = ExtPSKKeyExchangeModes -> DecodePSKModes(e.data)
      [] e.type = ExtCompressCertificate -> DecodeCertCompression(e.data)
      [] e.type = ExtRecordSizeLimit -> DecodeRecordSizeLimit(e.data)
      [] e.type = ExtDelegatedCredentials -> DecodeDelegatedCredentials(e.data)
      [] OTHER -> Ok(None)

\* TLSProfile: the last extension of a type sets the field; the legacy version is
\* not taken over.
TLSProfile(c) ==
    LET last(t, none) ==
            LET S == {i \in DOMAIN c.exts : c.exts[i].type = t} IN
            IF S = {} THEN none ELSE DecodeExtension(c.exts[CHOOSE i \in S : \A j \in S : j <= i]).val IN
    IF \E i \in DOMAIN c.exts : DecodeExtension(c.exts[i]).err # "none" THEN None
    ELSE [EmptyProfile EXCEPT
            !.ciphers = c.ciphers, !.exts = Types(c),
            !.groups = last(ExtSupportedGroups, <<>>), !.formats = last(ExtECPointFormats, <<>>),
            !.versions = last(ExtSupportedVersions, <<>>), !.sigs = last(ExtSignatureAlgorithms, <<>>),
            !.sigsCert = last(ExtSignatureAlgorithmsCert, <<>>), !.modes = last(ExtPSKKeyExchangeModes, <<>>),
            !.certComp = last(ExtCompressCertificate, <<>>), !.delegated = last(ExtDelegatedCredentials, <<>>),
            !.limit = last(ExtRecordSizeLimit, 0)]

\* setPayload fills the first slot of a type.  No encoder returns an empty body, so
\* every slot that has an encoder is filled.
setPayload(exts, t, body) ==
    LET S == {i \in DOMAIN exts : exts[i].type = t} IN
    IF S = {} THEN exts ELSE [exts EXCEPT ![CHOOSE i \in S : \A j \in S : i <= j].data = body]

ToClientHello(q) ==
    LET slots == [i \in DOMAIN q.exts |-> Extension(q.exts[i], <<>>)]
        bodies == <<<<ExtSupportedGroups, EncodeSupportedGroups(q.groups)>>,
                    <<ExtECPointFormats, EncodeECPointFormats(q.formats)>>,
                    <<ExtSupportedVersions, EncodeSupportedVersions(q.versions)>>,
                    <<ExtSignatureAlgorithms, EncodeSignatureAlgorithms(q.sigs)>>,
                    <<ExtSignatureAlgorithmsCert, EncodeSignatureAlgorithms(q.sigsCert)>>,
                    <<ExtPSKKeyExchangeModes, EncodePSKModes(q.modes)>>>> IN
    IF q.ciphers = <<>> THEN None
    ELSE [version |-> IF q.legacy = 0 THEN VersionTLS12 ELSE q.legacy,
          random |-> [i \in 1 .. RandomLen |-> 0], sid |-> <<>>, ciphers |-> q.ciphers, comp |-> <<0>>,
          exts |-> FoldLeft(LAMBDA acc, b : setPayload(acc, b[1], b[2]), slots, bodies)]

checkUnique(list) == \A i, j \in DOMAIN list : i # j => list[i] # list[j]
Validate(q) ==
    /\ checkUnique(q.ciphers) /\ checkUnique(q.exts) /\ checkUnique(q.groups) /\ checkUnique(q.versions)
    /\ ~(q.ciphers = <<>> /\ q.exts # <<>>)
    /\ ~(q.exts = <<>> /\ (q.versions # <<>> \/ q.groups # <<>>))

-----------------------------------------------------------------------------
(***************************************************************************)
(* Fingerprints                                                            *)
(***************************************************************************)
Plain(list) == SelectSeq(list, LAMBDA v : ~IsGrease(v))

Format(version, ciphers, exts, groups, formats) == <<version, Plain(ciphers), Plain(exts), Plain(groups), formats>>

\* A body that does not decode counts as an empty list.
OrEmpty(c, t, Decode(_)) ==
    LET e == FindExtension(c, t) IN
    IF e = None THEN <<>> ELSE IF Decode(e.data).err # "none" THEN <<>> ELSE Decode(e.data).val

groupsFromHello(c) == OrEmpty(c, ExtSupportedGroups, DecodeSupportedGroups)
formatsFromHello(c) == OrEmpty(c, ExtECPointFormats, DecodeECPointFormats)

JA3(c) == Format(c.version, c.ciphers, Types(c), groupsFromHello(c), formatsFromHello(c))
JA3FromProfile(q) ==
    Format(IF q.legacy = 0 THEN VersionTLS12 ELSE q.legacy, q.ciphers, q.exts, q.groups, q.formats)

Sorted(list) == SortSeq(list, <)
pad2(n) == IF n > 99 THEN 99 ELSE n

\* The two characters of the first protocol, or of its hexadecimal form.
alpnChars(a) ==
    IF a = <<>> THEN <<0, 0>>
    ELSE IF {a[1], a[Len(a)]} \subseteq Alnum THEN <<a[1], a[Len(a)]>>
    ELSE <<a[1] \div Nibble, a[Len(a)] % Nibble>>

versionCode(v) == IF v \in {2} \cup (3 * Base .. VersionTLS13) THEN v ELSE 0
versionString(c) ==
    LET vs == Plain(OrEmpty(c, ExtSupportedVersions, DecodeSupportedVersions))
        S == {vs[i] : i \in DOMAIN vs} IN
    versionCode(IF S \subseteq {0} THEN c.version ELSE CHOOSE v \in S : \A w \in S : w <= v)

firstALPN(c) ==
    LET e == FindExtension(c, ExtALPN) IN
    IF e = None THEN Ok(<<>>)
    ELSE IF DecodeALPN(e.data).err # "none" THEN DecodeALPN(e.data)
    ELSE Ok(IF DecodeALPN(e.data).val = <<>> THEN <<>> ELSE DecodeALPN(e.data).val[1][2])

computeA(c) ==
    <<versionString(c), FindExtension(c, ExtServerName) # None, pad2(Len(Plain(c.ciphers))), pad2(Len(Plain(Types(c)))),
      alpnChars(firstALPN(c).val)>>
computeB(c) == Sorted(Plain(c.ciphers))
computeC(c) ==
    LET list == SelectSeq(Plain(Types(c)), LAMBDA t : t \notin {ExtServerName, ExtALPN}) IN
    IF list = <<>> THEN <<>>
    ELSE <<Sorted(list), Plain(OrEmpty(c, ExtSignatureAlgorithms, DecodeSignatureAlgorithms))>>

\* The hashes of B and C are taken as injective.
JA4(c) == IF firstALPN(c).err # "none" THEN None ELSE <<computeA(c), computeB(c), computeC(c)>>

-----------------------------------------------------------------------------
(***************************************************************************)
(* The uTLS adapter.  o is [grease, alpn, keyshares, session].  g holds the *)
(* GREASE values drawn for this connection: by uTLS those of the cipher     *)
(* list and of the first and the second GREASE extension, by nextGrease one *)
(* for each marker in a list of the profile.                                *)
(***************************************************************************)
randomizeGrease(list, t, g) == [i \in DOMAIN list |-> IF list[i] = GreaseMarker THEN g.list[<<t, i>>] ELSE list[i]]

\* The lists of the profile q whose markers are drawn, by extension type.
GreaseLists(q) ==
    {<<ExtSupportedGroups, q.groups>>, <<ExtSupportedVersions, q.versions>>, <<ExtSignatureAlgorithms, q.sigs>>,
     <<ExtSignatureAlgorithmsCert, q.sigsCert>>, <<ExtDelegatedCredentials, q.delegated>>}
Markers(q) == UNION {{<<l[1], i>> : i \in {j \in DOMAIN l[2] : l[2][j] = GreaseMarker}} : l \in GreaseLists(q)}

keysharesFromGroups(groups, o) ==
    LET capable == SelectSeq(groups, LAMBDA x : ~IsGrease(x) /\ x \in KeyshareGroups) IN
    IF o.keyshares # None THEN o.keyshares
    ELSE SubSeq(capable, 1, IF Len(capable) < 2 THEN Len(capable) ELSE 2)

versionRange(q) ==
    LET vs == {q.versions[i] : i \in DOMAIN q.versions}
        S == {v \in vs : ~IsGrease(v) /\ v \in VersionTLS10 .. VersionTLS13} IN
    IF S = {} THEN <<VersionTLS10, VersionTLS12>>
    ELSE <<CHOOSE v \in S : \A w \in S : v <= w, CHOOSE v \in S : \A w \in S : w <= v>>

OrDefault(list, d) == IF list = <<>> THEN d ELSE list

\* How uTLS (external) writes the body of compress_certificate, after RFC 8879: the
\* length of the list is one octet.
CertCompressionBody(l) == U8(2 * Len(l)) \o U16s(l)

\* The extension for one type, or None for an unknown type without a payload.
buildExtension(t, q, o, g) ==
    CASE t = ExtServerName -> Extension(t, <<>>)
      [] t \in OwnBody \cup {ExtPadding} -> Extension(t, <<>>)
      [] t = ExtSupportedGroups -> Extension(t, EncodeSupportedGroups(randomizeGrease(q.groups, t, g)))
      [] t = ExtECPointFormats -> Extension(t, EncodeECPointFormats(OrDefault(q.formats, <<0>>)))
      [] t = ExtSignatureAlgorithms -> Extension(t, EncodeSignatureAlgorithms(randomizeGrease(q.sigs, t, g)))
      [] t = ExtSignatureAlgorithmsCert -> Extension(t, EncodeSignatureAlgorithms(randomizeGrease(q.sigsCert, t, g)))
      [] t = ExtALPN -> Extension(t, EncodeALPN(o.alpn))
      [] t = ExtCompressCertificate -> Extension(t, CertCompressionBody(q.certComp))
      [] t = ExtRecordSizeLimit -> Extension(t, U16(q.limit))
      [] t = ExtDelegatedCredentials -> Extension(t, EncodeSignatureAlgorithms(randomizeGrease(q.delegated, t, g)))
      [] t = ExtSupportedVersions -> Extension(t, EncodeSupportedVersions(randomizeGrease(q.versions, t, g)))
      [] t = ExtPSKKeyExchangeModes -> Extension(t, EncodePSKModes(OrDefault(q.modes, <<1>>)))
      [] t = ExtKeyShare -> Extension(t, keysharesFromGroups(q.groups, o))
      [] OTHER -> IF \E x \in q.extra : x.type = t /\ x.data # <<>>
                  THEN CHOOSE x \in q.extra : x.type = t /\ x.data # <<>>
                  ELSE IF t = PostHandshakeAuth THEN Extension(t, <<>>) ELSE None

\* FromProfile: with GREASE one value in front of the ciphers, one extension in
\* front and one before the padding.
FromProfile(q, o, g) ==
    LET omitted(t) == \/ ~o.session /\ t \in {ExtPreSharedKey, ExtEarlyData}
                      \/ ~IsGrease(t) /\ buildExtension(t, q, o, g) = None
        kept == SelectSeq(q.exts, LAMBDA t : ~omitted(t))
        exts == [i \in DOMAIN kept |->
                    IF IsGrease(kept[i]) THEN Extension(GreaseMarker, <<>>) ELSE buildExtension(kept[i], q, o, g)]
        pads == {i \in DOMAIN kept : kept[i] = ExtPadding}
        pad == IF pads = {} THEN 0 ELSE CHOOSE i \in pads : \A j \in pads : j <= i IN
    [ciphers |-> (IF o.grease THEN <<GreaseMarker>> ELSE <<>>) \o q.ciphers,
     range |-> versionRange(q),
     exts |-> IF ~o.grease THEN exts
              ELSE <<Extension(GreaseMarker, <<>>)>> \o
                   (IF pad = 0 THEN exts
                    ELSE SubSeq(exts, 1, pad - 1) \o <<Extension(GreaseMarker, <<0>>)>> \o Drop(exts, pad - 1))]

\* uTLS (external): it draws the placeholders of the cipher list (one value for all
\* of them), gives the first and the second GREASE extension their values and the
\* second one a zero octet, refuses a third, fills in the server name and the key
\* material, and may leave the padding out.
ServerName == <<1>>
EmitBody(e) ==
    CASE e.type = ExtServerName -> U16(3 + Len(ServerName)) \o <<0>> \o U16(Len(ServerName)) \o ServerName
      [] e.type = ExtKeyShare ->
            LET shares == FlattenSeq([i \in DOMAIN e.data |-> U16(e.data[i]) \o U16(1) \o <<7>>]) IN
            U16(Len(shares)) \o shares
      [] OTHER -> e.data
Emit(spec, g, padded) ==
    LET grease == {i \in DOMAIN spec.exts : spec.exts[i].type = GreaseMarker}
        valued(i) == IF i \notin grease THEN Extension(spec.exts[i].type, EmitBody(spec.exts[i]))
                     ELSE IF \A j \in grease : i <= j THEN Extension(g.first, spec.exts[i].data)
                     ELSE Extension(g.second, <<0>>)
        exts == SelectSeq([i \in DOMAIN spec.exts |-> valued(i)], LAMBDA e : e.type # ExtPadding \/ padded) IN
    IF Cardinality(grease) > 2 THEN None
    ELSE [version |-> IF spec.range[2] > VersionTLS12 THEN VersionTLS12 ELSE spec.range[2],
          random |-> [i \in 1 .. RandomLen |-> 7], sid |-> <<7>>,
          ciphers |-> [i \in DOMAIN spec.ciphers |->
                          IF spec.ciphers[i] = GreaseMarker THEN g.cipher ELSE spec.ciphers[i]],
          comp |-> <<0>>, exts |-> exts]

-----------------------------------------------------------------------------
(***************************************************************************)
(* Actions                                                                 *)
(***************************************************************************)
By(how, o, g, padded) == [how |-> how, o |-> o, g |-> g, padded |-> padded]

Init ==
    /\ p \in Profiles
    /\ ch = None /\ made = By("nothing", None, None, FALSE) /\ wire = None /\ got = None

\* A ClientHello of another client.
Capture(h) ==
    /\ ch = None
    /\ ch' = h /\ made' = By("capture", None, None, FALSE)
    /\ UNCHANGED <<p, wire, got>>

Build ==
    /\ ch = None /\ ToClientHello(p) # None
    /\ ch' = ToClientHello(p) /\ made' = By("build", None, None, FALSE)
    /\ UNCHANGED <<p, wire, got>>

Adapt(o, g, padded) ==
    /\ ch = None /\ Emit(FromProfile(p, o, g), g, padded) # None
    /\ ch' = Emit(FromProfile(p, o, g), g, padded) /\ made' = By("adapt", o, g, padded)
    /\ UNCHANGED <<p, wire, got>>

SetExtension(t, d) ==
    /\ ch # None /\ wire = None /\ made.how # "edit"
    /\ ch' = [ch EXCEPT !.exts = IF FindExtension(ch, t) = None THEN Append(@, Extension(t, d)) ELSE setPayload(@, t, d)]
    /\ made' = By("edit", None, None, FALSE)
    /\ UNCHANGED <<p, wire, got>>

RemoveExtensions(ts) ==
    /\ ch # None /\ wire = None /\ made.how # "edit"
    /\ ch' = [ch EXCEPT !.exts = SelectSeq(@, LAMBDA e : e.type \notin ts)]
    /\ made' = By("edit", None, None, FALSE)
    /\ UNCHANGED <<p, wire, got>>

Octets(kind) ==
    CASE kind = "body" -> MarshalBody(ch) [] kind = "handshake" -> MarshalHandshake(ch) [] kind = "record" -> MarshalRecord(ch, 0)

Marshal(kind) ==
    /\ ch # None /\ wire = None /\ Octets(kind) # None
    /\ wire' = [kind |-> kind, octets |-> Octets(kind), cut |-> FALSE]
    /\ UNCHANGED <<p, ch, made, got>>

\* What a reader has before all of the message has arrived.
Cut(n) ==
    /\ wire # None /\ ~wire.cut /\ got = None /\ n < Len(wire.octets)
    /\ wire' = [wire EXCEPT !.octets = SubSeq(@, 1, n), !.cut = TRUE]
    /\ UNCHANGED <<p, ch, made, got>>

Read ==
    /\ wire # None /\ got = None
    /\ got' = Parse(wire.octets)
    /\ UNCHANGED <<p, ch, made, wire>>

Draws == {g \in [cipher : GreaseTable, first : GreaseTable, second : GreaseTable, list : [Markers(p) -> GreaseTable]] :
            g.first # g.second}

Next ==
    \/ \E h \in Hellos : Capture(h)
    \/ Build
    \/ \E o \in Options, g \in Draws, padded \in BOOLEAN : Adapt(o, g, padded)
    \/ \E e \in Edits : SetExtension(e.type, e.data)
    \/ \E e \in Edits : RemoveExtensions({e.type})
    \/ \E kind \in {"body", "handshake", "record"} : Marshal(kind)
    \/ wire # None /\ \E n \in 0 .. Len(wire.octets) - 1 : Cut(n)
    \/ Read

Spec == Init /\ [][Next]_vars

-----------------------------------------------------------------------------
\* Parse returns the ClientHello that MarshalBody, MarshalHandshake or MarshalRecord
\* wrote, whatever the framing.  A message cut short is an error, never another
\* ClientHello, except that a bare body cut behind its compression methods reads as a
\* ClientHello without extensions.
ParsedIsSent ==
    got # None =>
        IF ~wire.cut THEN got = Ok(ch)
        ELSE got.err # "none" \/ (wire.kind = "body" /\ ch.exts # <<>> /\ got.val = [ch EXCEPT !.exts = <<>>])

\* The fingerprint survives the way to the wire and back (adapter.FromProfile,
\* hello.TLSProfile, ja3, ja4):
\* - the JA3 of the octets is the JA3 of the profile extracted from them, if one can
\*   be extracted and is valid;
\* - a profile can be extracted from what the adapter sends, unless it holds
\*   compress_certificate (ext.go:148, SentExtracts);
\* - what the adapter sends has the profile's JA3 but for the extensions it must
\*   leave out (pre_shared_key and early_data among them when the profile has no
\*   payload for them, whatever Options.IncludeSessionExtensions says:
\*   SessionExtensionsKept), a version range that holds the profile's versions and
\*   key shares of its groups only, and its JA4 does not depend on GREASE;
\* - a profile can be extracted from a built ClientHello, unless it lists one of the
\*   three types whose bodies ToClientHello leaves empty (BuiltExtracts), and it is
\*   the profile the ClientHello was built from (one that lists the extensions its
\*   lists belong to).
Whole == got # None /\ ~wire.cut /\ got.err = "none"
SentExtensions ==
    LET known(t) == \/ t \in OwnBody \cup {0, 10, 11, 13, 16, 21, 27, 28, 34, 43, 45, 49, 50, 51}
                    \/ \E x \in p.extra : x.type = t IN
    SelectSeq(p.exts, LAMBDA t : /\ known(t)
                                 /\ t \in {ExtPreSharedKey, ExtEarlyData} => made.o.session
                                 /\ t = ExtPadding => made.padded)
ExtractionAgrees ==
    LET q == TLSProfile(got.val) IN
    q # None /\ got.val.version = VersionTLS12 =>
        (Validate(q) => JA3FromProfile(q) = JA3(got.val))
AdapterFaithful ==
    LET formats == IF Contains(p.exts, ExtECPointFormats) THEN OrDefault(p.formats, <<0>>) ELSE <<>>
        want == [p EXCEPT !.formats = formats, !.exts = SentExtensions, !.legacy = got.val.version]
        shares == OrEmpty(got.val, ExtKeyShare, DecodeKeyShares)
        quiet == Emit(FromProfile(p, [made.o EXCEPT !.grease = FALSE], made.g), made.g, made.padded)
        range == versionRange(p) IN
    /\ Contains(SentExtensions, ExtCompressCertificate) \/ TLSProfile(got.val) # None
    /\ JA3(got.val) = JA3FromProfile(want)
    /\ JA4(got.val) = JA4(quiet)
    /\ \A i \in DOMAIN shares : made.o.keyshares = None => Contains(p.groups, Num(shares[i][1]))
    /\ \A i \in DOMAIN p.versions : p.versions[i] \in VersionTLS10 .. VersionTLS13 =>
            p.versions[i] \in range[1] .. range[2]
LeftEmpty == {ExtCompressCertificate, ExtRecordSizeLimit, ExtDelegatedCredentials}
BuildFaithful ==
    LET q == TLSProfile(got.val) IN
    /\ Validate(p) /\ (\A t \in LeftEmpty : ~Contains(p.exts, t)) => q # None
    /\ q # None => /\ JA3FromProfile(q) = JA3FromProfile([p EXCEPT !.legacy = 0])
                   /\ <<q.versions, q.sigs, q.sigsCert, q.modes>> = <<p.versions, p.sigs, p.sigsCert, p.modes>>

\* Options.IncludeSessionExtensions, as its comment says: "keeps extensions whose
\* presence depends on TLS session resumption (pre_shared_key, early_data)".
SessionExtensionsKept ==
    Whole /\ made.how = "adapt" /\ made.o.session =>
        \A t \in {ExtPreSharedKey, ExtEarlyData} : Contains(p.exts, t) => FindExtension(got.val, t) # None

\* The decoders of hello/ext.go, as their comment says, "parse the bodies of
\* well-known extensions" (DecodeCertCompression: "parses the compress_certificate
\* extension body"): a profile can be extracted from whatever the adapter sends.
SentExtracts == Whole /\ made.how = "adapt" => TLSProfile(got.val) # None

\* ToClientHello, as its comment says, "is the inverse direction of TLSProfile", with
\* empty bodies for the extensions "without dedicated payload fields" only: the
\* profile can be extracted again.
BuiltExtracts == Whole /\ made.how = "build" => TLSProfile(got.val) # None
=============================================================================
