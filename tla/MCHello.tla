------------------------------ MODULE MCHello ------------------------------
\* Instances of Hello with octets below 16.
EXTENDS Hello

Chrome == [EmptyProfile EXCEPT
    !.ciphers = <<12, 10>>, !.exts = <<0, 23, 43, 51, 10, 11, 13, 16, 60, 61, 41, 21>>,
    !.groups = <<GreaseMarker, 29, 23, 24>>, !.formats = <<0>>, !.versions = <<GreaseMarker, VersionTLS13, VersionTLS12>>,
    !.sigs = <<20, GreaseMarker, 5>>, !.extra = {Extension(61, <<1, 2>>)}]
Firefox == [EmptyProfile EXCEPT
    !.ciphers = <<12>>, !.exts = <<0, 10, 11, 28, 34, 45, 50, 49, 27>>, !.groups = <<24, 99>>, !.limit = 77,
    !.delegated = <<20>>, !.sigsCert = <<20>>, !.certComp = <<2, 1>>]
Captured == [EmptyProfile EXCEPT
    !.ciphers = <<GreaseMarker, 10>>, !.exts = <<GreaseMarker, 13, 21, 16, 45, 43, 42>>, !.sigs = <<5, 5>>,
    !.modes = <<1>>, !.versions = <<VersionTLS12>>, !.legacy = VersionTLS12]
Resumed == [EmptyProfile EXCEPT
    !.ciphers = <<204, GreaseMarker>>, !.exts = <<204, 13, 16, 43, 41>>, !.sigs = <<5>>, !.versions = <<204, VersionTLS13>>,
    !.extra = {Extension(41, <<6>>)}]
Old == [EmptyProfile EXCEPT !.ciphers = <<10, 12>>, !.legacy = VersionTLS10]
MCProfiles == {Chrome, Firefox, Captured, Resumed, Old, EmptyProfile}

H(v, sid, cs, exts) == [version |-> v, random |-> [i \in 1 .. RandomLen |-> 3], sid |-> sid, ciphers |-> cs, comp |-> <<0>>, exts |-> exts]
MCHellos == {
    H(VersionTLS12, <<>>, <<10>>, <<>>),
    H(VersionTLS10, <<1, 2>>, <<10, 12>>, <<Extension(10, <<0, 4, 0, 9, 1, 8>>), Extension(11, <<1, 0>>)>>),
    H(VersionTLS12, <<>>, <<10>>, <<Extension(10, <<0, 2, 0, 9>>), Extension(10, <<0, 2, 0, 8>>)>>),
    H(VersionTLS12, <<>>, <<10>>, <<Extension(10, <<0, 3, 0, 9>>), Extension(16, <<0, 1>>)>>),
    H(VersionTLS12, <<>>, <<10>>, <<Extension(60, [i \in 1 .. 240 |-> 1])>>),
    H(VersionTLS12, [i \in 1 .. 16 |-> 1], <<10>>, <<>>)}

MCOptions == {
    [grease |-> TRUE, alpn |-> <<<<8, 2>>, <<8, 1>>>>, keyshares |-> None, session |-> FALSE],
    [grease |-> TRUE, alpn |-> <<<<1, 15>>>>, keyshares |-> <<29>>, session |-> TRUE],
    [grease |-> FALSE, alpn |-> <<>>, keyshares |-> None, session |-> FALSE]}
MCEdits == {Extension(10, <<0, 2, 0, 9>>), Extension(13, <<0>>)}
=============================================================================
