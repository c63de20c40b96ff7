------------------------------ MODULE MCCodec ------------------------------
\* Instances of Codec: a static table of two entries, fields that match it wholly,
\* by name or not at all, and one request of every kind.
EXTENDS Codec

MCStatic == <<[name |-> ":method", value |-> 0], [name |-> "a", value |-> 0]>>
F(n, v, s) == [name |-> n, value |-> v, sens |-> s]
MCFields == {F(":method", 0, FALSE), F(":status", 2, FALSE), F("a", 0, TRUE), F("a", 2, FALSE), F("A", 0, FALSE),
             F("a", 1, FALSE), F("a", 6, FALSE)}
R(op, s, n, pad, dep, excl, weight) ==
    [op |-> op, s |-> s, n |-> n, pad |-> pad, dep |-> dep, excl |-> excl, weight |-> weight]
MCRequests == {
    R("data", 1, 3, -1, 0, TRUE, 0), R("data", 1, 0, 0, 0, FALSE, 0), R("data", 1, 2, 2, 0, TRUE, 0),
    R("data", 0, 2, -1, 0, FALSE, 0), R("data", 1, 1, 256, 0, FALSE, 0),
    R("settings", 0, 2, -1, 0, FALSE, 0), R("settingsAck", 0, 0, -1, 0, FALSE, 0), R("ping", 0, 0, -1, 0, TRUE, 0),
    R("goaway", 0, 1, -1, High + 3, FALSE, 0), R("windowUpdate", 0, High - 1, -1, 0, FALSE, 0),
    R("windowUpdate", 1, 0, -1, 0, FALSE, 0), R("windowUpdate", 1, High, -1, 0, FALSE, 0),
    R("priority", 1, 0, -1, 0, TRUE, 5), R("priority", 1, 0, -1, 3, FALSE, 5), R("priority", 3, 0, -1, High, FALSE, 5),
    R("rst", 1, 8, -1, 0, FALSE, 0), R("rst", High + 1, 8, -1, 0, FALSE, 0),
    R("push", 1, 0, 3, 2, FALSE, 0), R("push", 1, 0, -1, 0, FALSE, 0)}

X(t, s, len) == [Blank EXCEPT !.t = t, !.s = s, !.len = len]
MCRaw == {
    X("data", 0, 1), [X("data", 1, 0) EXCEPT !.padded = TRUE], [X("data", 1, 2) EXCEPT !.padded = TRUE, !.pad = 4],
    [X("settings", 0, 6) EXCEPT !.ack = TRUE], X("settings", 1, 0), X("settings", 0, 5), [X("settings", 0, 6) EXCEPT !.word = High],
    X("ping", 0, 7), X("ping", 1, 8), X("goaway", 1, 8), X("goaway", 0, 7), X("windowUpdate", 0, 3),
    X("windowUpdate", 0, 4), X("windowUpdate", 1, 4), X("headers", 0, 0), [X("headers", 3, 4) EXCEPT !.prio = TRUE],
    [X("headers", 3, 1) EXCEPT !.padded = TRUE, !.pad = 1, !.endH = TRUE], X("priority", 0, 5), X("priority", 1, 4),
    X("rst", 1, 3), X("rst", 0, 4), X("continuation", 3, 0), X("push", 0, 4), X("push", 1, 3),
    [X("push", 1, 6) EXCEPT !.padded = TRUE, !.pad = 3], X("unknown", 1, 7), X("data", 1, 300)}
H(pad, dep, excl, weight) == [pad |-> pad, prio |-> [dep |-> dep, excl |-> excl, weight |-> weight]]
MCHeaderParams == {H(-1, 0, FALSE, 0), H(1, 3, TRUE, 5)}
Prioritised == {H(-1, 0, TRUE, 255)}
NoRaw == {}
NoRequests == {}
=============================================================================
