------------------------------- MODULE Codec -------------------------------
(***************************************************************************)
(* What one peer writes and the other reads: the HPACK encoder and decoder *)
(* (src/http2/hpack), the Framer (src/http2/frame.go) and the splitting of *)
(* header blocks into HEADERS and CONTINUATION frames (src/http2/write.go).*)
(*                                                                         *)
(* A header block is a sequence of representations, not of octets.  A      *)
(* literal takes two units of the wire, anything else one, so that a block *)
(* may be cut in the middle of a literal.  A value is a number, which is   *)
(* also its length.  A frame carries the request it was written for in     *)
(* req, for the properties only.                                           *)
(***************************************************************************)
EXTENDS Integers, Sequences, FiniteSets, SequencesExt

CONSTANTS
    None,
    RequestPseudo, ResponsePseudo, Regular, BadNames,   \* disjoint sets of names
    Values, BadValues,
    StaticTable,        \* sequence of [name, value]
    Overhead,           \* 32: what an entry costs besides its strings
    InitialSize,        \* initialHeaderTableSize, also the maxSizeLimit of an encoder
    TableSizes,         \* sizes the peer may ask the encoder for
    MaxList,            \* maxHeaderListSize of the reader
    MaxFrag,            \* maxFrameSize of the writer
    MaxRead,            \* maxReadSize of the reader
    High,               \* 2^31: the reserved bit of a word
    Requests,           \* frames other than header blocks to be written
    HeaderParams,       \* [pad, prio] of a HEADERS frame: the Framer's PadLength, -1 for 0, and
                        \* its Priority, from Fingerprint.HeaderPriority
    Raw,                \* frames another implementation may put in between
    Fields,             \* fields the writer encodes
    MaxBlocks, MaxFields, MaxEvents     \* bounds of a behaviour

Pseudo == RequestPseudo \cup ResponsePseudo
Names == Pseudo \cup Regular \cup BadNames

ASSUME ValuesAssumption == Values \subseteq Nat /\ BadValues \subseteq Values
ASSUME FieldsAssumption == Fields \subseteq [name : Names, value : Values, sens : BOOLEAN]
ASSUME SizesAssumption == TableSizes \cup {InitialSize} \subseteq Nat
ASSUME BoundsAssumption == {Overhead, MaxFrag, High} \subseteq Nat \ {0} /\ {MaxList, MaxRead, MaxBlocks, MaxFields, MaxEvents} \subseteq Nat
ASSUME ParamsAssumption ==
    HeaderParams \subseteq [pad : {-1} \cup 1 .. 255, prio : [dep : 0 .. High - 1, excl : BOOLEAN, weight : 0 .. 255]]
ASSUME StaticAssumption == \A i \in DOMAIN StaticTable : StaticTable[i] \in [name : Names, value : Values]

VARIABLES
    enc,    \* Encoder: tab, min (None for uint32Max), update
    block,  \* [fields, reps]: the block being encoded
    wire,   \* frames written and not yet read
    rd,     \* Framer and Decoder of the reader
    got,    \* result of ReadFrame, until the writer goes on
    done    \* counters for the bounds

vars == <<enc, block, wire, rd, got, done>>

-----------------------------------------------------------------------------
(***************************************************************************)
(* Tables                                                                  *)
(***************************************************************************)
Result(kind, what, req) == [kind |-> kind, what |-> what, req |-> req]
Nothing == Result("none", None, None)

Size(f) == f.value + Overhead
Pair(f) == <<f.name, f.value>>

EmptyTable(max) == [ents |-> <<>>, evicted |-> 0, size |-> 0, max |-> max,
                    byName |-> [n \in Names |-> 0], byPair |-> [p \in Names \X Values |-> 0]]

addEntry(t, f) ==
    LET id == Len(t.ents) + t.evicted + 1 IN
    [t EXCEPT !.ents = Append(@, [name |-> f.name, value |-> f.value]),
              !.byName[f.name] = id, !.byPair[Pair(f)] = id]

\* Forgets an id only if no newer entry has taken its place in the map.
evictOldestMutant(t, n) ==
    [t EXCEPT !.byName = [x \in Names |-> IF \E k \in 1 .. n : t.ents[k].name = x THEN 0 ELSE @[x]],
              !.byPair = [p \in Names \X Values |->
                            IF \E k \in 1 .. n : Pair(t.ents[k]) = p /\ @[p] = t.evicted + k THEN 0 ELSE @[p]],
              !.ents = SubSeq(@, n + 1, Len(@)),
              !.evicted = @ + n]
evictOldest(t, n) ==
    [t EXCEPT !.byName = [x \in Names |->
                            IF \E k \in 1 .. n : t.ents[k].name = x /\ @[x] = t.evicted + k THEN 0 ELSE @[x]],
              !.byPair = [p \in Names \X Values |->
                            IF \E k \in 1 .. n : Pair(t.ents[k]) = p /\ @[p] = t.evicted + k THEN 0 ELSE @[p]],
              !.ents = SubSeq(@, n + 1, Len(@)),
              !.evicted = @ + n]

SizeOf(ents) == FoldLeft(LAMBDA acc, f : acc + Size(f), 0, ents)

\* As few of the oldest entries as make the rest fit.
evict(t) ==
    LET n == CHOOSE n \in 0 .. Len(t.ents) :
                /\ t.size - SizeOf(SubSeq(t.ents, 1, n)) <= t.max
                /\ \A k \in 0 .. n - 1 : t.size - SizeOf(SubSeq(t.ents, 1, k)) > t.max
    IN [evictOldest(t, n) EXCEPT !.size = t.size - SizeOf(SubSeq(t.ents, 1, n))]

setMaxSize(t, v) == evict([t EXCEPT !.max = v])
add(t, f) == evict([addEntry(t, f) EXCEPT !.size = @ + Size(f)])

\* HPACK numbers the newest entry of a dynamic table 1.
idToIndex(t, id) == Len(t.ents) - (id - t.evicted - 1)

\* search: <<index, whether the value matches too>>
search(t, f) ==
    CASE ~f.sens /\ t.byPair[Pair(f)] # 0 -> <<idToIndex(t, t.byPair[Pair(f)]), TRUE>>
      [] (f.sens \/ t.byPair[Pair(f)] = 0) /\ t.byName[f.name] # 0 -> <<idToIndex(t, t.byName[f.name]), FALSE>>
      [] OTHER -> <<0, FALSE>>

\* The static table is never evicted from; its maps hold the last entry of a name.
searchStatic(f) ==
    LET last(S) == CHOOSE i \in S : \A j \in S : j <= i
        same == {i \in DOMAIN StaticTable : StaticTable[i].name = f.name}
        exact == {i \in same : StaticTable[i].value = f.value} IN
    CASE ~f.sens /\ exact # {} -> <<last(exact), TRUE>>
      [] (f.sens \/ exact = {}) /\ same # {} -> <<last(same), FALSE>>
      [] OTHER -> <<0, FALSE>>

\* Decoder.at
at(t, i) ==
    CASE i \in DOMAIN StaticTable -> StaticTable[i]
      [] i > Len(StaticTable) /\ i <= Len(StaticTable) + Len(t.ents) ->
            t.ents[Len(t.ents) - (i - Len(StaticTable)) + 1]
      [] OTHER -> None

-----------------------------------------------------------------------------
(***************************************************************************)
(* Encoder.  Representations: <<"size", v>>, <<"indexed", i>> and           *)
(* <<"literal", i, field, mode>>, where i = 0 stands for a new name.        *)
(***************************************************************************)
searchTable(f) ==
    LET s == searchStatic(f)
        d == search(enc.tab, f) IN
    IF ~s[2] /\ (d[2] \/ (s[1] = 0 /\ d[1] # 0)) THEN <<d[1] + Len(StaticTable), d[2]>> ELSE s

shouldIndex(f) == ~f.sens /\ Size(f) <= enc.tab.max
encodeTypeByte(indexing, sens) == CASE sens -> "never" [] ~sens /\ indexing -> "inc" [] OTHER -> "none"

\* The size update WriteField puts in front: the smallest size since the last
\* update, if it was smaller, and the size now.
SizeUpdateMutant == IF enc.update THEN <<<<"size", enc.tab.max>>>> ELSE <<>>
SizeUpdate ==
    IF ~enc.update THEN <<>>
    ELSE (IF enc.min # None /\ enc.min < enc.tab.max THEN <<<<"size", enc.min>>>> ELSE <<>>)
         \o <<<<"size", enc.tab.max>>>>

WriteField(f) ==
    LET s == searchTable(f)
        indexing == shouldIndex(f) IN
    /\ done.blocks < MaxBlocks /\ Len(block.fields) < MaxFields /\ wire = <<>> /\ rd.err = "none"
    /\ block' = [fields |-> Append(block.fields, f),
                 reps |-> block.reps \o SizeUpdate \o
                          (IF s[2] THEN <<<<"indexed", s[1]>>>>
                           ELSE <<<<"literal", s[1], f, encodeTypeByte(indexing, f.sens)>>>>)]
    /\ enc' = [tab |-> IF ~s[2] /\ indexing THEN add(enc.tab, f) ELSE enc.tab,
               min |-> IF enc.update THEN None ELSE enc.min, update |-> FALSE]
    /\ got' = Nothing
    /\ UNCHANGED <<wire, rd, done>>

\* The peer's SETTINGS_HEADER_TABLE_SIZE, between two blocks, cut to maxSizeLimit.
SetMaxDynamicTableSize(size) ==
    LET v == IF size > InitialSize THEN InitialSize ELSE size IN
    /\ done.events < MaxEvents /\ block.fields = <<>> /\ wire = <<>> /\ rd.err = "none"
    /\ enc' = [tab |-> setMaxSize(enc.tab, v), update |-> TRUE,
               min |-> IF enc.min = None \/ v < enc.min THEN v ELSE enc.min]
    /\ done' = [done EXCEPT !.events = @ + 1]
    /\ got' = Nothing
    /\ UNCHANGED <<block, wire, rd>>

-----------------------------------------------------------------------------
(***************************************************************************)
(* Frames.  A request is [op, s, n, pad, dep, excl, weight]; pad is -1 for *)
(* no padding field.  On the wire, word is the 32-bit word a frame carries.*)
(***************************************************************************)
validStreamIDOrZero(s) == s < High
validStreamID(s) == s # 0 /\ validStreamIDOrZero(s)

Blank == [t |-> "data", s |-> 0, len |-> 0, padded |-> FALSE, pad |-> 0, prio |-> FALSE, word |-> 0, weight |-> 0,
          ack |-> FALSE, endH |-> FALSE, endS |-> FALSE, frag |-> <<>>, req |-> None]

Padded(f, pad) == [f EXCEPT !.padded = (pad >= 0), !.pad = IF pad < 0 THEN 0 ELSE pad,
                            !.len = @ + (IF pad < 0 THEN 0 ELSE pad + 1)]
PrioWord(dep, excl) == dep + (IF excl THEN High ELSE 0)
Priority(f) == [dep |-> f.word % High, excl |-> f.word % High # f.word, weight |-> f.weight]

\* The Write methods: what they refuse ...
Refused(r) ==
    \/ r.op \in {"data", "priority", "rst", "push"} /\ ~validStreamID(r.s)
    \/ r.op = "data" /\ r.pad > 255
    \/ r.op = "priority" /\ ~validStreamIDOrZero(r.dep)
    \/ r.op = "windowUpdate" /\ ~(r.n \in 1 .. High - 1)
    \/ r.op = "push" /\ ~validStreamID(r.dep)

\* ... and what they put on the wire.
WriteData(r) == Padded([Blank EXCEPT !.s = r.s, !.len = r.n, !.endS = r.excl], r.pad)
WriteSettings(r) == [Blank EXCEPT !.t = "settings", !.len = 6 * r.n]
WriteSettingsAck == [Blank EXCEPT !.t = "settings", !.ack = TRUE]
WritePing(r) == [Blank EXCEPT !.t = "ping", !.len = 8, !.ack = r.excl]
WriteGoAway(r) == [Blank EXCEPT !.t = "goaway", !.len = 8 + r.n, !.word = r.dep % High]
WriteWindowUpdate(r) == [Blank EXCEPT !.t = "windowUpdate", !.s = r.s, !.len = 4, !.word = r.n]
WritePriorityMutant(r) == [Blank EXCEPT !.t = "priority", !.s = r.s, !.len = 5, !.word = r.dep, !.weight = r.weight]
WritePriority(r) ==
    [Blank EXCEPT !.t = "priority", !.s = r.s, !.len = 5, !.word = PrioWord(r.dep, r.excl), !.weight = r.weight]
WriteRSTStream(r) == [Blank EXCEPT !.t = "rst", !.s = r.s, !.len = 4, !.word = r.n]
WritePushPromise(r) ==
    Padded([Blank EXCEPT !.t = "push", !.s = r.s, !.len = 4, !.word = r.dep, !.endH = TRUE], r.pad)

Written(r) ==
    CASE r.op = "data" -> WriteData(r)
      [] r.op = "settings" -> WriteSettings(r)
      [] r.op = "settingsAck" -> WriteSettingsAck
      [] r.op = "ping" -> WritePing(r)
      [] r.op = "goaway" -> WriteGoAway(r)
      [] r.op = "windowUpdate" -> WriteWindowUpdate(r)
      [] r.op = "priority" -> WritePriority(r)
      [] r.op = "rst" -> WriteRSTStream(r)
      [] r.op = "push" -> WritePushPromise(r)

Write(r) ==
    /\ wire = <<>> /\ block.fields = <<>> /\ rd.err = "none" /\ got.req # r
    /\ IF Refused(r) THEN wire' = wire /\ got' = Result("refused", None, r)
       ELSE wire' = <<[Written(r) EXCEPT !.req = r]>> /\ UNCHANGED got
    /\ UNCHANGED <<enc, block, rd, done>>

\* splitHeaderBlock and the frames of writeHeaderBlock.
Octets(rep) == IF rep[1] = "literal" THEN <<<<rep, FALSE>>, <<rep, TRUE>>>> ELSE <<<<rep, TRUE>>>>
Units(reps) == FoldLeft(LAMBDA acc, rep : acc \o Octets(rep), <<>>, reps)
NumFrags(u) == (Len(u) + MaxFrag - 1) \div MaxFrag
splitHeaderBlock(u) ==
    [i \in 1 .. NumFrags(u) |->
        SubSeq(u, (i - 1) * MaxFrag + 1, IF i * MaxFrag < Len(u) THEN i * MaxFrag ELSE Len(u))]

\* The first frame of a block; a priority that IsZero is left out.
WriteHeaders(s, frag, h) ==
    LET f == [Blank EXCEPT !.t = "headers", !.s = s, !.frag = frag, !.len = Len(frag)]
        zero == [dep |-> 0, excl |-> FALSE, weight |-> 0] IN
    Padded(IF h.prio = zero THEN f
           ELSE [f EXCEPT !.prio = TRUE, !.word = PrioWord(h.prio.dep, h.prio.excl), !.weight = h.prio.weight, !.len = @ + 5],
           h.pad)

writeHeaders(s, h) ==
    LET frags == splitHeaderBlock(Units(block.reps)) IN
    /\ block.fields # <<>>
    /\ wire' = [i \in DOMAIN frags |->
                  IF i = 1 THEN [WriteHeaders(s, frags[1], h) EXCEPT
                                    !.endH = (Len(frags) = 1),
                                    !.req = [op |-> "block", fields |-> block.fields, prio |-> h.prio]]
                  ELSE [Blank EXCEPT !.t = "continuation", !.s = s, !.frag = frags[i], !.len = Len(frags[i]),
                                     !.endH = (i = Len(frags))]]
    /\ block' = [fields |-> <<>>, reps |-> <<>>]
    /\ done' = [done EXCEPT !.blocks = @ + 1]
    /\ UNCHANGED <<enc, rd, got>>

\* WriteRawFrame, used by another implementation between two frames of ours (once,
\* and in behaviours without a resize, to bound the state space).
WriteRawFrame(f) ==
    /\ ~done.raw /\ done.events = 0 /\ rd.err = "none"
    /\ wire' = <<f>> \o wire
    /\ done' = [done EXCEPT !.raw = TRUE, !.events = MaxEvents]
    /\ UNCHANGED <<enc, block, rd, got>>

-----------------------------------------------------------------------------
(***************************************************************************)
(* Reading                                                                 *)
(***************************************************************************)
\* The parse functions: "ok", "stream" or the connection error.  w is the least
\* payload the fixed fields need.
Fixed(f) == (IF f.padded THEN 1 ELSE 0) + (IF f.prio THEN 5 ELSE 0)
parseDataFrame(f) ==
    CASE f.s = 0 -> "protocol" [] f.s # 0 /\ f.len < Fixed(f) -> "eof"
      [] f.s # 0 /\ f.len >= Fixed(f) /\ f.pad > f.len - Fixed(f) -> "protocol" [] OTHER -> "ok"
parseSettingsFrame(f) ==
    CASE f.ack /\ f.len > 0 -> "frameSize" [] ~(f.ack /\ f.len > 0) /\ f.s # 0 -> "protocol"
      [] ~f.ack /\ f.s = 0 /\ f.len % 6 # 0 -> "frameSize"
      [] ~f.ack /\ f.s = 0 /\ f.len % 6 = 0 /\ f.word >= High -> "flowControl" [] OTHER -> "ok"
parsePingFrame(f) == CASE f.len # 8 -> "frameSize" [] f.len = 8 /\ f.s # 0 -> "protocol" [] OTHER -> "ok"
parseGoAwayFrame(f) == CASE f.s # 0 -> "protocol" [] f.s = 0 /\ f.len < 8 -> "frameSize" [] OTHER -> "ok"
parseWindowUpdateFrame(f) ==
    CASE f.len # 4 -> "frameSize"
      [] f.len = 4 /\ f.word % High = 0 -> IF f.s = 0 THEN "protocol" ELSE "stream" [] OTHER -> "ok"
parseHeadersFrame(f) ==
    CASE f.s = 0 -> "protocol" [] f.s # 0 /\ f.len < Fixed(f) -> "eof"
      [] f.s # 0 /\ f.len >= Fixed(f) /\ f.len - Fixed(f) - f.pad < 0 -> "stream" [] OTHER -> "ok"
parsePriorityFrame(f) == CASE f.s = 0 -> "protocol" [] f.s # 0 /\ f.len # 5 -> "frameSize" [] OTHER -> "ok"
parseRSTStreamFrame(f) == CASE f.len # 4 -> "frameSize" [] f.len = 4 /\ f.s = 0 -> "protocol" [] OTHER -> "ok"
parseContinuationFrame(f) == IF f.s = 0 THEN "protocol" ELSE "ok"
parsePushPromise(f) ==
    CASE f.s = 0 -> "protocol" [] f.s # 0 /\ f.len < Fixed(f) + 4 -> "eof"
      [] f.s # 0 /\ f.len >= Fixed(f) + 4 /\ f.pad > f.len - Fixed(f) - 4 -> "protocol" [] OTHER -> "ok"

typeFrameParser(f) ==
    CASE f.t = "data" -> parseDataFrame(f)
      [] f.t = "settings" -> parseSettingsFrame(f)
      [] f.t = "ping" -> parsePingFrame(f)
      [] f.t = "goaway" -> parseGoAwayFrame(f)
      [] f.t = "windowUpdate" -> parseWindowUpdateFrame(f)
      [] f.t = "headers" -> parseHeadersFrame(f)
      [] f.t = "priority" -> parsePriorityFrame(f)
      [] f.t = "rst" -> parseRSTStreamFrame(f)
      [] f.t = "continuation" -> parseContinuationFrame(f)
      [] f.t = "push" -> parsePushPromise(f)
      [] OTHER -> "ok"

\* What the reader's caller sees of a frame.
Decoded(f) ==
    CASE f.t = "data" -> [s |-> f.s, n |-> f.len - Fixed(f) - f.pad, excl |-> f.endS]
      [] f.t = "settings" -> [n |-> f.len \div 6, ack |-> f.ack]
      [] f.t = "ping" -> [ack |-> f.ack]
      [] f.t = "goaway" -> [last |-> f.word % High, n |-> f.len - 8]
      [] f.t = "windowUpdate" -> [s |-> f.s, n |-> f.word % High]
      [] f.t = "priority" -> [s |-> f.s, prio |-> Priority(f)]
      [] f.t = "rst" -> [s |-> f.s, n |-> f.word]
      [] f.t = "push" -> [s |-> f.s, dep |-> f.word % High]
      [] OTHER -> None

\* checkFrameOrder: header blocks are contiguous.
OrderError(f) ==
    IF rd.lastHeader # 0 THEN f.t # "continuation" \/ f.s # rd.lastHeader ELSE f.t = "continuation"
LastHeaderMutant(f) == IF f.t = "headers" THEN (IF f.endH THEN 0 ELSE f.s) ELSE rd.lastHeader
LastHeader(f) == IF f.t \in {"headers", "continuation"} THEN (IF f.endH THEN 0 ELSE f.s) ELSE rd.lastHeader

\* The emit function of readMetaFrame.
Emit(m, f) ==
    LET bad == \/ f.value \in BadValues
               \/ f.name \in Pseudo /\ m.sawRegular
               \/ f.name \in BadNames
        seen == [m EXCEPT !.sawRegular = @ \/ f.name \notin Pseudo] IN
    CASE ~m.emit -> m
      [] m.emit /\ bad -> [seen EXCEPT !.invalid = TRUE, !.emit = FALSE]
      [] m.emit /\ ~bad /\ Size(f) > m.remain -> [seen EXCEPT !.truncated = TRUE, !.emit = FALSE, !.remain = 0]
      [] OTHER -> [seen EXCEPT !.remain = @ - Size(f), !.fields = Append(@, f)]

Emitted(d, f) == IF f.value > MaxList THEN [d EXCEPT !.err = "string"] ELSE [d EXCEPT !.mh = Emit(@, f)]

parseFieldIndexed(d, i) ==
    LET f == at(d.tab, i) IN
    IF f = None THEN [d EXCEPT !.err = "index"]
    ELSE Emitted(d, [name |-> f.name, value |-> f.value, sens |-> FALSE])

\* A string that is neither emitted nor indexed is not decoded.
parseFieldLiteral(d, i, lit, mode) ==
    LET name == IF i = 0 THEN lit.name ELSE at(d.tab, i).name
        f == [name |-> name, value |-> lit.value, sens |-> FALSE] IN
    CASE i # 0 /\ at(d.tab, i) = None -> [d EXCEPT !.err = "index"]
      [] (i = 0 \/ at(d.tab, i) # None) /\ lit.value > MaxList -> [d EXCEPT !.err = "string"]
      [] OTHER -> Emitted([d EXCEPT !.tab = IF mode = "inc" THEN add(@, f) ELSE @],
                          [f EXCEPT !.sens = (mode = "never")])

parseDynamicTableSizeUpdate(d, v) ==
    IF (~d.first /\ d.tab.size > 0) \/ v > InitialSize THEN [d EXCEPT !.err = "update"]
    ELSE [d EXCEPT !.tab = setMaxSize(@, v)]

parseHeaderFieldRepr(d, rep) ==
    [ (CASE rep[1] = "indexed" -> parseFieldIndexed(d, rep[2])
        [] rep[1] = "literal" -> parseFieldLiteral(d, rep[2], rep[3], rep[4])
        [] rep[1] = "size" -> parseDynamicTableSizeUpdate(d, rep[2])) EXCEPT !.first = FALSE]

\* Decoder.Write: what is incomplete is saved for the next fragment.
DecoderWrite(d, frag) ==
    FoldLeft(LAMBDA acc, o : IF acc.err # "none" THEN acc
                             ELSE IF o[2] THEN [parseHeaderFieldRepr(acc, o[1]) EXCEPT !.saved = FALSE]
                             ELSE [acc EXCEPT !.saved = TRUE],
             d, frag)

NewMeta(f) == [fields |-> <<>>, remain |-> MaxList, sawRegular |-> FALSE, invalid |-> FALSE,
               truncated |-> FALSE, emit |-> TRUE, prio |-> Priority(f), req |-> f.req]

PseudoFields(fs) == SelectSeq(fs, LAMBDA f : f.name \in Pseudo)
checkPseudos(fs) ==
    LET p == PseudoFields(fs)
        names == {p[i].name : i \in DOMAIN p} IN
    Cardinality(names) = Len(p) /\ (names \cap RequestPseudo = {} \/ names \cap ResponsePseudo = {})

Fail(kind, req) == rd' = [rd EXCEPT !.err = kind, !.mh = None] /\ got' = Result(kind, None, req)

\* One fragment of readMetaFrame; the last one ends the block.
Fragment(m, f) ==
    LET d == DecoderWrite([tab |-> rd.tab, first |-> rd.first, saved |-> rd.saved, err |-> "none", mh |-> m], f.frag)
        next == [rd EXCEPT !.lastHeader = LastHeader(f), !.tab = d.tab, !.first = d.first, !.saved = d.saved] IN
    IF Len(f.frag) > 2 * m.remain \/ m.invalid THEN Fail("protocol", m.req)
    ELSE IF d.err # "none" THEN Fail(IF d.err = "update" THEN "update" ELSE "compression", m.req)
    ELSE IF ~f.endH THEN rd' = [next EXCEPT !.mh = d.mh] /\ UNCHANGED got
    ELSE IF d.saved THEN Fail("compression", m.req)
    ELSE /\ rd' = [next EXCEPT !.mh = None, !.first = TRUE]
         /\ got' = IF d.mh.invalid \/ ~checkPseudos(d.mh.fields) THEN Result("stream", d.mh, m.req)
                   ELSE Result("headers", d.mh, m.req)

ReadFrame ==
    LET f == Head(wire) IN
    /\ wire # <<>> /\ rd.err = "none"
    /\ wire' = Tail(wire)
    /\ IF f.len > MaxRead THEN Fail("tooLarge", f.req)
       ELSE IF OrderError(f) THEN Fail("protocol", f.req)
       ELSE IF typeFrameParser(f) \notin {"ok", "stream"} THEN Fail(typeFrameParser(f), f.req)
       ELSE IF typeFrameParser(f) = "stream"
       THEN rd' = [rd EXCEPT !.lastHeader = LastHeader(f)] /\ got' = Result("stream", None, f.req)
       ELSE IF f.t = "headers" THEN Fragment(NewMeta(f), f)
       ELSE IF f.t = "continuation" /\ rd.mh # None THEN Fragment(rd.mh, f)
       ELSE rd' = [rd EXCEPT !.lastHeader = LastHeader(f)] /\ got' = Result("frame", Decoded(f), f.req)
    /\ UNCHANGED <<enc, block, done>>

-----------------------------------------------------------------------------
Init ==
    /\ enc = [tab |-> EmptyTable(InitialSize), min |-> None, update |-> FALSE]
    /\ block = [fields |-> <<>>, reps |-> <<>>]
    /\ wire = <<>>
    /\ rd = [tab |-> EmptyTable(InitialSize), first |-> TRUE, saved |-> FALSE, lastHeader |-> 0, mh |-> None, err |-> "none"]
    /\ got = Nothing
    /\ done = [blocks |-> 0, events |-> 0, raw |-> FALSE]

Next ==
    \/ \E f \in Fields : WriteField(f)
    \/ \E v \in TableSizes : SetMaxDynamicTableSize(v)
    \/ \E h \in HeaderParams : writeHeaders(1, h)
    \/ \E r \in Requests : Write(r)
    \/ \E f \in Raw : WriteRawFrame(f)
    \/ ReadFrame

Spec == Init /\ [][Next]_vars

-----------------------------------------------------------------------------
Idle == wire = <<>> /\ block.fields = <<>> /\ rd.mh = None /\ rd.err = "none"

\* Between header blocks the decoder's dynamic table is the encoder's, entry by
\* entry, also after a block whose fields were refused or cut off (readMetaFrame,
\* "The hpack decoder state is still valid").
TablesAgree ==
    Idle /\ ~enc.update => rd.tab.ents = enc.tab.ents /\ rd.tab.max = enc.tab.max /\ ~rd.saved /\ rd.first

\* The maps of a table lead to its newest entry with a name, and with a name and a
\* value, and to nothing when there is none (addEntry, evictOldest, search).
Newest(t, P(_)) ==
    LET S == {i \in DOMAIN t.ents : P(t.ents[i])} IN
    IF S = {} THEN 0 ELSE t.evicted + (CHOOSE i \in S : \A j \in S : j <= i)
SearchSound ==
    \A t \in {enc.tab, rd.tab} :
        /\ \A n \in Names : t.byName[n] = Newest(t, LAMBDA e : e.name = n)
        /\ \A p \in Names \X Values : t.byPair[p] = Newest(t, LAMBDA e : Pair(e) = p)
        /\ t.size = SizeOf(t.ents) /\ t.size <= t.max

\* What was written is what is read: the fields of a block in order, all of them or,
\* if the list is too large, its head, and the priority of its HEADERS frame; and
\* every other frame (Write..., parse...).
Meaning(r) ==
    CASE r.op = "data" -> [s |-> r.s, n |-> r.n, excl |-> r.excl]
      [] r.op = "settings" -> [n |-> r.n, ack |-> FALSE]
      [] r.op = "settingsAck" -> [n |-> 0, ack |-> TRUE]
      [] r.op = "ping" -> [ack |-> r.excl]
      [] r.op = "goaway" -> [last |-> r.dep % High, n |-> r.n]
      [] r.op = "windowUpdate" -> [s |-> r.s, n |-> r.n]
      [] r.op = "priority" -> [s |-> r.s, prio |-> [dep |-> r.dep, excl |-> r.excl, weight |-> r.weight]]
      [] r.op = "rst" -> [s |-> r.s, n |-> r.n]
      [] r.op = "push" -> [s |-> r.s, dep |-> r.dep]
ReadAsWritten ==
    /\ got.kind = "headers" /\ got.req # None =>
         /\ IsPrefix(got.what.fields, got.req.fields)
         /\ got.what.truncated <=> got.what.fields # got.req.fields
         /\ got.what.prio = got.req.prio
    /\ got.kind = "frame" /\ got.req # None => got.what = Meaning(got.req)

\* Of what the writer wrote, the reader rejects three things only: a header list above
\* MaxList, a block with a field it refuses (both at the next fragment of the block),
\* and, against UpdatesAccepted, the second of two table size updates in front of a
\* block, if entries survive the first (hpack.go:415).  Any other connection error is
\* due to a frame of another implementation, and a stream error to a refused field or
\* to the pseudo fields (ReadFrame, readMetaFrame).
Malformed(fs) ==
    \E i \in DOMAIN fs : \/ fs[i].value \in BadValues \/ fs[i].name \in BadNames
                         \/ fs[i].name \in Pseudo /\ \E j \in 1 .. i - 1 : fs[j].name \notin Pseudo
Block == got.req # None /\ got.req.op = "block"
NoFalseError ==
    /\ rd.err = "update" => done.events > 1 /\ ~done.raw /\ rd.tab.size > 0
    /\ rd.err \notin {"none", "update"} =>
        \/ got.req = None /\ done.raw
        \/ Block /\ rd.err = "protocol" /\ (SizeOf(got.req.fields) > MaxList \/ Malformed(got.req.fields))
        \/ Block /\ rd.err = "compression" /\ \E i \in DOMAIN got.req.fields : got.req.fields[i].value > MaxList
    /\ got.kind = "stream" /\ Block => Malformed(got.req.fields) \/ ~checkPseudos(got.req.fields)

\* RFC 7541, 4.2, as parseDynamicTableSizeUpdate quotes it: a size update at the
\* beginning of a header block is accepted.
UpdatesAccepted == rd.err # "update"

\* A peer never sends a frame above the SETTINGS_MAX_FRAME_SIZE of the other, "the size
\* in bytes of the largest frame payload that the sender is willing to receive"
\* (Transport.MaxReadFrameSize), when it cuts its blocks to that size
\* (ClientConn.writeHeaders).
FramesFit == rd.err # "tooLarge"
=============================================================================
