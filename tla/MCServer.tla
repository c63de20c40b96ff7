------------------------------ MODULE MCServer ------------------------------
\* Instances of Server.  A scenario is a script of the client, with a choice of
\* frames for each turn, and the other events that may happen meanwhile.
EXTENDS Server

F(t, s) == [t |-> t, s |-> s, n |-> 0, pad |-> 0, end |-> FALSE, v |-> "ok"]
FV(t, s, v) == [F(t, s) EXCEPT !.v = v]
FN(t, s, n) == [F(t, s) EXCEPT !.n = n]
Settings == F("settings", 0)
Get(s) == [F("headers", s) EXCEPT !.end = TRUE]
Post(s) == F("headers", s)
Data(s, n, pad, end) == [F("data", s) EXCEPT !.n = n, !.pad = pad, !.end = end]

\* Requests, reset or refused, with a handler slot of one.
Requests == [script |-> <<{Settings}, {Get(1), FV("headers", 1, "head")}, {F("rst", 1), Get(3)}, {Get(3), F("rst", 3)}>>,
             events |-> {"noKeepAlive", "panic"}]
\* A request body: DATA against what the handler reads, closes or abandons.
Body == [script |-> <<{Settings}, {FV("headers", 1, "len"), Post(1)}, {Data(1, 1, 1, FALSE)},
                      {Data(1, 2, 0, TRUE), F("rst", 1)}>>,
         events |-> {"read", "closeBody"}]
Trailers == [script |-> <<{Settings}, {Post(1)}, {Get(1), Post(1), F("streamError", 1)}, {Get(1), Data(1, 1, 0, TRUE)}>>,
             events |-> {"eof"}]
\* What a client must not send, and GOAWAY.
Wrong == {Get(1), Post(1), FV("headers", 1, "bad"), Get(2), F("pushPromise", 0), F("tooLarge", 0), F("streamError", 1),
          F("goaway", 0), Data(1, 1, 0, FALSE), FN("windowUpdate", 1, 1), F("rst", 3), FV("priority", 1, "self"),
          F("priority", 1), FV("settings", 0, "ack"), F("ping", 0)}
Misuse == [script |-> <<{Settings, F("ping", 0)}, Wrong,
                        {Get(3), Data(1, 1, 1, FALSE), FN("data", 1, 4), FV("settings", 0, "ack"), F("rst", 1)}>>,
           events |-> {}]
\* Windows: the client opens and shrinks them while a response is sent.
Window(n) == [FN("settings", 0, n) EXCEPT !.v = "window"]
Windows == [script |-> <<{Settings}, {Get(1)},
                         {FN("windowUpdate", 0, 2), FN("windowUpdate", 1, 1), FN("windowUpdate", 1, 5), FN("windowUpdate", 0, 5)},
                         {Window(0), Window(5)}>>,
            events |-> {"data", "trailers"}]
\* A push, and a client that turns pushes off.
Pushes == [script |-> <<{Settings}, {Get(1)}, {FV("settings", 0, "noPush"), F("rst", 2)}>>,
           events |-> {"push"}]
\* Shutdown while requests arrive; h2c upgrade; the client leaves.
Shutdown == [script |-> <<{Settings}, {Get(1), Get(3)}>>, events |-> {"graceful", "idle", "settingsTimer"}]
Upgrade == [script |-> <<{Settings}, {Get(3), F("rst", 1)}>>, events |-> {"upgrade", "eof"}]
\* Deadlines of a stream, and the PING timer.
Reading == [script |-> <<{Settings}, {Post(1)}, {Data(1, 1, 0, TRUE)}>>, events |-> {"readTimeout", "read", "continue", "eof"}]
Pinging == [script |-> <<{Settings}, {Get(1), FV("ping", 0, "ack")}>>, events |-> {"writeTimeout", "readIdle", "pingTimeout"}]
\* A slow peer: the write buffer is full and control frames pile up.
Slow == [script |-> <<{Settings}, {Post(1)}, {F("ping", 0), Data(1, 2, 0, FALSE)},
                      {F("ping", 0), F("rst", 1), F("streamError", 1)}>>,
         events |-> {"fullBuffer", "panic"}]

MCScenarios ==
    {Requests, Body, Trailers, Misuse, Windows, Pushes, Shutdown, Upgrade, Reading, Pinging, Slow}
SlowOnly == {Slow}
=============================================================================
