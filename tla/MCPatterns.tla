---------------------------- MODULE MCPatterns ----------------------------
EXTENDS Patterns

Of(type) == [type |-> type, name |-> Nil, strict |-> TRUE, correlate |-> FALSE, mandatory |-> FALSE,
             handover |-> FALSE, raw |-> FALSE, net |-> FALSE, probe |-> FALSE, connect_id |-> Nil,
             prefix |-> <<>>, rude |-> FALSE, msgs |-> 1]
Twice(type) == [Of(type) EXCEPT !.msgs = 2]
Alice == [Of("dealer") EXCEPT !.name = Named(1)]
Delimited == [Of("dealer") EXCEPT !.prefix = <<Frame(Nil, TRUE)>>]
Udp == [Twice("raw") EXCEPT !.prefix = <<Frame(Named(9), TRUE)>>]

\* Sockets x and y connect to z, or z connects to them.
In(x, y, z) == [sockets |-> <<x, y, z>>, conns |-> <<<<1, 3>>, <<2, 3>>>>, hwm |-> 1, parts |-> 1,
                closes |-> 0, mid |-> FALSE, late |-> FALSE, poll |-> FALSE, first |-> 7, calm |-> FALSE]
Out(x, y, z) == [In(x, y, z) EXCEPT !.conns = <<<<3, 1>>, <<3, 2>>>>]
One(x, y) == [In(x, y, y) EXCEPT !.sockets = <<x, y>>, !.conns = <<<<1, 2>>>>]

Sample == <<
    [Out(Of("rep"), Of("rep"), Twice("req")) EXCEPT !.closes = 1, !.late = TRUE, !.poll = TRUE],
    [Out(Of("rep"), Of("rep"), [Twice("req") EXCEPT !.strict = FALSE, !.correlate = TRUE]) EXCEPT !.closes = 1],
    [Out(Of("rep"), Of("rep"), [Twice("req") EXCEPT !.correlate = TRUE]) EXCEPT !.parts = 2, !.calm = TRUE],
    [In(Delimited, Delimited, Of("rep")) EXCEPT !.parts = 2, !.calm = TRUE, !.late = TRUE],
    In(Delimited, [Delimited EXCEPT !.rude = TRUE, !.msgs = 2], Of("rep")),
    [In(Alice, Of("dealer"), [Of("router") EXCEPT !.mandatory = TRUE]) EXCEPT !.parts = 2, !.calm = TRUE],
    [One(Twice("dealer"), [Of("router") EXCEPT !.mandatory = TRUE])
        EXCEPT !.closes = 1, !.parts = 2, !.late = TRUE, !.poll = TRUE],
    [In(Alice, Alice, [Of("router") EXCEPT !.handover = TRUE]) EXCEPT !.parts = 2, !.late = TRUE],
    [In(Alice, Alice, Of("router")) EXCEPT !.late = TRUE],
    [In([Of("req") EXCEPT !.net = TRUE], [Of("dealer") EXCEPT !.probe = TRUE], [Of("router") EXCEPT !.rude = TRUE])
        EXCEPT !.late = TRUE],
    [Out(Of("dealer"), Of("dealer"), [Of("router") EXCEPT !.connect_id = Named(5), !.probe = TRUE]) EXCEPT !.late = TRUE],
    [In(Of("raw"), Of("raw"), Of("stream")) EXCEPT !.calm = TRUE, !.late = TRUE],
    [One(Of("stream"), Twice("raw")) EXCEPT !.sockets[1].connect_id = Named(5), !.closes = 1, !.poll = TRUE],
    [One(Twice("raw"), [Of("router") EXCEPT !.raw = TRUE]) EXCEPT !.closes = 1, !.late = TRUE, !.poll = TRUE],
    [In(Of("client"), Of("client"), Of("server")) EXCEPT !.calm = TRUE, !.late = TRUE],
    [In(Of("client"), Of("dealer"), Of("server")) EXCEPT !.closes = 1, !.parts = 2],
    [In(Twice("scatter"), Of("push"), Of("gather")) EXCEPT !.closes = 1, !.parts = 2],
    [In(Twice("push"), Twice("push"), Of("pull")) EXCEPT !.closes = 1, !.parts = 2],
    [In(Of("pair"), Of("pair"), Of("pair")) EXCEPT !.closes = 1, !.poll = TRUE],
    [One(Udp, Of("dgram")) EXCEPT !.calm = TRUE]
    >>

\* A ROUTER socket whose peer is replaced by one of the same name.
Handover == <<
    [In([Alice EXCEPT !.msgs = 3], [Alice EXCEPT !.msgs = 0], [Of("router") EXCEPT !.handover = TRUE])
        EXCEPT !.parts = 2, !.late = TRUE]
    >>

Usage == Sample
============================================================================
