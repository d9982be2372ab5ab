------------------------------ MODULE MCGateway ------------------------------
EXTENDS Gateway

\* An API for credits, two parts of it that are served elsewhere per call (one
\* by a route without a trailing slash), and two MCP servers; one path is priced
\* twice under two spellings.
Entry(method, path, atoms) == [method |-> method, path |-> path, atoms |-> atoms]
Priced(tool, atoms) == [tool |-> tool, atoms |-> atoms]

Api == [route |-> <<"api", "">>, mcp |-> FALSE, mode |-> "credits",
        prices |-> {Entry("get", <<"api", "find", "">>, 1), Entry("GET", <<"api", "find">>, 2),
                    Entry("", <<"api", "list">>, 1)},
        priceDefault |-> 0, toolPrices |-> {}, toolPriceDefault |-> 0, freeTools |-> {}]
Vault == [Api EXCEPT !.route = <<"api", "vault", "">>, !.mode = "percall",
                     !.prices = {Entry("GET", <<"api", "vault">>, 2)}, !.priceDefault = 1]
Login == [Vault EXCEPT !.route = <<"api", "login">>, !.prices = {}]
Tools == [Api EXCEPT !.route = <<"mcp">>, !.mcp = TRUE, !.mode = "credits", !.prices = {},
                     !.toolPrices = {Priced("process", 2)}, !.toolPriceDefault = 1,
                     !.freeTools = {"about"}]
Calls == [Tools EXCEPT !.route = <<"calls">>, !.mode = "percall"]

MCUpstreams == {Api, Vault, Login, Tools, Calls}

MCPath == {<<"api", "find">>, <<"api", "find", "">>, <<"api", ".", "find">>, <<"api", "list">>,
           <<"api", "vault">>, <<"api", "vault", "">>, <<"api", "vault", "x">>,
           <<"api", "login">>, <<"mcp">>, <<"calls">>}

\* Messages: members spelled exactly, unless Cased.
Exact(v) == [value |-> v, exact |-> TRUE]
Cased(v) == [value |-> v, exact |-> FALSE]
Msg(methods, names) == [methods |-> methods, params |-> <<Exact(names)>>]
Single(msg) == [kind |-> "single", msgs |-> <<msg>>]
Batch(msgs) == [kind |-> "batch", msgs |-> msgs]
Call(names) == Msg(<<Exact(TRUE)>>, names)
Process == <<Exact("process")>>

\* A call whose name is written in two spellings.
Respelled == Single(Call(<<Exact("process"), Cased("about")>>))

MCBody == {Single(Call(Process)), Single(Call(<<Exact("about")>>)), Single(Call(<<Cased("draw")>>)),
           Single(Call(<<>>)), Single([Call(<<>>) EXCEPT !.params = <<>>]),
           Single(Call(<<Exact("process"), Exact("about")>>)),
           Single(Call(<<Exact("about"), Exact("process")>>)), Respelled,
           Single(Msg(<<Exact(TRUE), Exact(FALSE)>>, Process)), Single(Msg(<<>>, Process)),
           Batch(<<Call(Process)>>), Batch(<<Msg(<<Exact(FALSE)>>, <<>>)>>), Batch(<<>>),
           [kind |-> "malformed", msgs |-> <<>>]}

\* One upstream, and one message.
OneServer == {Calls}
OnePath == {<<"calls">>}
OneMessage == {Respelled}

\* Values that narrow and that widen what was minted.
MCAdded == {ServicesCaveat({"shop", "read"}),
            ValidUntilCaveat("shop", 0), ValidUntilCaveat("shop", 2)}
=============================================================================
