---------------------------- MODULE MCLineInput ----------------------------
(***************************************************************************)
(* LineInput on small instances: every short text a TCP client may send,    *)
(* every interleaving of two short outputs of a core, and HTTP requests     *)
(* made from short core names and commands in every way a client may encode *)
(* them, together with malformed ones.                                      *)
(***************************************************************************)
EXTENDS LineInput

Program(peer, writes, meant) == [peer |-> peer, writes |-> writes, meant |-> meant, useLibevent |-> FALSE]
Writes(channel, text) == [i \in DOMAIN text |-> [channel |-> channel, char |-> text[i]]]

TcpPrograms == {Program("TCP", Writes("in", text), <<>>) : text \in SeqOf({"a", CR, LF, NUL}, 4)}

\* s and t merged, the elements of s at the positions in P.
Merge(s, t, P) ==
    [i \in 1..Len(s) + Len(t) |->
        LET k == Cardinality(P \intersect 1..i) IN IF i \in P THEN s[k] ELSE t[i - k]]

Merges(s, t) == {Merge(s, t, P) : P \in kSubset(Len(s), 1..Len(s) + Len(t))}

\* The two loops read a session alike, a core's stderr not.
CorePrograms ==
    {[Program("core", w, <<>>) EXCEPT !.useLibevent = e] : e \in BOOLEAN, w \in UNION {Merges(Writes("stdout", out), Writes("stderr", err)) :
                        out \in {<<"a", LF>>, <<"a", CR, LF>>, <<LF, "a", LF>>},
                        err \in {<<"b", LF>>, <<LF, "b", LF>>, <<"b", CR, LF>>, <<"b", NUL, LF>>,
                                 <<"b", LF, "b", "b", LF>>}}}

-----------------------------------------------------------------------------
(* The codes of a character in a URI. *)
Codes(c) ==
    CASE c = Space -> {<<"+">>, <<"%", "2", "0">>}
      [] c = Slash -> {<<Slash>>, <<"%", "2", "F">>, <<"%", "2", "f">>}
      [] c = "%"   -> {<<"%", "%">>, <<"%", "2", "5">>}
      [] c = "+"   -> {<<"%", "2", "B">>}
      [] c = "g"   -> {<<"g">>, <<"%", "6", "7">>}
      [] OTHER     -> {<<c>>}

Encodings(text) ==
    LET Extend(uris, c) == {uri \o code : uri \in uris, code \in Codes(c)}
    IN FoldLeft(Extend, {<<>>}, text)

Texts == SeqOf({"g", "2", "F", "%", "+", ":", Space, Slash}, 2)
Blank(text) == SplitString(text, Blanks) = <<>>
Slashes(text) == \A i \in DOMAIN text : text[i] = Slash

\* A request for a command: usage.rst's /corename/command and /command.
CoreURIs(core, command) == {<<Slash>> \o c \o <<Slash>> \o t : c \in Encodings(core), t \in Encodings(command)}
ServerURIs(command) == {<<Slash>> \o t : t \in Encodings(command)}

Header == <<"Host", LF>>
RequestText(line, header, eol) == line \o <<eol, LF>> \o header \o <<eol, LF>>
RequestLine(uri, version) == <<"GET", Space>> \o uri \o <<Space, version>>
Http(text, meant) == Program("HTTP", Writes("in", text), meant)
Get(uri, meant) == Http(RequestText(RequestLine(uri, "HTTP/1.0"), <<>>, CR), <<meant>>)

Known == <<"g">>
KnownCores == {Known}

GetPrograms ==
    UNION {{Get(uri, CommandOf(Known, t)) : uri \in CoreURIs(Known, t)} :
               t \in {x \in Texts : ~Slashes(x)}}
    \union UNION {{Get(uri, CommandOf(NoCore, t)) : uri \in ServerURIs(t)} :
               t \in {x \in Texts : ~Blank(x) /\ Slash \notin ToSet(x)}}
    \union {Get(uri, Refused("no such instance")) : uri \in CoreURIs(<<"2">>, <<"g">>)}

MalformedPrograms ==
    {Get(uri, Refused("bad hex")) :
        uri \in {a \o bad \o b : a \in {<<>>, <<Slash, "g", Slash>>, <<"%", "%">>}, b \in {<<>>, <<Slash, "2">>},
                                 bad \in {<<"%">>, <<"%", "2">>, <<"%", "0", "A">>, <<"%", "g", "2">>}}}
    \union {Get(uri, Refused("empty request")) : uri \in {<<Slash>>, <<"+">>, <<Slash, "%", "2", "0">>}}
    \union {Http(RequestText(line, Header, CR), <<Refused("bad request")>>) :
                line \in {<<"GET">>, <<"GET", Space, Slash>>, RequestLine(<<Slash>>, "HTTP/1.0") \o <<Space, "a">>}}
    \union {Http(RequestText(RequestLine(<<"%">>, "HTTP/2.0"), Header, CR), <<Refused("unknown version")>>)}
    \union {Http(<<LF>>, <<Refused("bad request")>>)}

\* Two requests on one connection, the second incomplete or complete.
TwoRequests ==
    LET first == RequestText(RequestLine(<<Slash, "g">>, "http/1.1"), Header, CR)
        meant == <<Command(NoCore, Known), Command(Known, <<"2">>)>>
    IN {Http(first \o SubSeq(second, 1, n), meant) :
           second \in {RequestText(RequestLine(<<Slash, "g", Slash, "2">>, "HTTP/1.0"), Header, CR)},
           n \in {3, 6, 14}}

AllPrograms == TcpPrograms \union CorePrograms \union GetPrograms \union MalformedPrograms \union TwoRequests
=============================================================================
