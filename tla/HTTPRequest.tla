---------------------------- MODULE HTTPRequest ----------------------------
(***************************************************************************)
(* What lineFromHTTPClient (src/src/servapp.h) makes of the lines of a      *)
(* request: the request line is split into words, the URI decoded and split *)
(* into core name and command, or the request is refused.  Text is a        *)
(* sequence of characters; a word that is only compared as a whole (GET,    *)
(* HTTP/1.0) is one character.  No variables: LineInput reads with these    *)
(* operators.                                                               *)
(***************************************************************************)
EXTENDS Integers, Sequences, SequencesExt

CONSTANT CoreNames      \* names of running cores

CR == "CR"
LF == "LF"
NUL == "NUL"
Space == " "
Slash == "/"
Text == Seq(STRING)
Blanks == {Space, LF}   \* what Cli::splitString splits at by default

-----------------------------------------------------------------------------
(* Cli::splitString: the words between separators; no word is empty.        *)

SplitString(text, separators) ==
    LET in(i)  == i \in DOMAIN text /\ text[i] \notin separators
        starts == SetToSortSeq({i \in DOMAIN text : in(i) /\ ~in(i - 1)}, <)
        ends   == SetToSortSeq({i \in DOMAIN text : in(i) /\ ~in(i + 1)}, <)
    IN [k \in DOMAIN starts |-> SubSeq(text, starts[k], ends[k])]

\* lineIndicatesDataset: a colon ends the line, up to white space.
LineIndicatesDataset(text) ==
    LET words == SplitString(text, Blanks) IN words # <<>> /\ Last(Last(words)) = ":"

-----------------------------------------------------------------------------
(* The URI: '+' is a space, "%%" a percent sign, "%XX" a printable          *)
(* character, and a slash in front is dropped.                              *)

\* The printable characters that occur, by their two hex digits.
HexChars == <<"2", "0">> :> Space @@ <<"2", "F">> :> Slash @@ <<"2", "f">> :> Slash
            @@ <<"2", "5">> :> "%" @@ <<"2", "B">> :> "+" @@ <<"6", "7">> :> "g"

IsDoubled(uri, i) == i < Len(uri) /\ uri[i + 1] = "%"
IsHex(uri, i) == i + 2 <= Len(uri) /\ <<uri[i + 1], uri[i + 2]>> \in DOMAIN HexChars

\* Mutant: the second percent sign of "%%" is looked at again.
DecodeCharTwice(uri, i) ==
    CASE uri[i] = "+"                        -> [text |-> <<Space>>, size |-> 1]
      [] uri[i] = "%" /\ IsDoubled(uri, i)    -> [text |-> <<"%">>, size |-> 1]
      [] uri[i] = "%" /\ ~IsDoubled(uri, i)   ->
            IF IsHex(uri, i) THEN [text |-> <<HexChars[uri[i + 1], uri[i + 2]]>>, size |-> 3]
            ELSE [text |-> <<>>, size |-> 0]
      [] uri[i] = Slash /\ i = 1              -> [text |-> <<>>, size |-> 1]
      [] OTHER                               -> [text |-> <<uri[i]>>, size |-> 1]

\* One turn of the loop, at character i: what is appended, and how much of the
\* URI that takes; none of it if a percent sign starts no code.
DecodeChar(uri, i) ==
    CASE uri[i] = "+"                        -> [text |-> <<Space>>, size |-> 1]
      [] uri[i] = "%" /\ IsDoubled(uri, i)    -> [text |-> <<"%">>, size |-> 2]
      [] uri[i] = "%" /\ ~IsDoubled(uri, i)   ->
            IF IsHex(uri, i) THEN [text |-> <<HexChars[uri[i + 1], uri[i + 2]]>>, size |-> 3]
            ELSE [text |-> <<>>, size |-> 0]
      [] uri[i] = Slash /\ i = 1              -> [text |-> <<>>, size |-> 1]
      [] OTHER                               -> [text |-> <<uri[i]>>, size |-> 1]

BadHex == "bad hex"

\* From[i]: what the loop makes of the URI from character i on; it ends in BadHex
\* if the loop gives up.
DecodeURI[uri \in Text] ==
    LET From[i \in 1..Len(uri) + 1] ==
            IF i > Len(uri) THEN <<>>
            ELSE LET char == DecodeChar(uri, i)
                 IN IF char.size = 0 THEN <<BadHex>> ELSE char.text \o From[i + char.size]
    IN From[1]

-----------------------------------------------------------------------------
(* The outcome of a request: a command for a core or for the server, or a   *)
(* status line that refuses it.                                             *)

NoCore == <<>>
Refused(why) == [kind |-> why, core |-> NoCore, command |-> <<>>]
Command(core, command) == [kind |-> "command", core |-> core, command |-> command]

\* transform(..., ::toupper) of the version word.
Upper(word) == IF word = <<"http/1.1">> THEN <<"HTTP/1.1">> ELSE word

CommandOf(core, command) ==
    IF LineIndicatesDataset(command) THEN Refused("data set") ELSE Command(core, command)

\* The decoded URI, /corename/command or a command of its own.
Interpret[text \in Text] ==
    LET words == SplitString(text, {Slash})
    IN IF Len(words) >= 2
       THEN IF words[1] \notin CoreNames THEN Refused("no such instance")
            ELSE CommandOf(words[1], SubSeq(text, Len(words[1]) + 2, Len(text)))
       ELSE IF SplitString(text, Blanks) = <<>> THEN Refused("empty request")
            ELSE CommandOf(NoCore, text)

\* The lines of a request up to the blank one; all but the first are discarded.
HandleRequest[request \in Seq(Text)] ==
    LET words == SplitString(request[1], Blanks)
        uri   == DecodeURI[words[2]]
    IN IF Len(words) # 3 THEN Refused("bad request")
       ELSE IF Upper(words[3]) \notin {<<"HTTP/1.0">>, <<"HTTP/1.1">>} THEN Refused("unknown version")
       ELSE IF Contains(uri, BadHex) THEN Refused("bad hex")
       ELSE Interpret[uri]
=============================================================================
