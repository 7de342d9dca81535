----------------------------- MODULE MCSSEParser -----------------------------
(* Streams for SSEParser: two lines with any of the line ends, a third one *)
(* that is blank, long, broken or begins with a character of two bytes,    *)
(* and perhaps one that is cut off.                                        *)
EXTENDS SSEParser

Contents == {<<>>, <<"data", "p">>, <<"data", "head", "tail">>, <<"data", "done">>, <<"note", "p">>}
Ends     == {<<"LF">>, <<"CR">>, <<"CR", "LF">>}
Lines    == {content \o end : content \in Contents, end \in Ends}
Thirds   == Ends \union {<<"data", "p", "p", "p", "LF">>, <<"head", "tail", "LF">>,
                         <<"data", "tail", "LF">>, <<"data", "head", "LF">>}

MCWires ==
  {a \o b \o c \o d : a \in Lines, b \in Lines, c \in Thirds,
                      d \in {<<>>, <<"data", "p">>, <<"data", "head">>}}
=============================================================================
