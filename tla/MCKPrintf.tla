------------------------------ MODULE MCKPrintf ------------------------------
(* Formats of one or two items over every conversion, with flags, widths,  *)
(* precisions and lengths that meet every branch, for buffers that most    *)
(* outputs fit into and some do not.                                       *)
EXTENDS KPrintf

MCNumbers ==
  {Item(c, fl, w, p, l) : c \in {"d", "x", "X", "o"},
     fl \in {{}, {"-"}, {"+"}, {" "}, {"0"}, {"#"}, {"+", " "}, {"-", "0"}},
     w \in {<<>>, <<"5">>}, p \in {<<>>, <<"3">>}, l \in {<<>>, <<"l">>}}
MCOthers ==
  {Item("s", fl, w, p, <<>>) : fl \in {{}, {"-"}}, w \in {<<>>, <<"4">>}, p \in {<<>>, <<"2">>, <<"0">>}}
  \cup {Item(c, {}, <<>>, <<>>, <<>>) : c \in {"p", "u", "i"}}
  \cup {Item("d", {}, w, <<>>, l) : w \in {<<"1", "0">>, <<"2">>},
           l \in {<<>>, <<"h">>, <<"h", "h">>, <<"l", "l">>, <<"z">>}}
  \cup {Item("u", {}, <<>>, <<>>, l) : l \in {<<"h">>, <<"h", "h">>}}
  \cup {Item("c", fl, w, <<>>, <<>>) : fl \in {{}, {"-"}}, w \in {<<>>, <<"4">>}}
MCText  == {Text("a"), Text("%"), Text("q")}
MCShort == {Item("x", {}, <<>>, <<"3">>, <<>>), Item("s", {}, <<>>, <<>>, <<>>), Text("a")}
Raw(s)  == [i \in DOMAIN s |-> Text(s[i])]
(* Character by character, what no item writes *)
MCRaw   == {Raw(s) : s \in {
  <<"%", "%">>, <<"%", "5", "%">>, <<"%", "h", "h", "q">>, <<"%", "l", "5", "a">>,
  <<"%", "*", "d">>, <<"%", "*", "s">>, <<"%", "*", ".", "*", "d">>,
  <<"%", ".", "*", "x">>, <<"%", ".", "*", "q">>, <<"%", "1", "*">>, <<"%">>, <<"%", "l">>}}
MCCalls == {<<it>> : it \in MCNumbers \cup MCOthers \cup MCText} \cup MCRaw
           \cup {<<it, jt>> : it \in MCShort \cup MCOthers, jt \in MCShort}
MCStars == {0, 3, -2}
MCTexts == {Null, <<>>, <<"a", "b", "c">>}
MCJunk  == {<<NUL>>, <<"?", "?", NUL>>}
=============================================================================
