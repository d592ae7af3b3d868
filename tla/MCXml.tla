------------------------------- MODULE MCXml -------------------------------
(* Every kind of item, with entities, spaces, both quotes, namespaces that *)
(* are declared and used, and a CDATA section with brackets in it.         *)
EXTENDS Xml
Call(k, name, attrs) == [k |-> k, name |-> name, attrs |-> attrs]
Said(t) == <<Call("content", t, NoAttrs)>>
Tagged(kind, name, quote, tokens, means) ==
  [kind |-> kind, text |-> tokens, means |-> means, inside |-> means, name |-> name, quote |-> quote]
Plain(kind, tokens, means) == Tagged(kind, <<>>, "", tokens, means)
PB == <<"p", ":", "b">>
XY == (<<"x">> :> <<"1", "<">>) @@ (<<"y">> :> <<>>)
UV == (<<"xmlns", ":", "p">> :> <<"u">>) @@ (<<"xmlns">> :> <<"v">>)
VE == (<<"version">> :> <<"1">>) @@ (<<"encoding">> :> <<"e">>)
ItemValue ==
  [a |-> Tagged("start", <<"a">>, "", <<"<", "a", ">">>, <<Call("start", <<"a">>, NoAttrs)>>),
   axy |-> Tagged("start", <<"a">>, "\"",
                <<"<", "a", "SP", "x", "=", "\"", "1", "&", "lt", ";", "\"", "SP", "y", "SP", "=", "SP", "\"", "\"", "SP", ">">>,
                <<Call("start", <<"a">>, XY)>>),
   auv |-> Tagged("start", <<"a">>, "\"",
                <<"<", "a", "SP", "xmlns", ":", "p", "=", "\"", "u", "\"", "SP", "xmlns", "=", "\"", "v", "\"", ">">>,
                <<Call("start", <<"a">>, UV)>>),
   pb |-> Tagged("start", PB, "", <<"<", "p", ":", "b", ">">>, <<Call("start", PB, NoAttrs)>>),
   aEnd |-> Tagged("end", <<"a">>, "", <<"<", "/", "a", ">">>, <<Call("end", <<"a">>, NoAttrs)>>),
   pbEnd |-> Tagged("end", PB, "", <<"<", "/", "p", ":", "b", "SP", ">">>, <<Call("end", PB, NoAttrs)>>),
   b |-> Tagged("empty", <<"b">>, "", <<"<", "b", "SP", "/", ">", "SP">>,
              <<Call("start", <<"b">>, NoAttrs), Call("end", <<"b">>, NoAttrs)>>),
   bz |-> Tagged("empty", <<"b">>, "'", <<"<", "b", "SP", "z", "=", "'", "\"", "'", "/", ">">>,
               <<Call("start", <<"b">>, <<"z">> :> <<"\"">>), Call("end", <<"b">>, NoAttrs)>>),
   t |-> [Plain("text", <<"SP", "&", "amp", ";", "t">>, Said(<<"&", "t">>)) EXCEPT !.inside = Said(<<"SP", "&", "t">>)],
   note |-> Plain("comment", <<"<", "!", "-", "-", "-", "c", ">", "-", "-", ">">>, <<>>),
   cdata |-> Plain("cdata", <<"<", "!", "[", "CDATA[", "SP", "<", "]", "]", "]", ">">>, Said(<<"SP", "<", "]">>)),
   torn |-> Plain("torn", <<"<", "!", "[", "CDATA[", "]", "t", "]", ">", "]", "]", ">">>, Said(<<"]", "t", "]", ">">>)),
   xml |-> Tagged("pi", <<"xml">>, "\"",
                <<"<", "?", "xml", "SP", "version", "=", "\"", "1", "\"", "SP", "encoding", "=", "\"", "e", "\"", "?", ">">>,
                <<Call("processor", <<"xml">>, VE)>>),
   xml1 |-> Tagged("pi", <<"xml">>, "'", <<"<", "?", "xml", "SP", "version", "=", "'", "1", "'", "?", ">">>,
                 <<Call("processor", <<"xml">>, <<"version">> :> <<"1">>)>>),
   dtd |-> Plain("dtd", <<"<", "!", "D", "SP", "d", ">">>, <<Call("dtd", <<"D">>, <<>> :> <<"d">>)>>),
   bad |-> Plain("bad", <<"&", "bad", ";">>, <<>>)]

(* A value that stands for a constant in a .cfg is worked out at every use *)
(* of the constant, a name only looked up.                                 *)
MCItem == ItemValue
=============================================================================
