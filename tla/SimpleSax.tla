----------------------------- MODULE SimpleSax -----------------------------
(***************************************************************************)
(* lugce/xml/simple_sax.hpp: the parser, a machine that is pushed one      *)
(* character at a time and calls its handlers.  A token stands for the     *)
(* characters that the machine does not tell apart: a word, the name of an *)
(* entity, "CDATA[".  Sequences of tokens are the strings.  The line       *)
(* `istm.readsome()' of load, which does not compile, is taken as absent.  *)
(***************************************************************************)
EXTENDS Integers, Sequences, SequencesExt, TLC

NoAttrs == [a \in {} |-> <<>>]
Entity == ("amp" :> "&") @@ ("apos" :> "'") @@ ("quot" :> "\"") @@ ("gt" :> ">") @@ ("lt" :> "<")

(* skip is skip_space< machine >, back and entity what an escape has to    *)
(* remember, calls the calls of handlers.  _flag counts in bits: 1 within  *)
(* <?, 2 within </, 8 behind a single quote, and in comments and CDATA the *)
(* dashes or brackets.                                                     *)
Reset ==
  [machine |-> "first", skip |-> FALSE, back |-> "", entity |-> "", flag |-> 0, name |-> <<>>,
   attrname |-> <<>>, attrvalue |-> <<>>, attrs |-> NoAttrs, calls |-> <<>>]

Bit(s, b) == (s.flag \div b) % 2 = 1
To(s, machine) == [s EXCEPT !.machine = machine, !.skip = FALSE]
SkipTo(s, machine) == [s EXCEPT !.machine = machine, !.skip = TRUE]
Bad(s) == To(s, "bad")
Called(s, k, name, attrs) == [s EXCEPT !.calls = Append(@, [k |-> k, name |-> name, attrs |-> attrs])]
CallContent(s) == IF s.attrvalue = <<>> THEN s ELSE Called(s, "content", s.attrvalue, NoAttrs)
AddValue(s, c) == [s EXCEPT !.attrvalue = Append(@, c)]

(* equal *)
Must(s, c, token, next) == IF c = token THEN next ELSE Bad(s)

NodeBegin(s, c) ==
  CASE c = "?" -> To([s EXCEPT !.flag = 1, !.name = <<>>], "node_name_next")
    [] c = "!" -> To(s, "after_exclamation")
    [] c = "/" -> [s EXCEPT !.flag = 2]
    [] OTHER   -> To([s EXCEPT !.name = <<c>>], "node_name_next")

AfterExclamation(s, c) ==
  CASE c = "-" -> To([s EXCEPT !.flag = 0], "note_begin")
    [] c = "[" -> To([CallContent(s) EXCEPT !.flag = 0, !.attrvalue = <<>>], "cdata_begin")
    [] OTHER   -> To([s EXCEPT !.name = <<c>>, !.attrvalue = <<>>], "dtd")

(* is_node_end: when it answers true, and what it does then. *)
IsNodeEnd(s, c) == (c = "?" /\ Bit(s, 1)) \/ c \in {"/", ">"}

(* Wrong: the value of the last attribute, or the text before, stays. *)
NodeEnd_Keeps(s, c) ==
  CASE c = "?" -> SkipTo(Called(s, "processor", s.name, s.attrs), "gt")
    [] c = "/" -> SkipTo(Called(Called(s, "start", s.name, s.attrs), "end", s.name, NoAttrs), "gt")
    [] c = ">" -> SkipTo([(IF Bit(s, 2) THEN Called(s, "end", s.name, NoAttrs) ELSE Called(s, "start", s.name, s.attrs))
                            EXCEPT !.flag = 0], "content")
NodeEnd(s, c) == [NodeEnd_Keeps(s, c) EXCEPT !.attrvalue = <<>>]

NodeNameNext(s, c) ==
  CASE IsNodeEnd(s, c) -> NodeEnd(s, c)
    [] c = "SP"        -> SkipTo(s, "node_name_after")
    [] OTHER           -> [s EXCEPT !.name = Append(@, c)]
NodeNameAfter(s, c) == IF IsNodeEnd(s, c) THEN NodeEnd(s, c) ELSE To([s EXCEPT !.attrname = <<c>>], "attrib_name")

AttribName(s, c) ==
  CASE c = "SP" -> SkipTo([s EXCEPT !.attrvalue = <<>>], "equals")
    [] c = "="  -> SkipTo([s EXCEPT !.attrvalue = <<>>], "quote")
    [] OTHER    -> [s EXCEPT !.attrname = Append(@, c)]
EqualQuote(s, c) ==
  CASE c = "'"  -> To([s EXCEPT !.flag = IF Bit(s, 8) THEN @ ELSE @ + 8], "attrib_value")
    [] c = "\"" -> To(s, "attrib_value")
    [] OTHER    -> Bad(s)
AttribValue(s, c) ==
  CASE c = (IF Bit(s, 8) THEN "'" ELSE "\"") ->
         To([s EXCEPT !.attrs = (s.attrname :> s.attrvalue) @@ @], "node_name_next")
    [] c = "&" -> To([s EXCEPT !.back = "attrib_value"], "escape")
    [] OTHER   -> AddValue(s, c)

Content(s, c) ==
  CASE c = "<" -> To([CallContent(s) EXCEPT !.name = <<>>, !.attrs = NoAttrs], "node_begin")
    [] c = "&" -> To([s EXCEPT !.back = "content"], "escape")
    [] OTHER   -> AddValue(s, c)

EscapeFirst(s, c) == IF c \in DOMAIN Entity THEN To([s EXCEPT !.entity = Entity[c]], "escape_end") ELSE Bad(s)
EscapePush(s, c) == Must(s, c, ";", To(AddValue(s, s.entity), s.back))

Dtd(s, c) == IF c = "SP" THEN SkipTo(s, "dtd_value") ELSE [s EXCEPT !.name = Append(@, c)]
DtdValue(s, c) ==
  IF c # ">" THEN AddValue(s, c)
  ELSE SkipTo([Called(s, "dtd", s.name, <<>> :> s.attrvalue) EXCEPT !.attrvalue = <<>>], "content")

Counted(s) == [s EXCEPT !.flag = IF @ < 2 THEN @ + 1 ELSE @]
Cdata(s, c) ==
  LET t == AddValue(s, c)
      text == SubSeq(t.attrvalue, 1, Len(t.attrvalue) - 3)
  IN  CASE c = "]"                -> Counted(t)
        [] c = ">" /\ s.flag = 2 -> SkipTo([Called(t, "content", text, NoAttrs) EXCEPT !.attrvalue = <<>>], "content")
        [] OTHER                  -> t
Note(s, c) ==
  CASE c = "-"                -> Counted(s)
    [] c = ">" /\ s.flag = 2 -> SkipTo(s, "content")
    [] OTHER                  -> [s EXCEPT !.flag = 0]

(* push *)
PushChar(s, c) ==
  IF s.skip /\ c = "SP" THEN s
  ELSE LET t == [s EXCEPT !.skip = FALSE]
       IN  CASE s.machine = "first"             -> Must(t, c, "<", To(t, "node_begin"))
             [] s.machine = "node_begin"        -> NodeBegin(t, c)
             [] s.machine = "after_exclamation" -> AfterExclamation(t, c)
             [] s.machine = "note_begin"        -> Must(t, c, "-", To(t, "note"))
             [] s.machine = "note"              -> Note(t, c)
             [] s.machine = "cdata_begin"       -> Must(t, c, "CDATA[", To(t, "cdata"))
             [] s.machine = "cdata"             -> Cdata(t, c)
             [] s.machine = "dtd"               -> Dtd(t, c)
             [] s.machine = "dtd_value"         -> DtdValue(t, c)
             [] s.machine = "node_name_next"    -> NodeNameNext(t, c)
             [] s.machine = "node_name_after"   -> NodeNameAfter(t, c)
             [] s.machine = "attrib_name"       -> AttribName(t, c)
             [] s.machine = "equals"            -> Must(t, c, "=", SkipTo(t, "quote"))
             [] s.machine = "quote"             -> EqualQuote(t, c)
             [] s.machine = "attrib_value"      -> AttribValue(t, c)
             [] s.machine = "escape"            -> EscapeFirst(t, c)
             [] s.machine = "escape_end"        -> EscapePush(t, c)
             [] s.machine = "gt"                -> Must(t, c, ">", SkipTo(t, "content"))
             [] s.machine = "content"           -> Content(t, c)
             [] s.machine = "bad"               -> t

(* load: the machine after a text, and what it has called meanwhile. *)
LoadText(s, text) ==
  LET after[i \in Nat] ==
        IF i = 0 THEN [s EXCEPT !.calls = <<>>] ELSE CHOOSE t \in {PushChar(p, text[i]) : p \in {after[i - 1]}} : TRUE
  IN  after[Len(text)]
=============================================================================
