-------------------------------- MODULE Xml --------------------------------
(***************************************************************************)
(* A document into which texts are loaded piece by piece, a piece being an *)
(* item of xml: a tag, some text, a comment.  Between loads its user may   *)
(* add elements and content.                                               *)
(***************************************************************************)
EXTENDS Dom

CONSTANTS
  Item,     \* by its name: what an item is, its tokens, and the calls it should lead to
  MaxItems, \* bound: items that are no end tags, and calls of the user, together
  MaxEnds   \* bound: end tags

VARIABLES
  doc,   \* the document
  items, \* the items loaded since the last xml()
  heard, \* the parser's calls since then
  edits  \* the calls of the user
xmlVars == <<doc, items, heard, edits>>

XmlInit == doc = NewDocument /\ items = <<>> /\ heard = <<>> /\ edits = 0

IsEnd(n) == Item[n].kind = "end"
EndTags == Len(SelectSeq(items, IsEnd))
Room == Len(items) - EndTags + edits < MaxItems

(* The calls up to the one whose handler has thrown. *)
Feeds(n) ==
  /\ doc.state = "ok" /\ IF IsEnd(n) THEN EndTags < MaxEnds ELSE Room
  /\ \E s \in {LoadText(doc.sax, Item[n].text)} : doc' = FeedCalls(doc, s) /\ heard' = heard \o s.calls
  /\ items' = Append(items, n)
  /\ UNCHANGED edits

(* load and xml, with a new text.  load after an exception is left out: it *)
(* goes on with a machine that was left in the middle of a step.           *)
NextStream == doc.state = "ok" /\ Room /\ doc' = LoadStream(doc) /\ edits' = edits + 1 /\ UNCHANGED <<items, heard>>
NextXml ==
  /\ doc.state # "gone" /\ Room
  /\ doc' = LoadXml(doc) /\ items' = <<>> /\ heard' = <<>> /\ edits' = edits + Len(items) - EndTags + 1

(* The user's calls, on the root. *)
Edits(d) == doc.state = "ok" /\ Room /\ doc' = d /\ edits' = edits + 1 /\ UNCHANGED <<items, heard>>
CreateRoot == Edits([doc EXCEPT !.e[1].name = <<"r">>, !.e[1].xmlns = <<"u">>])
SetContent == \E escape \in BOOLEAN : Edits([doc EXCEPT !.e[1].content = <<"SP", ">">>, !.e[1].escape = escape])
AddElement == \E name \in {<<"b">>, <<"c">>}, ns \in {<<>>, <<"u">>} : Edits(Slash(doc, 1, name, ns))
SetAttribute == Edits([doc EXCEPT !.e[1].attributes = (<<"x">> :> <<"<", "\"", "t">>) @@ @])

XmlNext ==
  (\E n \in DOMAIN Item : Feeds(n)) \/ NextStream \/ NextXml
  \/ CreateRoot \/ SetContent \/ AddElement \/ SetAttribute

-----------------------------------------------------------------------------
(* What stays in _flag after the items up to i and matters to others: the  *)
(* two dashes or brackets at the end of a comment or a CDATA section       *)
(* (lines 361, 348), and single quotes (line 184).                         *)
Left ==
  [i \in 0..Len(items) |->
    LET Clears(j) == Item[items[j]].kind \in {"start", "end", "pi", "comment", "cdata"}
        last == {j \in 1..i : Clears(j) /\ \A k \in j + 1..i : ~Clears(k)}
    IN  {"dashes" : j \in {j \in last : Item[items[j]].kind \in {"comment", "cdata"}}}
        \cup {"single" : j \in {j \in 1..i : Item[items[j]].quote = "'" /\ \A k \in last : k <= j}}]

(* What the parser does not read as it should: text before a comment or a  *)
(* CDATA section (lines 276, 313), start tags and double quotes with what  *)
(* is left in _flag, and brackets that are apart (346).                    *)
Trouble ==
  \E i \in DOMAIN items :
    LET it == Item[items[i]]
    IN  \/ it.kind \in {"comment", "cdata"} /\ i > 1 /\ Item[items[i - 1]].kind = "text"
        \/ it.kind = "start" /\ "dashes" \in Left[i - 1]
        \/ it.kind # "pi" /\ it.quote = "\"" /\ "single" \in Left[i - 1]
        \/ it.kind = "torn"

(* The names of the elements that are open after each item; ends that do   *)
(* not match, text outside the root and what is no xml make them <<"bad">>. *)
TextFits ==
  LET open[i \in 0..Len(items)] ==
        IF i = 0 THEN <<>>
        ELSE LET it == Item[items[i]]  o == open[i - 1]
             IN  CASE o = <<"bad">> -> o
                   [] it.kind = "start" -> Append(o, it.name)
                   [] it.kind = "end" -> IF o # <<>> /\ Last(o) = it.name THEN Front(o) ELSE <<"bad">>
                   [] it.kind \in {"text", "cdata"} -> IF o = <<>> THEN <<"bad">> ELSE o
                   [] it.kind = "bad" -> <<"bad">>
                   [] OTHER -> o
  IN  open[Len(items)] # <<"bad">>

(* Calls with contents taken apart, as they may come in several pieces. *)
Apart(calls) ==
  FlattenSeq([i \in DOMAIN calls |->
    IF calls[i].k # "content" THEN <<calls[i]>>
    ELSE [j \in DOMAIN calls[i].name |-> [calls[i] EXCEPT !.name = <<@[j]>>]]])

(* What the items mean: a text loses its spaces at the front, but not      *)
(* behind another text, and is called for when a tag follows.              *)
Meant ==
  LET IsText(i) == i \in DOMAIN items /\ Item[items[i]].kind = "text"
      texts == {n \in 0..Len(items) : \A i \in n + 1..Len(items) : IsText(i)}
      said == CHOOSE n \in texts : \A m \in texts : n <= m
      Means(i) == IF IsText(i) /\ IsText(i - 1) THEN Item[items[i]].inside ELSE Item[items[i]].means
  IN  Apart(FlattenSeq([i \in 1..said |-> Means(i)]))

(* What the parser calls for, whatever items follow each other, is what    *)
(* they mean, once each and in order, as long as there is no Trouble; a    *)
(* document is given up only if its text does not fit together, and what   *)
(* was called for before it was given up is right as well.  In trouble     *)
(* text is delivered twice, starts are taken for ends, and values run on.  *)
SaxEvents ==
  ~Trouble =>
    IF doc.state = "ok" THEN Apart(heard) = Meant
    ELSE IsPrefix(Apart(heard), Meant) /\ (edits = 0 => ~TextFits)

-----------------------------------------------------------------------------
SkipSpaces(text) ==
  LET kept == {i \in 1..Len(text) + 1 : i = Len(text) + 1 \/ text[i] # "SP"}
  IN  SubSeq(text, CHOOSE i \in kept : \A j \in kept : i <= j, Len(text))

(* The tree as a value; without the elements that xml() leaves out, and    *)
(* without the spaces that a parser skips.                                 *)
TreeOf(e, all) ==
  LET tree[x \in DOMAIN e] ==
        LET v == e[x]
            kids == SelectSeq(v.children, LAMBDA c : all \/ ~AllEmpty(e[c]))
        IN  [name |-> v.name, xmlns |-> v.xmlns, prefixs |-> v.prefixs, attributes |-> v.attributes,
             content |-> SkipSpaces(v.content), children |-> [i \in DOMAIN kids |-> tree[kids[i]]]]
  IN  tree[1]

(* What was written for a document, read by another. *)
Reads(text, d) ==
  \E r \in {Feed(NewDocument, text)} :
    /\ r.state = "ok" /\ TreeOf(r.e, TRUE) = d.tree
    /\ d.header => r.version = d.version /\ r.encoding = d.encoding

(* The namespaces that xml() writes such that they are read again: none    *)
(* with a character that had to be escaped (lines 156, 177), nor the       *)
(* parent's (line 150), nor one that a prefix of the element itself stands *)
(* for (line 157), which is looked up before it is there.                  *)
NamespacesKept(e) ==
  \A x \in DOMAIN e :
    LET v == e[x]  p == ParentOf(e, x)
    IN  /\ \A ns \in {v.xmlns} \cup {v.prefixs[q] : q \in DOMAIN v.prefixs} : Escape(ns) = ns
        /\ v.xmlns # <<>> => PrefixesOf(v, v.xmlns) = {} /\ (p = 0 \/ e[IF p = 0 THEN x ELSE p].xmlns # v.xmlns)

(* The names are names, as they are unless the parser was in trouble. *)
Named(e) ==
  \A x \in DOMAIN e : \A name \in {e[x].name} \cup DOMAIN e[x].attributes \cup DOMAIN e[x].prefixs :
    name # <<>> /\ \A i \in DOMAIN name : name[i] \notin {"<", ">", "/", "?", "!", "'", "\"", "=", "SP", "&", ";", ":"}

(* A tree, however it was loaded and edited, is read again from its text   *)
(* as it was: always from the text of an xml_writer; from xml() if its     *)
(* namespaces are kept and content that is not escaped has nothing to be,  *)
(* then without elements that are empty if these are not asked for, and    *)
(* with its version and encoding if it has both.                           *)
TreeReadsBack ==
  LET Written(all, header) ==
        [tree |-> TreeOf(doc.e, all), version |-> doc.version, encoding |-> doc.encoding, header |-> header]
      raw == \A x \in DOMAIN doc.e : doc.e[x].escape \/ {"<", "&"} \cap ToSet(doc.e[x].content) = {}
  IN  doc.state # "gone" /\ Named(doc.e) =>
        /\ Reads(WriterStr(doc), Written(TRUE, TRUE))
        /\ NamespacesKept(doc.e) /\ raw =>
             \A all \in BOOLEAN : all \/ ~AllEmpty(doc.e[1]) =>
               Reads(DocumentXml(doc, all), Written(all, doc.version # <<>> /\ doc.encoding # <<>>))
=============================================================================
