-------------------------------- MODULE Dom --------------------------------
(***************************************************************************)
(* lugce/xml/dom.hpp: the tree that a document builds from the calls of    *)
(* its parser, and the texts that dom and xml_writer.hpp write for a tree. *)
(* The elements are numbered in the order of their making, so that an      *)
(* element's children have higher numbers; 1 is the root, the document.    *)
(***************************************************************************)
EXTENDS SimpleSax, FiniteSets

NoElement == 0
Gone == -1  \* a pointer to an element that its parent's vector has moved

Element(name, ns) ==
  [name |-> name, xmlns |-> ns, prefixs |-> NoAttrs, attributes |-> NoAttrs, content |-> <<>>, escape |-> TRUE,
   children |-> <<>>]
NewDocument ==
  [e |-> <<Element(<<>>, <<>>)>>, sax |-> Reset, current |-> NoElement, nodes |-> <<>>, version |-> <<>>,
   encoding |-> <<>>, state |-> "ok"]

Lookup(map, key) == IF key \in DOMAIN map THEN map[key] ELSE <<>>

-----------------------------------------------------------------------------
(* get_namespace: the prefixes of the current element, then of those that  *)
(* are open, from the inside out.                                          *)
Namespace(d, prefix) ==
  LET path == Reverse(Append(d.nodes, d.current))
      having == {i \in DOMAIN path : path[i] > 0 /\ prefix \in DOMAIN d.e[path[i]].prefixs}
  IN  IF d.current = NoElement \/ having = {} THEN <<>>
      ELSE d.e[path[CHOOSE i \in having : \A j \in having : i <= j]].prefixs[prefix]

(* get_name_ns *)
Colon(name) == {i \in DOMAIN name : name[i] = ":" /\ \A j \in 1..i - 1 : name[j] # ":"}
LocalName(name) == IF Colon(name) = {} THEN name ELSE SubSeq(name, (CHOOSE i \in Colon(name) : TRUE) + 1, Len(name))
NameNs(d, name) ==
  IF Colon(name) = {} THEN <<>> ELSE Namespace(d, SubSeq(name, 1, (CHOOSE i \in Colon(name) : TRUE) - 1))

(* What lies below element x. *)
Below(e, x) ==
  LET within[n \in Nat] == IF n = 0 THEN ToSet(e[x].children)
                           ELSE UNION {{y} \cup ToSet(e[y].children) : y \in within[n - 1]}
  IN  within[Len(e)]

(* A new child may move its siblings: pointers below x are good no longer. *)
AddChild(d, x, child) ==
  [d EXCEPT !.e = Append([@ EXCEPT ![x].children = Append(@, Len(d.e) + 1)], child),
            !.nodes = [i \in DOMAIN @ |-> IF @[i] \in Below(d.e, x) THEN Gone ELSE @[i]]]

IsPrefixAttr(a) == Len(a) > 2 /\ a[1] = "xmlns" /\ a[2] = ":"
Own(map, Is(_)) == [a \in {b \in DOMAIN map : Is(b)} |-> map[a]]
Declared(attrs) ==
  LET keys == {a \in DOMAIN attrs : IsPrefixAttr(a)}
  IN  [p \in {SubSeq(a, 3, Len(a)) : a \in keys} |-> attrs[<<"xmlns", ":">> \o p]]

HandleProcessor(d, name, attrs) ==
  IF name # <<"xml">> THEN d
  ELSE [d EXCEPT !.version = Lookup(attrs, <<"version">>), !.encoding = Lookup(attrs, <<"encoding">>)]

HandleElementStart(d, name, attrs) ==
  LET n == LocalName(name)
      ns == IF NameNs(d, name) = <<>> THEN Lookup(attrs, <<"xmlns">>) ELSE NameNs(d, name)
      opened == IF d.current = NoElement THEN [d EXCEPT !.e[1].name = n, !.e[1].xmlns = ns, !.current = 1]
                ELSE LET grown == AddChild(d, d.current, Element(n, ns))
                     IN  [grown EXCEPT !.nodes = Append(@, d.current), !.current = Len(grown.e)]
      x == opened.current
  IN  [opened EXCEPT !.e[x].prefixs = Declared(attrs) @@ @,
                     !.e[x].attributes = Own(attrs, LAMBDA a : a # <<"xmlns">> /\ ~IsPrefixAttr(a)) @@ @]

HandleElementEnd(d, name) ==
  IF d.current = NoElement THEN [d EXCEPT !.state = "bad"]
  ELSE IF d.e[d.current].name # LocalName(name) THEN [d EXCEPT !.state = "bad"]
  ELSE IF d.nodes = <<>> THEN d
  ELSE [d EXCEPT !.current = Last(d.nodes), !.nodes = Front(@)]

HandleElementContent(d, text) ==
  IF d.current = NoElement THEN [d EXCEPT !.state = "bad"] ELSE [d EXCEPT !.e[d.current].content = @ \o text]

(* A call of the parser; what it throws, or what a pointer leads to that   *)
(* is Gone, ends the load.                                                 *)
Handle(d, call) ==
  IF d.state # "ok" THEN d
  ELSE CASE call.k = "processor" -> HandleProcessor(d, call.name, call.attrs)
         [] call.k = "dtd"       -> d
         [] d.current = Gone \/ (call.k # "content" /\ Colon(call.name) # {} /\ Gone \in ToSet(d.nodes)) ->
              [d EXCEPT !.state = "gone"]
         [] call.k = "start"     -> HandleElementStart(d, call.name, call.attrs)
         [] call.k = "end"       -> HandleElementEnd(d, call.name)
         [] call.k = "content"   -> HandleElementContent(d, call.name)

(* The document after a piece of text, of which its parser has made s. *)
FeedCalls(d, s) ==
  LET after[i \in Nat] ==
        IF i = 0 THEN [d EXCEPT !.sax = [s EXCEPT !.calls = <<>>]] ELSE CHOOSE t \in {Handle(p, s.calls[i]) : p \in {after[i - 1]}} : TRUE
      fed == after[Len(s.calls)]
  IN  IF fed.state = "ok" /\ s.machine = "bad" THEN [fed EXCEPT !.state = "bad"] ELSE fed
Feed(d, text) == CHOOSE t \in {FeedCalls(d, s) : s \in {LoadText(d.sax, text)}} : TRUE

(* load, for a stream, goes on with the machine as it was; xml resets it.  *)
(* Neither clears the elements, nor the pointers to those that are open.   *)
LoadStream(d) == [d EXCEPT !.current = NoElement]
LoadXml(d) == [d EXCEPT !.current = NoElement, !.sax = Reset, !.state = "ok"]

-----------------------------------------------------------------------------
Escaped(text, names) ==
  FlattenSeq([i \in DOMAIN text |->
    LET is == {n \in names : Entity[n] = text[i]} IN IF is = {} THEN <<text[i]>> ELSE <<"&", CHOOSE n \in is : TRUE, ";">>])
(* Wrong: an ampersand is left as it is. *)
Escape_NotAmp(text) == Escaped(text, DOMAIN Entity \ {"amp"})
(* xml_escape *)
Escape(text) == Escaped(text, DOMAIN Entity)

Attr(name, value) == <<"SP">> \o name \o <<"=", "\"">> \o value \o <<"\"">>
Each(map, Write(_)) == LET keys == SetToSeq(DOMAIN map) IN FlattenSeq([i \in DOMAIN keys |-> Write(keys[i])])
Tag(name, attrs, inner) ==
  IF inner = <<>> THEN <<"<">> \o name \o attrs \o <<"/", ">">>
  ELSE <<"<">> \o name \o attrs \o <<">">> \o inner \o <<"<", "/">> \o name \o <<">">>

ParentOf(e, x) == CHOOSE y \in 0..Len(e) : IF y = 0 THEN \A z \in DOMAIN e : x \notin ToSet(e[z].children)
                                           ELSE x \in ToSet(e[y].children)
AllEmpty(v) == v.children = <<>> /\ v.content = <<>> /\ v.attributes = NoAttrs
PrefixesOf(v, ns) == {p \in DOMAIN v.prefixs : v.prefixs[p] = ns}

(* do_xml, where all is xf_empty_node.  inner_xml starts a new path, so    *)
(* that an element sees the prefixes of its parent and no others.          *)
XmlOf(e, all) ==
  LET xml[x \in DOMAIN e] ==
        LET v == e[x]
            p == ParentOf(e, x)
            needns == p = 0 \/ e[p].xmlns # v.xmlns
            own == IF needns THEN PrefixesOf(v, v.xmlns) ELSE {}
            parents == IF needns /\ own = {} /\ p # 0 THEN PrefixesOf(e[p], v.xmlns) ELSE {}
            name == IF own \cup parents = {} THEN v.name ELSE (CHOOSE q \in own \cup parents : TRUE) \o <<":">> \o v.name
            attrs == Each(v.attributes, LAMBDA a : Attr(a, Escape(v.attributes[a])))
                     \o Each(v.prefixs, LAMBDA q : Attr(<<"xmlns", ":">> \o q, v.prefixs[q]))
                     \o (IF needns /\ own \cup parents = {} /\ v.xmlns # <<>> THEN Attr(<<"xmlns">>, v.xmlns) ELSE <<>>)
            inner == FlattenSeq([i \in DOMAIN v.children |-> xml[v.children[i]]])
                     \o (IF v.escape THEN Escape(v.content) ELSE v.content)
        IN  IF ~all /\ AllEmpty(v) THEN <<>> ELSE Tag(name, attrs, inner)
  IN  xml[1]

(* xml of a document, into a string: after a version without an encoding   *)
(* comes one quote too many.  The form that returns a string forgets its   *)
(* flag (dom.hpp:321-326), so that it is this with all = FALSE.            *)
DocumentXml(d, all) ==
  LET header == IF d.version = <<>> THEN Attr(<<"version">>, <<"1.0">>) \o Attr(<<"encoding">>, d.encoding)
                ELSE IF d.encoding = <<>> THEN Attr(<<"version">>, d.version) \o <<"\"">>
                ELSE Attr(<<"version">>, d.version) \o Attr(<<"encoding">>, d.encoding)
  IN  (IF d.version = <<>> /\ d.encoding = <<>> THEN <<>> ELSE <<"<", "?", "xml">> \o header \o <<"?", ">">>)
      \o XmlOf(d.e, all)

(* xml_writer, used on the elements of a tree: a writer takes attributes,  *)
(* the writers of the children, and the content.  set_version is create_xml. *)
CreateXml(version, encoding) ==
  <<"<", "?", "xml">> \o Attr(<<"version">>, version)
  \o (IF encoding = <<>> THEN <<>> ELSE Attr(<<"encoding">>, encoding)) \o <<"SP", "?", ">">>
WriterStr(d) ==
  LET str[x \in DOMAIN d.e] ==
        LET v == d.e[x]
        IN  Tag(v.name,
                Each(v.attributes, LAMBDA a : Attr(a, Escape(v.attributes[a])))
                \o Each(v.prefixs, LAMBDA q : Attr(<<"xmlns", ":">> \o q, Escape(v.prefixs[q])))
                \o Attr(<<"xmlns">>, Escape(v.xmlns)),
                FlattenSeq([i \in DOMAIN v.children |-> str[v.children[i]]]) \o Escape(v.content))
  IN  CreateXml(d.version, d.encoding) \o str[1]

-----------------------------------------------------------------------------
(* find_child: the first child decides whether namespaces are compared.    *)
FindChild(e, x, name, ns) ==
  LET kids == e[x].children
      u == kids # <<>> /\ ns = <<>> /\ e[kids[1]].xmlns = e[x].xmlns
      found == {i \in DOMAIN kids : e[kids[i]].name = name /\ (u \/ e[kids[i]].xmlns = ns)}
  IN  IF found = {} THEN NoElement ELSE kids[CHOOSE i \in found : \A j \in found : i <= j]

(* operator / of an element that is not const adds what it does not find. *)
Slash(d, x, name, ns) == IF FindChild(d.e, x, name, ns) = NoElement THEN AddChild(d, x, Element(name, ns)) ELSE d
=============================================================================
