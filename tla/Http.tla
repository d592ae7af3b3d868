-------------------------------- MODULE Http --------------------------------
(***************************************************************************)
(* lugce/http.hpp: messages that are put together from their parts, or     *)
(* parsed from pieces as they arrive.  A message is a handle on data that  *)
(* its copies share until modify() gives one of them data of its own.      *)
(* Texts are sequences of tokens as in Url; the code 0 is "", an unlimited *)
(* body has the size -1, and "" in a sequence is no token.                 *)
(***************************************************************************)
EXTENDS Url

CONSTANTS
  Messages,   \* the handles
  Inputs,     \* the texts that arrive, with the no_case that parse is told
  HttpCalls   \* bound: calls on messages

ASSUME HttpAssumption ==
  /\ IsFiniteSet(Messages)
  /\ \A i \in Inputs : i.text \in Seq(ToSet(i.text))

VARIABLES
  data,      \* the data of each id that a handle has
  msg,       \* the id of each handle's data
  input,     \* what arrives
  fed,       \* since the last other call: the data then, what parse has taken and said
  httpCall   \* the number of calls, and the last: its handle and its name
httpVars == <<data, msg, input, fed, httpCall>>

Fresh ==
  [version |-> <<"1.1">>, code |-> "", method |-> <<>>, host |-> <<>>, url |-> Blank, params |-> NoParams,
   body |-> <<>>, cache |-> <<>>, header |-> TRUE, requisite |-> 0]
Unfed(d) == [from |-> d, taken |-> <<>>, at |-> 0, said |-> "false", behind |-> FALSE]

(* A message made with nothing, a method or a code, and its copies. *)
HttpInit ==
  /\ input \in Inputs
  /\ msg \in [Messages -> {1}]
  /\ \E d \in {Fresh, [Fresh EXCEPT !.method = <<"POST">>], [Fresh EXCEPT !.code = "200"]} :
       /\ data = [id \in {1} |-> d]
       /\ fed = [id \in {1} |-> Unfed(d)]
  /\ httpCall \in [n : {0}, h : Messages, op : {"copy"}]

-----------------------------------------------------------------------------
Find(t, token, i) == Min({j \in i..Len(t) : t[j] = token} \cup {Len(t) + 1})
NumberOf(t) == (CHOOSE i \in DOMAIN Numeral : Numeral[i] = t) - 1
OneNumber(text) == Len(text) = 1 /\ IsNumeral(text[1])
Trim(t) ==
  LET is == {i \in DOMAIN t : t[i] # "SP"} IN IF is = {} THEN <<>> ELSE SubSeq(t, Min(is), Max(is))
Says(d, r) == [d |-> d, r |-> r]
BeginsHttp(t, i) == i <= Len(t) /\ t[i] = "HTTP/"

(* parse_header: "more", "end" at the empty line, or "bad" for what throws. *)
FirstLine(d, line) ==
  LET i == Find(line, "SP", 1)   e == Find(line, "SP", i + 1)
      version == [d EXCEPT !.version = SubSeq(line, 2, i - 1)]
      method == [d EXCEPT !.method = SubSeq(line, 1, i - 1)]
      second == SubSeq(line, i + 1, e - 1)
      request == [method EXCEPT !.url = SetText(Blank, second)]
  IN  IF i > Len(line) THEN Says(d, "bad")
      ELSE IF BeginsHttp(line, 1)
           THEN IF e > Len(line) \/ ~OneNumber(second) \/ second[1] \in TooBig THEN Says(version, "bad")
                ELSE Says([version EXCEPT !.code = IF second[1] = "0" THEN "" ELSE second[1]], "more")
           ELSE IF e > Len(line) \/ PortThrows(second) THEN Says(method, "bad")
                ELSE IF BeginsHttp(line, e + 1)
                     THEN Says([request EXCEPT !.version = Rest(line, e + 1)], "more")
                     ELSE Says(request, "bad")

ParseHeader(d, line, noCase) ==
  LET i == Find(line, ":", 1)
      key == SubSeq(line, 1, i - 1)
      name == IF noCase THEN [j \in DOMAIN key |-> ToLower(key[j])] ELSE key
      value == Trim(Rest(line, i))
      before == IF name \in DOMAIN d.params THEN d.params[name] ELSE <<>>
      joined == IF before = <<>> THEN value ELSE before \o <<"CR", "LF">> \o value
  IN  IF d.code = "" /\ d.method = <<>> THEN FirstLine(d, line)
      ELSE IF line = <<>> THEN Says(d, "end")
      ELSE IF i > Len(line) THEN Says(d, "bad")
      ELSE Says([d EXCEPT !.params = (name :> joined) @@ @], "more")

(* Wrong: the "\r" is looked for in the piece at hand; k is the place there. *)
LineEnds_InPiece(cache, k) == k > 1 /\ cache[Len(cache) - 1] = "CR"
LineEnds(cache, k) == Len(cache) > 1 /\ cache[Len(cache) - 1] = "CR"

(* parse, a character of the header. *)
ParseChar(d, c, k, noCase) ==
  LET cache == Append(d.cache, c)
      p == ParseHeader([d EXCEPT !.cache = Front(Front(cache))], Front(Front(cache)), noCase)
  IN  IF c # "LF" THEN Says([d EXCEPT !.cache = cache], "more")
      ELSE IF ~LineEnds(cache, k) THEN Says([d EXCEPT !.cache = cache], "bad")
      ELSE IF p.r = "bad" THEN p
      ELSE Says([p.d EXCEPT !.cache = <<>>, !.header = (p.r = "more")], p.r)

(* The header has ended and the piece holds rest after it. *)
BodyBegins(d, rest, noCase) ==
  LET name == IF noCase THEN <<"content-length">> ELSE <<"Content-Length">>
      size == NumberOf(d.params[name][1])
  IN  IF name \notin DOMAIN d.params THEN Says([d EXCEPT !.requisite = -1, !.body = rest], "true")
      ELSE IF ~OneNumber(d.params[name]) THEN Says(d, "bad")
      ELSE IF size = 0 THEN Says([d EXCEPT !.requisite = 0], "true")
      ELSE IF size <= Len(rest) THEN Says([d EXCEPT !.requisite = size, !.body = SubSeq(rest, 1, size)], "true")
      ELSE Says([d EXCEPT !.requisite = size, !.body = rest], "false")

BodyGoesOn(d, piece) ==
  LET body == d.body \o piece
  IN  IF d.requisite >= 0 /\ Len(body) > d.requisite
      THEN Says([d EXCEPT !.body = SubSeq(body, 1, d.requisite)], "true")
      ELSE Says([d EXCEPT !.body = body], IF Len(body) = d.requisite THEN "true" ELSE "false")

Parse(d, piece, noCase) ==
  LET upTo[k \in Nat] ==
        IF k = 0 THEN Says(d, "more")
        ELSE CHOOSE s \in {IF p.r = "more" THEN ParseChar(p.d, piece[k], k, noCase) ELSE p : p \in {upTo[k - 1]}} : TRUE
      ends == {k \in 1..Len(piece) : piece[k] = "LF" /\ upTo[k].r = "end"}
      h == upTo[Len(piece)]
  IN  IF ~d.header THEN BodyGoesOn(d, piece)
      ELSE CASE h.r = "more" -> Says(h.d, "false")
             [] h.r = "bad"  -> h
             [] h.r = "end"  -> BodyBegins(h.d, Rest(piece, Min(ends)), noCase)

-----------------------------------------------------------------------------
(* Wrong: Content-Length is written among the parameters, too. *)
Written_All(d) == DOMAIN d.params
Written(d) == DOMAIN d.params \ {<<"Content-Length">>}

(* What str asserts when the cache is empty: a message that is no request  *)
(* has a code (line 132), and a request of which the host was set is of    *)
(* version 1.1 (line 138).                                                 *)
Asserted(d) == IF d.method = <<>> THEN d.code # "" ELSE d.host = <<>> \/ d.version = <<"1.1">>

(* str, when the cache is empty and nothing that it asserts is wrong.      *)
CRLF == <<"CR", "LF">>
Line(name, value) == name \o <<":", "SP">> \o value \o CRLF
Build(d) ==
  LET names == SetToSeq(Written(d))
      host == IF d.host # <<>> THEN d.host
              ELSE Opt(d.url.host # "", <<d.url.host>>) \o <<":", IF d.url.port = "" THEN "80" ELSE d.url.port>>
  IN  (IF d.method = <<>> THEN <<"HTTP/">> \o d.version \o <<"SP", d.code, "SP", "OK">> \o CRLF
       ELSE d.method \o <<"SP">> \o StrOf(d.url) \o <<"SP", "HTTP/">> \o d.version \o CRLF \o Line(<<"Host">>, host))
      \o FlattenSeq([i \in DOMAIN names |-> Line(names[i], d.params[names[i]])])
      \o Line(<<"Content-Length">>, <<Numeral[Len(d.body) + 1]>>) \o CRLF \o d.body
Text(d) == IF d.cache # <<>> THEN d.cache ELSE Build(d)

-----------------------------------------------------------------------------
Sharers(h) == {g \in Messages : msg[g] = msg[h]}
FreeId == Min((1..Cardinality(Messages)) \ {msg[g] : g \in Messages})

Calls(h, op) == httpCall.n < HttpCalls /\ httpCall' = [n |-> httpCall.n + 1, h |-> h, op |-> op]

(* The handles have the data ids; id's data becomes d and is fed f. *)
Store(ids, id, d, f) ==
  /\ msg' = ids
  /\ LET live == {ids[g] : g \in Messages}
     IN  /\ data' = [i \in live |-> IF i = id THEN d ELSE data[i]]
         /\ fed' = [i \in live |-> IF i = id THEN f ELSE fed[i]]
  /\ UNCHANGED input

(* Wrong: modify() clears the cache and goes on with the shared data. *)
Modified_Shared(h) == msg[h]
Modified(h) == IF Sharers(h) = {h} THEN msg[h] ELSE FreeId

(* A call that starts with modify() and leaves d.  What parse had of a     *)
(* line was in the cache.                                                  *)
Modify(h, op, d) ==
  /\ Calls(h, op)
  /\ Store([msg EXCEPT ![h] = Modified(h)], Modified(h), d, [Unfed(d) EXCEPT !.at = fed[msg[h]].at])
Mine(h) == [data[msg[h]] EXCEPT !.cache = <<>>]

SetHost(h) == Modify(h, "host", [Mine(h) EXCEPT !.host = <<"h2", ":", "8080">>])
SetVersion(h) == Modify(h, "version", [Mine(h) EXCEPT !.version = <<"1.0">>])
SetCode(h) == Modify(h, "code", [Mine(h) EXCEPT !.code = "200", !.method = <<>>])
SetMethod(h) == Modify(h, "method", [Mine(h) EXCEPT !.method = <<"PUT">>, !.code = ""])
SetUrl(h) ==
  \E t \in UrlTexts :
    Modify(h, "url", IF PortThrows(t) THEN Mine(h) ELSE [Mine(h) EXCEPT !.url = SetText(Blank, t)])
SetParam(h) ==
  \E name \in {<<"A">>, <<"Content-Length">>} :
    Modify(h, "param", [Mine(h) EXCEPT !.params = (name :> <<"1">>) @@ @])

(* body does not call modify(). *)
SetBody(h) ==
  LET d == [Mine(h) EXCEPT !.body = <<"x", "LF">>]
  IN  Calls(h, "body") /\ Store(msg, msg[h], d, [Unfed(d) EXCEPT !.at = fed[msg[h]].at])

(* str puts the text into the cache, and the url's text into the url's.    *)
Str(h) ==
  LET d == data[msg[h]]
      e == [d EXCEPT !.cache = Text(d), !.url.cache = IF d.cache = <<>> /\ d.method # <<>> THEN StrOf(d.url) ELSE @]
  IN  /\ d.cache # <<>> \/ Asserted(d)
      /\ Calls(h, "str")
      /\ Store(msg, msg[h], e, [Unfed(e) EXCEPT !.at = fed[msg[h]].at, !.behind = fed[msg[h]].behind])

(* An assertion of str fails and ends the program: no call comes after it. *)
StrAborts(h) ==
  /\ httpCall.n < HttpCalls
  /\ data[msg[h]].cache = <<>> /\ ~Asserted(data[msg[h]])
  /\ httpCall' = [n |-> HttpCalls, h |-> h, op |-> "abort"]
  /\ UNCHANGED <<data, msg, input, fed>>

CopyMessage(h, g) ==
  h # g /\ Calls(h, "copy") /\ Store([msg EXCEPT ![h] = msg[g]], 0, Fresh, Unfed(Fresh))

(* reset leaves shared data to the others; it clears all of its own. *)
ResetMessage(h) == Calls(h, "reset") /\ Store([msg EXCEPT ![h] = Modified(h)], Modified(h), Fresh, Unfed(Fresh))

(* parse, with the next piece; after an exception the caller gives up.     *)
ParseNext(h) ==
  LET id == msg[h]  f == fed[id]
  IN  /\ f.said # "bad" /\ Calls(h, "parse")
      /\ \E n \in 1..Len(input.text) - f.at :
         \E piece \in {SubSeq(input.text, f.at + 1, f.at + n)} : \E p \in {Parse(data[id], piece, input.noCase)} :
           Store(msg, id, p.d, [from |-> f.from, taken |-> f.taken \o piece, at |-> f.at + n, said |-> p.r,
                                behind |-> p.d.cache # <<>>])

HttpNext ==
  \E h \in Messages :
    \/ SetHost(h) \/ SetVersion(h) \/ SetCode(h) \/ SetMethod(h) \/ SetUrl(h) \/ SetParam(h) \/ SetBody(h)
    \/ Str(h) \/ StrAborts(h) \/ ResetMessage(h) \/ ParseNext(h)
    \/ \E g \in Messages : CopyMessage(h, g)

HttpSpec == HttpInit /\ [][HttpNext]_httpVars

-----------------------------------------------------------------------------
(* However a text is cut into pieces, parse makes the same of it as of the *)
(* whole: the same data, to the cache, and the same answer, but for a body *)
(* without a limit, of which every piece but the one that ends the header  *)
(* is answered with false (http.hpp:184-187, 202), and for a body that was *)
(* set before the header and outlives it when the size is 0 (line 175).    *)
PiecesAgree ==
  \A id \in DOMAIN fed : \A f \in {fed[id]} : f.taken # <<>> =>
    \A p \in {Parse(f.from, f.taken, input.noCase)} :
      \/ p.d = data[id] /\ (p.r = f.said \/ data[id].requisite = -1)
      \/ f.from.header /\ f.from.body # <<>> /\ data[id].requisite = 0

(* What a call does to one message shows in a copy of it only if the call  *)
(* is body() or parse(), which change the shared data (http.hpp:103, 158); *)
(* modify() and reset() keep all others from it.                           *)
Seen(h) == [data[msg[h]] EXCEPT !.cache = <<>>, !.url.cache = <<>>]
MessagesApart ==
  [][\A g \in Messages : Seen(g)' # Seen(g) =>
       \/ httpCall'.h = g
       \/ msg[g] = msg[httpCall'.h] /\ httpCall'.op \in {"body", "parse"}]_httpVars

(* What str() returns for a message, a new message parses into the same    *)
(* parts, however often the parts and the text were changed and asked for  *)
(* before; the url too, if it is one whose text is read as it was meant.   *)
(* Host and Content-Length come as parameters; a parameter that came twice *)
(* is written as a line without a colon, which parse refuses; the cache is *)
(* not to be one that parse has left (http.hpp:164, 197), and no assertion *)
(* of str is to fail.  A call changes the data of its own message alone,   *)
(* so that is the one to ask.                                              *)
StrReadsBack ==
  \A id \in {msg[httpCall.h]} : \A d \in {data[id]} :
    ( /\ Asserted(d) /\ ~fed[id].behind
      /\ \A n \in DOMAIN d.params : n # <<>> /\ "CR" \notin ToSet(d.params[n]) ) =>
    \A text \in {Text(d)} : \A p \in {Parse(Fresh, text, FALSE)} :
      /\ p.r = "true" /\ <<p.d.method, p.d.code, p.d.version, p.d.body>> = <<d.method, d.code, d.version, d.body>>
      /\ \A n \in DOMAIN d.params \ {<<"Host">>, <<"Content-Length">>} : p.d.params[n] = d.params[n]
      /\ d.method # <<>> /\ Regular(d.url) => p.d.url = [d.url EXCEPT !.cache = <<>>]
=============================================================================
