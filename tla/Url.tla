--------------------------------- MODULE Url --------------------------------
(***************************************************************************)
(* lugce/url.hpp: a url in parts, with the text of the whole in a cache.   *)
(* A text is a sequence of tokens, a token a word or one of Marks; the     *)
(* port 0 is "".  A url is set from a text by a regular expression, which  *)
(* a token never straddles, and set, one part at a time, by its user.      *)
(***************************************************************************)
EXTENDS Integers, Sequences, SequencesExt, FiniteSetsExt, TLC

CONSTANTS
  Numeral,    \* the tokens of numbers, from 0 up to any size of a body, then some others
  TooBig,     \* those of them that no unsigned short holds
  Lower,      \* the tokens that to_lower changes, with what they become
  NameOrder,  \* the names of parameters, as std::map orders them
  UrlTexts,   \* the texts that set() is called with
  UrlCalls    \* bound: calls on the url

ASSUME NumeralAssumption == Numeral \in Seq(ToSet(Numeral))

VARIABLES
  url,      \* the url
  shown,    \* what str() returned last
  behind,   \* the cache holds a text, and set, set_port or params changed a part after it
  urlCalls
urlVars == <<url, shown, behind, urlCalls>>

Marks == {"://", ":", "@", "/", "?", "#", "&", ";", "=", "SP", "CR", "LF"}
IsWord(t) == t \notin Marks
IsNumeral(t) == t \in ToSet(Numeral)
ToLower(t) == IF t \in DOMAIN Lower THEN Lower[t] ELSE t

(* The names of parameters are in NameOrder, in lower case; texts consist  *)
(* of tokens; a lower case word is one for good, and so are the words that *)
(* callers use here.                                                       *)
ASSUME UrlAssumption ==
  /\ NameOrder \in Seq(ToSet(NameOrder)) /\ "a" \in ToSet(NameOrder)
  /\ \A n \in ToSet(NameOrder) : IsWord(n) /\ ToLower(n) = n
  /\ \A t \in UrlTexts :
       /\ t \in Seq(ToSet(t))
       /\ \A i \in 1..Len(t) - 1 : IsWord(t[i]) /\ t[i + 1] = "=" => ToLower(t[i]) \in ToSet(NameOrder)
  /\ TooBig \subseteq ToSet(Numeral)
  /\ {"80", "8080"} \subseteq ToSet(Numeral) \ TooBig /\ {"", "me"} \cap ToSet(Numeral) = {}
  /\ \A w \in DOMAIN Lower : IsWord(Lower[w]) /\ Lower[w] \notin DOMAIN Lower
  /\ {"", "ftp", "http", "h2"} \cap DOMAIN Lower = {}

Opt(present, text) == IF present THEN text ELSE <<>>
NoParams == [n \in {} |-> <<>>]
(* What is set later stays. *)
Over(later, params) ==
  [n \in DOMAIN later \cup DOMAIN params |-> IF n \in DOMAIN later THEN later[n] ELSE params[n]]

Blank ==
  [scheme |-> "", user |-> "", passwd |-> <<>>, host |-> "", port |-> "",
   path |-> <<>>, params |-> NoParams, fragment |-> "", cache |-> <<>>]

UrlInit == url = Blank /\ shown = <<>> /\ behind = FALSE /\ urlCalls = 0

-----------------------------------------------------------------------------
ParamMarks == {"&", ";", "#"}
(* parse_param: the regular expression finds name=value, over and over.    *)
ParseParam(query) ==
  LET from[i \in Nat \ {0}] ==
        LET names == {j \in i..Len(query) - 1 : IsWord(query[j]) /\ query[j + 1] = "="}
            name == Min(names)
            stop == Min({k \in name + 2..Len(query) : query[k] \in ParamMarks} \cup {Len(query) + 1})
        IN  IF names = {} THEN NoParams
            ELSE Over(from[stop + 1], [n \in {ToLower(query[name])} |-> SubSeq(query, name + 2, stop - 1)])
  IN  from[1]

(* How many tokens the optional groups of the expression take: scheme and  *)
(* "://"; a user, perhaps ":" and anything else than "@", and "@".         *)
SchemeOf(t) == IF Len(t) > 1 /\ IsWord(t[1]) /\ t[2] = "://" THEN 2 ELSE 0
UserInfoOf(t) ==
  LET ats == {i \in 1..Len(t) : t[i] = "@"}
      at == Min(ats)
  IN  IF ats # {} /\ at > 1 /\ IsWord(t[1]) /\ ~IsNumeral(t[1]) /\ (at = 2 \/ (at > 3 /\ t[2] = ":"))
      THEN at ELSE 0
HostOf(t) ==
  IF t = <<>> \/ ~IsWord(t[1]) THEN 0 ELSE IF Len(t) > 2 /\ t[2] = ":" /\ IsNumeral(t[3]) THEN 3 ELSE 1
PathOf(t) == Min({i \in 1..Len(t) : t[i] \in {"?", "#"}} \cup {Len(t) + 1}) - 1
QueryOf(t) ==
  LET end == Min({i \in 2..Len(t) : t[i] = "#"} \cup {Len(t) + 1})
  IN  IF t # <<>> /\ t[1] = "?" /\ end > 2 THEN end - 1 ELSE 0
Rest(t, n) == SubSeq(t, n + 1, Len(t))

(* No port is kept: 0, which stands for none, or the scheme's own.         *)
DefaultPort(scheme, port) == port = "0" \/ (port = "80" /\ scheme = "http") \/ (port = "21" /\ scheme = "ftp")

(* What is left of a text before each group, and behind the last.          *)
Groups == <<"scheme", "user", "host", "path", "query">>
Taken(group, t) ==
  CASE group = "scheme" -> SchemeOf(t)
    [] group = "user"   -> UserInfoOf(t)
    [] group = "host"   -> HostOf(t)
    [] group = "path"   -> PathOf(t)
    [] group = "query"  -> QueryOf(t)
Cut(text) ==
  LET left[g \in 1..6] == IF g = 1 THEN text ELSE LET t == left[g - 1] IN Rest(t, Taken(Groups[g - 1], t))
  IN  left

Matches(t) ==
  LET fragment == t[6]
  IN  fragment = <<>> \/ (Len(fragment) = 2 /\ fragment[1] = "#" /\ IsWord(fragment[2]))

(* The parts that match replace those of u, the others and the cache stay. *)
SetParts(u, t) ==
  LET took(i) == Len(t[i]) - Len(t[i + 1])
      scheme == IF took(1) > 0 THEN ToLower(t[1][1]) ELSE u.scheme
      fragment == t[6]
  IN  IF ~Matches(t) THEN u
      ELSE [scheme |-> scheme,
            user |-> IF took(2) > 0 THEN t[2][1] ELSE u.user,
            passwd |-> IF took(2) > 2 THEN SubSeq(t[2], 3, took(2) - 1) ELSE u.passwd,
            host |-> IF took(3) > 0 THEN ToLower(t[3][1]) ELSE u.host,
            port |-> IF took(3) < 3 THEN u.port ELSE IF DefaultPort(scheme, t[3][3]) THEN "" ELSE t[3][3],
            path |-> SubSeq(t[4], 1, took(4)),
            params |-> IF took(5) > 0 THEN Over(ParseParam(SubSeq(t[5], 2, took(5))), u.params) ELSE u.params,
            fragment |-> IF fragment # <<>> THEN fragment[2] ELSE u.fragment,
            cache |-> u.cache]

(* set *)
SetText(u, text) == CHOOSE v \in {SetParts(u, t) : t \in {Cut(text)}} : TRUE

(* lexical_cast throws at a port that is too big: the parts before it have *)
(* been set, and the others have not.                                      *)
PortThrows(text) == \E t \in {Cut(text)} : Matches(t) /\ HostOf(t[3]) = 3 /\ t[3][3] \in TooBig
SetUpToPort(u, text) ==
  LET v == SetText(u, text)
  IN  [u EXCEPT !.scheme = v.scheme, !.user = v.user, !.passwd = v.passwd, !.host = v.host]

(* str, when there is nothing in the cache.  The last "&" is erased.       *)
Pairs(params) ==
  LET upTo[i \in 0..Len(NameOrder)] ==
        IF i = 0 THEN <<>>
        ELSE LET n == NameOrder[i]
             IN  upTo[i - 1] \o Opt(n \in DOMAIN params, <<n, "=">> \o params[n] \o <<"&">>)
  IN  upTo[Len(NameOrder)]
Assemble(u) ==
  Opt(u.scheme # "", <<u.scheme, "://">>)
  \o Opt(u.user # "", <<u.user>> \o Opt(u.passwd # <<>>, <<":">> \o u.passwd) \o <<"@">>)
  \o Opt(u.host # "", <<u.host>>)
  \o Opt(u.port # "", <<":", u.port>>)
  \o Opt(u.path # <<>>, Opt(u.path[1] # "/", <<"/">>) \o u.path)
  \o Opt(DOMAIN u.params # {}, <<"?">> \o Front(Pairs(u.params)))
  \o Opt(u.fragment # "", <<"#", u.fragment>>)
StrOf(u) == IF u.cache # <<>> THEN u.cache ELSE Assemble(u)

-----------------------------------------------------------------------------
UrlBecomes(u) ==
  /\ urlCalls < UrlCalls /\ urlCalls' = urlCalls + 1
  /\ url' = u
  /\ behind' = (behind /\ u.cache # <<>>)
UrlKeepsCache(u) ==
  /\ urlCalls < UrlCalls /\ urlCalls' = urlCalls + 1
  /\ url' = u
  /\ behind' = (u.cache # <<>> /\ (behind \/ u # url))

(* Wrong: set_user leaves the cache. *)
SetUser_Keeps(u, user, passwd) == [u EXCEPT !.user = user, !.passwd = IF passwd # <<>> THEN passwd ELSE @]
SetUser(u, user, passwd) ==
  [u EXCEPT !.user = user, !.passwd = IF passwd # <<>> THEN passwd ELSE @, !.cache = <<>>]

(* set, set_port and an assignment through params() know nothing of the cache. *)
UrlSet ==
  \E t \in UrlTexts :
    /\ UrlKeepsCache(IF PortThrows(t) THEN SetUpToPort(url, t) ELSE SetText(url, t))
    /\ UNCHANGED shown
UrlSetUser == \E pw \in {<<>>, <<"pw">>} : UrlBecomes(SetUser(url, "me", pw)) /\ UNCHANGED shown
UrlSetPassword == UrlBecomes([url EXCEPT !.passwd = <<"pw">>, !.cache = <<>>]) /\ UNCHANGED shown
UrlSetScheme == UrlBecomes([url EXCEPT !.scheme = "ftp", !.cache = <<>>]) /\ UNCHANGED shown

(* A port takes the place of a port only. *)
UrlSetHost ==
  \E p \in {"", "8080"} :
    /\ UrlBecomes([url EXCEPT !.host = "h2", !.port = IF @ # "" THEN p ELSE @,
                              !.scheme = IF @ = "" THEN "http" ELSE @, !.cache = <<>>])
    /\ UNCHANGED shown

UrlSetPort == \E p \in {"80", "8080"} : UrlKeepsCache([url EXCEPT !.port = p]) /\ UNCHANGED shown
UrlParams == UrlKeepsCache([url EXCEPT !.params = Over([n \in {"a"} |-> <<"2">>], @)]) /\ UNCHANGED shown
UrlReset == UrlBecomes(Blank) /\ UNCHANGED shown
UrlStr == shown' = StrOf(url) /\ UrlBecomes([url EXCEPT !.cache = StrOf(url)])

UrlNext ==
  UrlSet \/ UrlSetUser \/ UrlSetPassword \/ UrlSetScheme \/ UrlSetHost \/ UrlSetPort \/ UrlParams \/ UrlReset \/ UrlStr

-----------------------------------------------------------------------------
(* A text that is read as it was meant: what has a user or a port has a    *)
(* host, only a user has a password, no port is the scheme's own, and no   *)
(* "@" stands where the user would end.                                    *)
Regular(u) ==
  /\ u.user # "" \/ u.port # "" => u.host # ""
  /\ u.passwd # <<>> => u.user # ""
  /\ u.scheme # "" => u.host # "" \/ u.user # ""
  /\ ~DefaultPort(u.scheme, u.port)
  /\ u.path # <<>> => u.path[1] = "/"
  /\ u.user = "" => "@" \notin ToSet(Rest(Assemble(u), SchemeOf(Assemble(u))))

(* What str() returns, set() on a new url takes apart into the same parts, *)
(* and does not throw, if the parts are regular and no call that forgets   *)
(* the cache (set, set_port, params; url.hpp:117, 138, 170) came after the *)
(* text was put together.  That includes what a set that threw at a port   *)
(* (line 182) has left behind.                                             *)
UrlReadsBack ==
  Regular(url) /\ ~behind =>
    ~PortThrows(StrOf(url)) /\ SetText(Blank, StrOf(url)) = [url EXCEPT !.cache = <<>>]
=============================================================================
