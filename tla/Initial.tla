------------------------------- MODULE Initial -------------------------------
(***************************************************************************)
(* lugce/initial.hpp: settings in sections, read from lines of text and    *)
(* written to them.  A text is a sequence of characters; letters come in   *)
(* pairs of cases.                                                         *)
(***************************************************************************)
EXTENDS Integers, Sequences, FiniteSets, SequencesExt

CONSTANTS
  Letters,    \* pairs of a small letter and its capital
  CharOrder,  \* the characters in the order of their codes
  IniFiles,   \* the files that are loaded, each a sequence of lines
  IniNames,   \* the names of sections and items that callers use
  IniValues,  \* the values they store
  IniCalls    \* bound: calls on the object

VARIABLES
  _session,  \* the items of each section by their names
  iniCalls
iniVars == <<_session, iniCalls>>

NoSections == [s \in {} |-> <<>>]
IniInit == _session = NoSections /\ iniCalls = 0

-----------------------------------------------------------------------------
LowerCopy(t) == [i \in DOMAIN t |-> IF \E l \in Letters : l[2] = t[i] THEN (CHOOSE l \in Letters : l[2] = t[i])[1] ELSE t[i]]
UpperCopy(t) == [i \in DOMAIN t |-> IF \E l \in Letters : l[1] = t[i] THEN (CHOOSE l \in Letters : l[1] = t[i])[2] ELSE t[i]]

Trimmed(t) ==
  LET solid == {i \in DOMAIN t : t[i] # "SP"}
  IN  IF solid = {} THEN <<>>
      ELSE SubSeq(t, CHOOSE i \in solid : \A j \in solid : i <= j, CHOOSE i \in solid : \A j \in solid : j <= i)

(* The order of std::map. *)
CodeOf(c) == CHOOSE i \in DOMAIN CharOrder : CharOrder[i] = c
Before(a, b) ==
  \/ IsStrictPrefix(a, b)
  \/ \E i \in DOMAIN a \cap DOMAIN b :
       CodeOf(a[i]) < CodeOf(b[i]) /\ SubSeq(a, 1, i - 1) = SubSeq(b, 1, i - 1)
InOrder(names) == SetToSortSeq(names, Before)

(* slice_pair at the first "=". *)
SlicePair(line) ==
  LET o == SelectInSeq(line, LAMBDA c : c = "=")
  IN  IF o = 0 THEN <<line, <<>>>> ELSE <<SubSeq(line, 1, o - 1), SubSeq(line, o + 1, Len(line))>>

(* Wrong: the name keeps its capitals.                                     *)
GetSession_Capitals(line) == Trimmed(SubSeq(line, 2, Len(line) - 1))
(* What follows the bracket, but for the last character, whatever it is.   *)
GetSession(line) == Trimmed(LowerCopy(SubSeq(line, 2, Len(line) - 1)))

(* map::insert: what is there stays.                                       *)
Inserted(table, key, val) ==
  [k \in DOMAIN table \cup {key} |-> IF k \in DOMAIN table THEN table[k] ELSE val]
Section(sessions, name) == IF name \in DOMAIN sessions THEN sessions[name] ELSE [k \in {} |-> <<>>]
WithSection(sessions, name, table) ==
  [s \in DOMAIN sessions \cup {name} |-> IF s = name THEN table ELSE sessions[s]]

(* One turn of the loop over the lines.                                    *)
LoadLine(at, rawLine) ==
  LET line == Trimmed(rawLine)
      p == SlicePair(line)
  IN  IF line = <<>> \/ line[1] \in {"#", "'"} THEN at
      ELSE IF line[1] = "[" THEN [at EXCEPT !.current = GetSession(line)]
      ELSE [at EXCEPT !.sessions =
              WithSection(@, at.current, Inserted(Section(@, at.current), LowerCopy(Trimmed(p[1])), Trimmed(p[2])))]
LoadLines(sessions, lines) == FoldLeft(LoadLine, [sessions |-> sessions, current |-> <<>>], lines).sessions

(* operator <<: empty values are left out.                                 *)
ItemLines(table) ==
  FoldLeft(LAMBDA lines, k : IF table[k] = <<>> THEN lines ELSE Append(lines, k \o <<"=">> \o table[k]),
           <<>>, InOrder(DOMAIN table))
Lines(sessions) ==
  FoldLeft(LAMBDA lines, s : lines \o <<<<"[">> \o UpperCopy(s) \o <<"]">>>> \o ItemLines(sessions[s]) \o <<<<>>>>,
           <<>>, InOrder(DOMAIN sessions))

(* operator(): asking for an item makes it, and its section.               *)
Asked(sessions, name, key) ==
  LET s == LowerCopy(name) IN WithSection(sessions, s, Inserted(Section(sessions, s), key, <<>>))
Answer(sessions, name, key, default) ==
  LET v == Asked(sessions, name, key)[LowerCopy(name)][key] IN IF v = <<>> THEN default ELSE v

-----------------------------------------------------------------------------
IniCall == iniCalls < IniCalls /\ iniCalls' = iniCalls + 1
LoadFile == IniCall /\ \E f \in IniFiles : _session' = LoadLines(_session, f)
(* ini[ name ][ key ] = val, where session() makes the name lower case and *)
(* the caller's key stays as it is.                                        *)
StoreItem ==
  IniCall /\ \E name \in IniNames, key \in IniNames, val \in IniValues :
    LET s == LowerCopy(name)
    IN  _session' = WithSection(_session, s, [k \in DOMAIN Section(_session, s) \cup {key} |->
                                                IF k = key THEN val ELSE Section(_session, s)[k]])
AskItem == IniCall /\ \E name \in IniNames, key \in IniNames : _session' = Asked(_session, name, key)
SaveAndLoad == IniCall /\ _session' = LoadLines(NoSections, Lines(_session))

IniNext == LoadFile \/ StoreItem \/ AskItem \/ SaveAndLoad

-----------------------------------------------------------------------------
(* A name that a line can carry: no blanks around it, no capitals in it,   *)
(* and, for an item, no mark at its head and no "=".                       *)
PlainSection(s) == s = Trimmed(s) /\ s = LowerCopy(s)
PlainItem(k) == k = Trimmed(k) /\ k = LowerCopy(k) /\ "=" \notin ToSet(k) /\ (k # <<>> => k[1] \notin {"#", "'", "["})

(* Whoever asks the settings that were saved and loaded again gets the     *)
(* answers of those before (initial.hpp:91), if callers stored items under *)
(* plain names only, and values without blanks around them; and loading    *)
(* them over the old ones changes nothing.                                 *)
IniReadsBack ==
  (\A s \in DOMAIN _session : PlainSection(s) /\ \A k \in DOMAIN _session[s] :
     PlainItem(k) /\ _session[s][k] = Trimmed(_session[s][k])) =>
    /\ \A s \in DOMAIN _session : \A k \in DOMAIN _session[s] :
         Answer(LoadLines(NoSections, Lines(_session)), s, k, <<>>) = Answer(_session, s, k, <<>>)
    /\ LoadLines(_session, Lines(_session)) = _session
=============================================================================
