------------------------------ MODULE MCValues ------------------------------
(* Two variables of each class.  Urls with every part, and one with a port *)
(* that is none.  Messages with header lines of every kind and with a body *)
(* that is limited, empty or without limit, and one that is refused.       *)
(* Settings with every kind of line; words of two bits.                    *)
EXTENDS Values, MCXml, MCArchive
NumeralValue ==
  <<"0", "1", "2", "3", "4", "5", "6", "7", "8", "9", "10", "11", "12", "13", "14", "15", "16", "17", "18", "19",
    "20", "21", "80", "200", "8080", "70000">>
LowerValue == ("HTTP" :> "http") @@ ("Content-Length" :> "content-length")
MCNames == <<"a", "b">>
UrlTextsValue ==
  { <<"HTTP", "://", "u", ":", "x", "@", "h", ":", "80", "/", "p", "#", "f">>,
    <<"h", ":", "8080", "/", "x", "@", "y">>,
    <<"/", "p", "?", "a", "=", "1", "&", "b", "=", ";", "z">>,
    <<"ftp", "://", "h", ":", "21", "?">>,
    <<"h3", ":", "70000", "/", "q">> }

Response == <<"HTTP/", "1.1", "SP", "200", "SP", "CR", "LF">>
Request == <<"GET", "SP", "/", "SP", "HTTP/", "1.1", "CR", "LF">>
InputsValue ==
  { [noCase |-> FALSE, text |-> Request \o <<"Content-Length", ":", "2", "CR", "LF", "CR", "LF", "x", "LF", "y">>],
    [noCase |-> TRUE,  text |-> Response \o <<"Content-Length", ":", "SP", "0", "CR", "LF", "CR", "LF", "x">>],
    [noCase |-> FALSE, text |-> Response \o <<"A", ":", "1", "CR", "LF", "A", ":", "1", "CR", "LF", "CR", "LF", "x">>],
    [noCase |-> FALSE, text |-> <<"GET", "LF">>] }

LettersValue == {<<"a", "A">>, <<"x", "X">>}
CharOrderValue == <<"SP", "#", "'", "=", "A", "X", "[", "]", "a", "x">>
IniFilesValue ==
  { << <<"#", "a">>, <<"[", "SP", "A", "]", "SP">>, <<"SP", "X", "SP", "=", "a", "=", "A">>, <<"x", "=", "x">>, <<"a">> >>,
    << <<"x", "=", "x">>, <<"SP">>, <<"[", "a", "x">>, <<"=", "A">>, <<"'">>, <<"[">>, <<"a", "=">> >> }
IniNamesValue == {<<"a">>, <<"A">>, <<"a", "=">>}
IniValuesValue == {<<>>, <<"=", "X">>, <<"SP", "x">>}
MCData == {<<>>, <<11>>, <<255, 16>>}
VersionTextsValue == {<<"1", ",", "2", "SP", "x">>, <<"1", ".", "2", "_", "3">>, <<"1", "0", ".", "0", ".", "9", ".", "3", ".", "1">>, <<"2", "5", "6", ".", "7">>}
MCVersionParts == {0, 9, 10, 25, 300}
MCFunctor == [w \in Words |-> (2 * w + 1) % 4]

(* Messages differ only in name. *)
Symmetry == Permutations(Messages)

(* A value that stands for a constant in a .cfg is worked out at every use *)
(* of the constant, a name only looked up.                                 *)
MCNumeral == NumeralValue
MCLower == LowerValue
MCUrlTexts == UrlTextsValue
MCInputs == InputsValue
MCLetters == LettersValue
MCCharOrder == CharOrderValue
MCIniFiles == IniFilesValue
MCIniNames == IniNamesValue
MCIniValues == IniValuesValue
MCVersionTexts == VersionTextsValue
=============================================================================
