------------------------------- MODULE Values -------------------------------
(***************************************************************************)
(* The parts of lugce that stand alone: the classes whose values are       *)
(* copied while they share memory or keep what they have computed (url,    *)
(* http, buffer, object), those that only turn text into values and back   *)
(* (initial, readable_data, version), the atomic integers, the xml parser  *)
(* with its tree, and the archives of gprotocol.  They do not meet at run  *)
(* time, so one of them is the subject of a behavior and the others stay   *)
(* as they are.                                                            *)
(***************************************************************************)
EXTENDS Http, Buffer, Object, Initial, Readable, Version, Atomics, Xml, Archive

VARIABLE subject
cacheVars == <<urlVars, httpVars, bufferVars, objectVars>>
formVars == <<iniVars, hexVars, version>>
streamVars == <<xmlVars, archiveVars>>
valueVars == <<subject, cacheVars, formVars, atomicVars, streamVars>>

Init ==
  /\ subject \in {"url", "http", "buffer", "object", "initial", "readable_data", "version", "atomic", "xml", "gprotocol"}
  /\ UrlInit /\ BufferInit /\ IniInit /\ XmlInit /\ ArchiveInit
  /\ ObjectInit /\ (subject # "object" => objCall.to = CHOOSE o \in Objects : TRUE)
  /\ HttpInit /\ (subject # "http" => data = [id \in {1} |-> Fresh] /\ input = CHOOSE i \in Inputs : TRUE)
  /\ HexInit /\ (subject # "readable_data" => values = CHOOSE v \in [data : Data, size : TypeSizes, upper : BOOLEAN] : TRUE)
  /\ VersionInit /\ (subject # "version" => version = NumbersOnly(<<0, 0, 0, 0>>))
  /\ AtomicInit /\ (subject # "atomic" => word = 0 /\ build = "int32")

UrlIsSubject == subject = "url" /\ UrlNext /\ UNCHANGED <<httpVars, bufferVars, objectVars, formVars, atomicVars, streamVars>>
HttpIsSubject == subject = "http" /\ HttpNext /\ UNCHANGED <<urlVars, bufferVars, objectVars, formVars, atomicVars, streamVars>>
BufferIsSubject == subject = "buffer" /\ BufferNext /\ UNCHANGED <<urlVars, httpVars, objectVars, formVars, atomicVars, streamVars>>
ObjectIsSubject == subject = "object" /\ ObjectNext /\ UNCHANGED <<urlVars, httpVars, bufferVars, formVars, atomicVars, streamVars>>
IniIsSubject == subject = "initial" /\ IniNext /\ UNCHANGED <<cacheVars, hexVars, version, atomicVars, streamVars>>
HexIsSubject == subject = "readable_data" /\ InsertSeparator /\ UNCHANGED <<cacheVars, iniVars, version, atomicVars, streamVars>>
AtomicIsSubject == subject = "atomic" /\ AtomicNext /\ UNCHANGED <<cacheVars, formVars, streamVars>>
XmlIsSubject == subject = "xml" /\ XmlNext /\ UNCHANGED <<cacheVars, formVars, atomicVars, archiveVars>>
ArchiveIsSubject == subject = "gprotocol" /\ ArchiveNext /\ UNCHANGED <<cacheVars, formVars, atomicVars, xmlVars>>

Next ==
  /\ \/ UrlIsSubject \/ HttpIsSubject \/ BufferIsSubject \/ ObjectIsSubject
     \/ IniIsSubject \/ HexIsSubject \/ AtomicIsSubject
     \/ XmlIsSubject \/ ArchiveIsSubject
  /\ UNCHANGED subject

Spec == Init /\ [][Next]_valueVars

-----------------------------------------------------------------------------
(* What settings, data and versions are written as reads back as what they *)
(* were: a saved settings file (initial.hpp:91), hexadecimal text          *)
(* (readable_data.hpp:170), a printed version (version.hpp:120).           *)
FormsReadBack ==
  /\ subject = "initial" => IniReadsBack
  /\ subject = "readable_data" => HexReadsBack
  /\ subject = "version" => VersionReadsBack
=============================================================================
