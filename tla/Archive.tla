------------------------------- MODULE Archive ------------------------------
(***************************************************************************)
(* lugce/gprotocol: oarchive_embedded writes fields, each a key (tag and   *)
(* wire type) and a value, to a stream; iarchive_embedded is told the      *)
(* fields it knows and loads them from the stream by their keys.  Between  *)
(* the two the stream may be cut.                                          *)
(*                                                                         *)
(* A field's type stands for the coder that get_coder selects for it: an   *)
(* embedded message is of one class with one field, a pair is of unsigned  *)
(* integers, so is what an optional and a packed container hold.  Loading  *)
(* a container does not compile, nor does a pair of strings or an enum, so *)
(* containers are written only.                                            *)
(***************************************************************************)
EXTENDS Varint, FiniteSets, SequencesExt

CONSTANTS
  Tags,       \* the tags that writers use
  TypeOf,     \* the type of each tag's field
  ValuesOf,   \* the values of each type that are written
  InnerTag,   \* the tag of the embedded class's field, of type "uint"
  Unset,      \* a field that has not been loaded, an optional that is not there
  MaxFields   \* bound: the fields of a message

Types == {"uint", "sint", "bool", "float", "double", "string", "pair", "optional", "class", "packed", "unpacked"}
Containers == {"packed", "unpacked"}

(* One tag at most is of the embedded class: "inner" names its load.       *)
ASSUME ArchiveAssumption ==
  /\ Tags \subseteq Nat \ {0} /\ InnerTag \in Nat \ {0} /\ MaxFields \in Nat
  /\ TypeOf \in [Tags -> Types]
  /\ \A t, u \in Tags : TypeOf[t] = "class" /\ TypeOf[u] = "class" => t = u

(* The values are of their types, a string's length fits the size that is  *)
(* written, and Unset, an optional that is not there, is no value.         *)
ASSUME ValuesAssumption ==
  /\ ValuesOf["uint"] \subseteq Unsigned /\ ValuesOf["sint"] \subseteq Signed
  /\ ValuesOf["bool"] \subseteq {0, 1}
  /\ ValuesOf["float"] \subseteq Nat /\ ValuesOf["double"] \subseteq Nat
  /\ ValuesOf["string"] \subseteq {s \in Seq(Nat) : Len(s) < Modulus}
  /\ ValuesOf["pair"] \subseteq Unsigned \X Unsigned
  /\ ValuesOf["optional"] \subseteq Unsigned \cup {Unset}
  /\ ValuesOf["class"] \subseteq Unsigned
  /\ ValuesOf["packed"] \subseteq Seq(Unsigned) /\ ValuesOf["unpacked"] \subseteq Seq(Unsigned)
  /\ \A ty \in Types \ (Containers \cup {"optional"}) : Unset \notin ValuesOf[ty]
  /\ Unset \notin Unsigned

VARIABLES
  sent,    \* the fields that were written
  out,     \* the bytes they made
  wtag,    \* oarchive_embedded::_tag
  recv,    \* the bytes that arrive
  known,   \* the tags in iarchive_embedded::_decoders
  pos,     \* where the reading stream is, from 1
  eof,     \* its end has been seen
  frames,  \* the loads that are under way: "outer", and "inner" for a class
  obj,     \* what the outer object's fields have been set to
  status   \* "writing", "loading", "done" or "bad_cast"

archiveVars == <<sent, out, wtag, recv, known, pos, eof, frames, obj, status>>

ArchiveInit ==
  /\ sent = <<>> /\ out = <<>> /\ wtag = 1
  /\ recv = <<>> /\ known = {} /\ pos = 1 /\ eof = FALSE /\ frames = <<>>
  /\ obj = [t \in Tags |-> Unset]
  /\ status = "writing"

-----------------------------------------------------------------------------
(* wire, wire_key *)
Wire(ty) ==
  CASE ty \in {"uint", "sint", "bool"} -> 0
    [] ty = "double" -> 1
    [] ty = "float"  -> 5
    [] OTHER         -> 2

WireKey(wire, tag) == tag * 8 + wire
Key(ty, tag) == Save(WireKey(Wire(ty), tag), FALSE)

(* Keys are integers.  Two codes with their keys are fewer bytes than a    *)
(* group counts, and the keys of a pair and of the embedded class's field  *)
(* are kept: 128 is more than 16, and than twice 19 and 2.                 *)
ASSUME KeysAssumption ==
  /\ \A t \in Tags \cup {InnerTag} : WireKey(7, t) < Modulus
  /\ Base > 16 /\ Base > 2 * Longest + 2 /\ Base <= Modulus
  /\ Kept(WireKey(0, InnerTag), FALSE)

WithLength(bytes) == Save(Len(bytes), FALSE) \o bytes
Repeat(b, n) == [i \in 1..n |-> b]

(* save of a value without a key. *)
Body(ty, v) ==
  CASE ty = "uint"     -> Save(v, FALSE)
    [] ty = "sint"     -> Save(v, TRUE)
    [] ty = "bool"     -> <<v>>
    [] ty = "float"    -> Repeat(v, 4)
    [] ty = "double"   -> Repeat(v, 8)
    [] ty = "string"   -> WithLength(v)
    [] ty = "pair"     -> WithLength(Key("uint", 1) \o Save(v[1], FALSE) \o Key("uint", 2) \o Save(v[2], FALSE))
    [] ty = "optional" -> Save(v, FALSE)
    [] ty = "class"    -> WithLength(Key("uint", InnerTag) \o Save(v, FALSE))

(* Wrong: an optional that is not there leaves its key. *)
Field_KeepsKey(tag, ty, v) ==
  IF ty \in Containers
  THEN FlattenSeq([i \in DOMAIN v |-> (IF ty = "packed" THEN <<>> ELSE Key("uint", tag)) \o Save(v[i], FALSE)])
  ELSE Key(ty, tag) \o (IF v = Unset THEN <<>> ELSE Body(ty, v))

(* save with a key: an optional that is not there leaves nothing, a        *)
(* container its elements, each with the key or, packed, without any key.  *)
Field(tag, ty, v) ==
  IF ty \in Containers
  THEN FlattenSeq([i \in DOMAIN v |-> (IF ty = "packed" THEN <<>> ELSE Key("uint", tag)) \o Save(v[i], FALSE)])
  ELSE IF v = Unset THEN <<>> ELSE Key(ty, tag) \o Body(ty, v)

(* oarchive_embedded::serialize, with a tag or with the next one.          *)
Serialize(tag, v) ==
  /\ status = "writing" /\ Len(sent) < MaxFields
  /\ sent' = Append(sent, [tag |-> tag, v |-> v, end |-> Len(out) + Len(Field(tag, TypeOf[tag], v))])
  /\ out' = out \o Field(tag, TypeOf[tag], v)
  /\ wtag' = tag + 1
  /\ UNCHANGED <<recv, known, pos, eof, frames, obj, status>>

(* write: like a string, but it does not move the next tag. *)
WriteString(tag, v) ==
  /\ status = "writing" /\ Len(sent) < MaxFields
  /\ sent' = Append(sent, [tag |-> tag, v |-> v, end |-> Len(out) + Len(Field(tag, "string", v))])
  /\ out' = out \o Field(tag, "string", v)
  /\ UNCHANGED <<wtag, recv, known, pos, eof, frames, obj, status>>
SerializeNext == wtag \in Tags /\ \E v \in ValuesOf[TypeOf[wtag]] : Serialize(wtag, v)

-----------------------------------------------------------------------------
(* iarchive::load: a new iarchive_embedded, to which the object's          *)
(* serialize has named its fields, loads.  n bytes have arrived.           *)
Loadable == {t \in Tags : TypeOf[t] \notin Containers}
StartLoad(n, tags) ==
  /\ status = "writing" /\ sent # <<>>
  /\ status' = "loading" /\ recv' = SubSeq(out, 1, n) /\ known' = tags
  /\ frames' = <<"outer">>
  /\ UNCHANGED <<sent, out, wtag, pos, eof, obj>>

(* varint_coder<uint32_t>::load from the stream at p.                      *)
Number[p \in Nat] == LoadUnsigned(recv, p)

(* seekg, and read(): fewer bytes than are asked for end the stream.       *)
Skipped(p, n) ==
  IF p + n > Len(recv) + 1 THEN Took(0, Len(recv) + 1, TRUE, FALSE) ELSE Took(0, p + n, FALSE, FALSE)

(* skip_type: a seek beyond the end fails, after which the next varint is  *)
(* read as bytes of 0xFF without an end, and throws.                       *)
SkipType(wire, p) ==
  CASE wire = 0 -> Number[p]
    [] wire = 1 -> Took(0, p + 8, FALSE, FALSE)
    [] wire = 2 -> LET n == Number[p] IN [n EXCEPT !.v = 0, !.p = @ + n.v]
    [] wire = 5 -> Took(0, p + 4, FALSE, FALSE)
    [] OTHER    -> Took(0, p, FALSE, TRUE)

(* What read( &v[0], n ) leaves in a string of n zeros.                    *)
Bytes(p, n) == [i \in 1..n |-> IF p + i - 1 <= Len(recv) THEN recv[p + i - 1] ELSE 0]

(* The loads of a pair: its length is read and not used.                   *)
LoadPair(p) ==
  LET len == Number[p]
      k1 == Number[len.p]  l == Number[k1.p]
      k2 == Number[l.p]    r == Number[k2.p]
  IN  Took(<<l.v, r.v>>, r.p, r.eof,
           k1.v # WireKey(0, 1) \/ k2.v # WireKey(0, 2) \/ len.bad \/ l.bad \/ r.bad)

(* The other load functions: get() at the end is not 0, so a bool is TRUE. *)
LoadBody(ty, p) ==
  CASE ty \in {"uint", "optional"} -> Number[p]
    [] ty = "sint"   -> Load(recv, p, TRUE)
    [] ty = "bool"   -> [Skipped(p, 1) EXCEPT !.v = IF p > Len(recv) \/ recv[p] # 0 THEN 1 ELSE 0]
    [] ty = "float"  -> [Skipped(p, 4) EXCEPT !.v = IF p > Len(recv) THEN 0 ELSE recv[p]]
    [] ty = "double" -> [Skipped(p, 8) EXCEPT !.v = IF p > Len(recv) THEN 0 ELSE recv[p]]
    [] ty = "string" -> LET n == Number[p]
                        IN  [Skipped(n.p, n.v) EXCEPT !.v = Bytes(n.p, n.v), !.bad = n.bad]
    [] ty = "pair"   -> LoadPair(p)

Goes(r, fs) ==
  /\ pos' = r.p /\ eof' = r.eof
  /\ frames' = IF r.bad THEN <<>> ELSE fs
  /\ status' = IF r.bad THEN "bad_cast" ELSE IF fs = <<>> THEN "done" ELSE "loading"

(* Wrong: the end of the stream does not end the loop. *)
OnEnd_Again(rest) == frames
OnEnd(rest) == rest

(* One round of the loop in load().  An embedded message is loaded by an   *)
(* archive of its own, which has no byte_count and reads to the end of the *)
(* stream; a field that is not known ends the load that meets it.          *)
LoadRound ==
  /\ status = "loading"
  /\ \E key \in {IF pos > Len(recv) + 1 THEN Took(0, pos, FALSE, TRUE) ELSE Number[pos]} :
     LET top == Last(frames)  rest == Front(frames)
         idx == key.v \div 8  wire == key.v % 8
         found == idx \in (IF top = "outer" THEN known ELSE {InnerTag})
         ty == IF ~found THEN "" ELSE IF top = "outer" THEN TypeOf[idx] ELSE "uint"
         at == IF top = "outer" THEN idx ELSE CHOOSE t \in Tags : TypeOf[t] = "class"
     IN  IF eof \/ key.eof \/ key.bad
         THEN Goes([key EXCEPT !.eof = TRUE, !.bad = @ /\ ~eof], OnEnd(rest)) /\ UNCHANGED obj
         ELSE \/ ~found /\ Goes(SkipType(wire, key.p), rest) /\ UNCHANGED obj
              \/ found /\ wire # Wire(ty) /\ Goes([key EXCEPT !.bad = TRUE], rest) /\ UNCHANGED obj
              \/ /\ found /\ wire = Wire(ty) /\ ty = "class"
                 /\ Goes(Number[key.p], Append(frames, "inner")) /\ UNCHANGED obj
              \/ /\ found /\ wire = Wire(ty) /\ ty # "class"
                 /\ \E r \in {LoadBody(ty, key.p)} :
                      /\ Goes(r, frames)
                      /\ obj' = IF r.bad THEN obj ELSE [obj EXCEPT ![at] = r.v]
  /\ UNCHANGED <<sent, out, wtag, recv, known>>

ArchiveNext ==
  \/ \E t \in Tags : \E v \in ValuesOf[TypeOf[t]] : Serialize(t, v)
  \/ SerializeNext
  \/ \E t \in Tags : TypeOf[t] = "string" /\ \E v \in ValuesOf["string"] : WriteString(t, v)
  \/ \E n \in 0..Len(out), others \in SUBSET {sent[i].tag : i \in DOMAIN sent} :
       StartLoad(n, Loadable \ others)
  \/ LoadRound

ArchiveSpec == ArchiveInit /\ [][ArchiveNext]_archiveVars

-----------------------------------------------------------------------------
Ty(f) == TypeOf[f.tag]
Whole(i) == sent[i].end <= Len(recv)
Start(i) == IF i = 1 THEN 0 ELSE sent[i - 1].end
KeyKept(f) == Kept(WireKey(Wire(IF Ty(f) \in Containers THEN "uint" ELSE Ty(f)), f.tag), FALSE)
BodyKept(f) ==
  CASE Ty(f) \in {"uint", "optional", "class"} -> Kept(f.v, FALSE)
    [] Ty(f) = "sint"   -> Kept(f.v, TRUE)
    [] Ty(f) = "string" -> Kept(Len(f.v), FALSE)
    [] Ty(f) = "pair"   -> Kept(f.v[1], FALSE) /\ Kept(f.v[2], FALSE)
    [] Ty(f) = "unpacked" -> Kept(f.v[1], FALSE)
    [] OTHER            -> TRUE

(* An optional that is not there and an empty container leave no bytes.    *)
Absent(f) == IF Ty(f) \in Containers THEN f.v = <<>> ELSE f.v = Unset
Good(i) ==
  \/ Absent(sent[i])
  \/ /\ Whole(i) /\ sent[i].tag \in known /\ KeyKept(sent[i]) /\ BodyKept(sent[i])
     /\ Ty(sent[i]) = "class" => sent[i].end = Len(recv)

(* The first field that does not simply arrive, and what has arrived then. *)
FirstBad == CHOOSE n \in 1..Len(sent) + 1 :
              (n > Len(sent) \/ ~Good(n)) /\ \A i \in 1..n - 1 : Good(i)
Arrived(t, n) ==
  LET is == {i \in 1..n - 1 : sent[i].tag = t /\ ~Absent(sent[i])}
  IN  IF is = {} THEN Unset ELSE sent[CHOOSE i \in is : \A j \in is : j <= i].v
CutOff(n) == n <= Len(sent) /\ ~Whole(n)
Unknown(n) == n <= Len(sent) /\ Whole(n) /\ sent[n].tag \notin known

(* A load that ends otherwise than there has read what save() did not keep,*)
(* an embedded message that is not the last thing in the stream, or the    *)
(* numbers of a packed container as keys.                                  *)
Foreseen(n) ==
  \/ n > Len(sent)
  \/ /\ Unknown(n) \/ (CutOff(n) /\ BodyKept(sent[n]))
     /\ KeyKept(sent[n]) /\ Ty(sent[n]) # "packed"

(* A field of tag t comes after the unknown field n, which in the code     *)
(* ends the load: whether it arrives is left open here.                    *)
Behind(t, n) == Unknown(n) /\ \E i \in n + 1..Len(sent) : sent[i].tag = t

(* Fields that were written arrive as they were written, the last of each  *)
(* tag, up to the place where the bytes end or a field comes whose tag is  *)
(* not known (lines 124-152 of gprotocol_iarchive.hpp), and no later round *)
(* sets a tag of which nothing is written behind that.  It holds as long   *)
(* as every varint is one that save() keeps, an embedded message is the    *)
(* last thing in the stream, and no container of numbers was packed.  Of a *)
(* field that is cut only its own value, or an exception, may come; a      *)
(* field that is not known throws only if its own number, or length, is    *)
(* one that save() cuts short, or if a field behind it is not good either. *)
FieldsArrive ==
  status \in {"done", "bad_cast"} =>
    \A n \in {FirstBad} :
      Foreseen(n) =>
        /\ \/ status = "done" \/ CutOff(n) \/ ~BodyKept(sent[n])
           \/ Unknown(n) /\ \E i \in n + 1..Len(sent) : ~Good(i)
        /\ \A t \in Tags : (CutOff(n) /\ t = sent[n].tag) \/ Behind(t, n) \/ obj[t] = Arrived(t, n)

(* A field whose tag the archive does not know is skipped, as the comment  *)
(* at line 136 of gprotocol_iarchive.hpp says: where nothing else is wrong *)
(* with a message, the fields that are known arrive.  An optional's wire   *)
(* type announces a length that it does not have, and a container's        *)
(* numbers are not one field, so neither could be skipped.                 *)
Skippable(i) ==
  \/ Good(i)
  \/ /\ Unknown(i) /\ KeyKept(sent[i]) /\ BodyKept(sent[i])
     /\ Ty(sent[i]) \notin Containers \cup {"optional"}
UnknownSkipped ==
  status \in {"done", "bad_cast"} /\ (\A i \in DOMAIN sent : Skippable(i)) =>
    \A t \in known : obj[t] = Arrived(t, Len(sent) + 1)

(* A number is read back, to its last byte and no further, exactly if it   *)
(* is one that the varints keep: no group of it is 0x80 with nothing above *)
(* (line 93 of gprotocol_common.hpp), and a signed one is in the inner     *)
(* half of its range (lines 123-126 shift with the sign).                  *)
VarintsExact ==
  \A i \in DOMAIN sent : Ty(sent[i]) \in {"uint", "sint"} =>
    LET f == sent[i]  signed == Ty(f) = "sint"
    IN  (Load(out, f.end - Len(Body(Ty(f), f.v)) + 1, signed) = Took(f.v, f.end + 1, FALSE, FALSE))
          <=> Kept(f.v, signed)

(* A load ends, whatever has arrived: every round of its loop takes bytes  *)
(* of what is left, and a load ends at the end of the bytes                *)
(* (lines 124-152 of gprotocol_iarchive.hpp).                              *)
RoundsAdvance ==
  [][status = "loading" =>
       \/ pos <= Len(recv) /\ pos' > pos
       \/ Len(frames') < Len(frames)]_archiveVars
=============================================================================
