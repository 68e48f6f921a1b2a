----------------------------- MODULE TokenCodec -----------------------------
(***************************************************************************)
(* Records as sequences of tokens.  A field of fixed width (an integer, a  *)
(* hash, a flag, a magic, a version) is one token; a field of variable     *)
(* length is a length and that many tokens; an option or a variant is a    *)
(* tag and the fields the tag calls for; a collection is a count and its   *)
(* items.  A codec is two layouts, the one its encoder writes and the one  *)
(* its decoder reads: nothing here makes them agree.                       *)
(***************************************************************************)
EXTENDS Integers, Sequences, SequencesExt, TLC

(***************************************************************************)
(* Layouts                                                                 *)
(***************************************************************************)
Field(name, kind, of) == [name |-> name, kind |-> kind, of |-> of]
Number(name) == Field(name, "number", <<>>)
Bytes(name) == Field(name, "bytes", <<>>)
Part(name, layout) == Field(name, "part", layout)
Many(name, layout) == Field(name, "many", layout)
Variant(name, layouts) == Field(name, "variant", layouts)   \* a layout for each tag
Optional(name, layout) == Variant(name, 0 :> <<>> @@ 1 :> layout)

Numbers(names) == [i \in DOMAIN names |-> Number(names[i])]

Nothing == [tag |-> 0]
Some(record) == ("tag" :> 1) @@ record

(***************************************************************************)
(* Writing (put_u16, put_u64, put_u128, put_bytes, put_blob) and reading   *)
(* (read_u8 .. read_blob): a read past the end fails.                      *)
(***************************************************************************)
RECURSIVE Written(_, _), Read(_, _), ReadMany(_, _, _)

WrittenField(f, v) ==
    CASE f.kind = "number"  -> <<v>>
      [] f.kind = "bytes"   -> <<Len(v)>> \o v
      [] f.kind = "part"    -> Written(f.of, v)
      [] f.kind = "variant" -> <<v.tag>> \o Written(f.of[v.tag], v)
      [] f.kind = "many"    -> <<Len(v)>> \o
             FlattenSeq([i \in DOMAIN v |-> Written(f.of, v[i])])

Written(layout, record) ==
    FlattenSeq([i \in DOMAIN layout |->
        WrittenField(layout[i], record[layout[i].name])])

Unreadable == [ok |-> FALSE]
Parsed(value, rest) == [ok |-> TRUE, value |-> value, rest |-> rest]

After(s, n) == SubSeq(s, n + 1, Len(s))

ReadField(f, s) ==
    IF f.kind = "part" THEN Read(f.of, s)
    ELSE IF s = <<>> THEN Unreadable
    ELSE LET first == Head(s) rest == Tail(s)
         IN  CASE f.kind = "number" -> Parsed(first, rest)
               [] f.kind = "bytes" ->
                    IF first > Len(rest) THEN Unreadable
                    ELSE Parsed(SubSeq(rest, 1, first), After(rest, first))
               [] f.kind = "variant" ->
                    IF first \notin DOMAIN f.of THEN Unreadable
                    ELSE LET p == Read(f.of[first], rest)
                         IN  IF p.ok THEN Parsed(("tag" :> first) @@ p.value, p.rest)
                             ELSE p
               [] f.kind = "many" -> ReadMany(f.of, first, rest)

Read(layout, s) ==
    IF layout = <<>> THEN Parsed(<<>>, s)
    ELSE LET p == ReadField(Head(layout), s)
             q == Read(Tail(layout), p.rest)
         IN  IF p.ok /\ q.ok
             THEN Parsed((Head(layout).name :> p.value) @@ q.value, q.rest)
             ELSE Unreadable

ReadMany(layout, count, s) ==
    IF count = 0 THEN Parsed(<<>>, s)
    ELSE LET p == Read(layout, s)
             q == ReadMany(layout, count - 1, p.rest)
         IN  IF p.ok /\ q.ok THEN Parsed(<<p.value>> \o q.value, q.rest) ELSE Unreadable

\* The cursor has to end where the bytes end.
ReadAll(layout, s) ==
    LET p == Read(layout, s) IN IF p.ok /\ p.rest = <<>> THEN p ELSE Unreadable

\* A decoder's own conditions on what it has read.
Provided(p, Condition(_)) ==
    IF p.ok THEN IF Condition(p.value) THEN p ELSE Unreadable ELSE Unreadable

(***************************************************************************)
(* Digests and the formats that end in one                                 *)
(***************************************************************************)
\* External (SHA-256, LogHash::digest): a number that depends on every token
\* and on its place.
RECURSIVE Digest(_)
Digest(s) ==
    IF s = <<>> THEN 11
    ELSE IF Len(s) = 1 THEN (s[1] * 7919 + 17) % 99989
    ELSE LET half == Len(s) \div 2
         IN  (Digest(SubSeq(s, 1, half)) * 131 + Digest(After(s, half)) * 7 + Len(s)) % 99989

WithDigest(magic, version, body) ==
    LET out == <<magic, version>> \o body IN Append(out, Digest(out))

\* Length and magic, then the digest, then the version, then the fields.
UnderDigest(magic, version, layout, s) ==
    IF Len(s) < 3 \/ s[1] # magic \/ Digest(Front(s)) # Last(s) \/ s[2] # version
    THEN Unreadable
    ELSE ReadAll(layout, After(Front(s), 2))

(***************************************************************************)
(* The order of names and of tuples: lexicographic                         *)
(***************************************************************************)
Precedes(s, t) ==
    \E i \in 1 .. Len(t) :
        /\ i - 1 <= Len(s)
        /\ SubSeq(s, 1, i - 1) = SubSeq(t, 1, i - 1)
        /\ Len(s) = i - 1 \/ s[i] < t[i]

Ascending(names) ==
    \A i \in 1 .. Len(names) - 1 : Precedes(names[i], names[i + 1])
=============================================================================
