----------------------------- MODULE Transcoder -----------------------------
(***************************************************************************)
(* Transcoder (encoding/transcode.cpp): text in a code page of one byte a  *)
(* character to and from UTF-8, and from one code page to another.  A step *)
(* is a character, as in the loops of the code.  What a text becomes is    *)
(* then converted back.                                                    *)
(*                                                                         *)
(* Bytes and codes are numbers.  A string ends with a byte 0 that is not   *)
(* part of it; utf8_to_ucs4 may look at that byte and no further.          *)
(***************************************************************************)
EXTENDS Integers, Sequences, SequencesExt, FiniteSetsExt

CONSTANTS
    Codepage,   \* char_to_single_utf16_map_: the code of every byte in use
    Other,      \* the same of another code page
    Utf8Texts,  \* texts converted from UTF-8, and back
    ByteTexts   \* texts converted to UTF-8, and back

\* What an instance gives for the constants.
TranscoderAssumption ==
    \A page \in {Codepage, Other} :
        /\ DOMAIN page \subseteq 0..255
        /\ \A b \in DOMAIN page : page[b] \in 0..65535

VARIABLES
    mode,       \* "from" for UTF-8 to bytes, "to" for bytes to UTF-8,
                \* "section" for the overload that takes a pointer and a size,
                \* "pages" for bytes to bytes of the other page
    source,     \* the text of the first conversion
    src, at,    \* the text of this conversion and the place in it
    out,
    seen,       \* the last place of this text looked at
    pc          \* "first", "second", "done" or "failed"

vars == <<mode, source, src, at, out, seen, pc>>

-----------------------------------------------------------------------------
\* UTF-8.  Size and base of a sequence by its first byte.

\* utf8_size: 0 for a byte that begins nothing.
Utf8Size(first) ==
    CASE first < 128 -> 1
      [] first < 192 -> 0
      [] first < 224 -> 2
      [] first < 240 -> 3
      [] first < 248 -> 4
      [] first < 252 -> 5
      [] first < 254 -> 6
      [] OTHER -> 0

Fail == -1
ByteAt(s, i) == IF i <= Len(s) THEN s[i] ELSE 0
Continues(b) == b \div 64 = 2

\* The last place utf8_to_ucs4 looks at: on as long as it finds continuations.
Looked(s, i) ==
    IF s[i] < 192 THEN i
    ELSE LET most == IF Utf8Size(s[i]) = 0 THEN 6 ELSE Utf8Size(s[i])
             stops == {j \in (i + 1)..(i + most - 1) : ~Continues(ByteAt(s, j))}
         IN  IF stops = {} THEN i + most - 1 ELSE Min(stops)

Utf8ToUcs4(s, i) ==
    LET n == Utf8Size(s[i])
        base == <<0, 192, 224, 240, 248, 252>>[IF n = 0 THEN 1 ELSE n]
    IN  IF s[i] = 0 \/ n = 0 \/ \E j \in 1..(n - 1) : ~Continues(ByteAt(s, i + j))
        THEN Fail
        ELSE FoldLeft(LAMBDA c, j : c * 64 + (ByteAt(s, i + j) % 64),
                      s[i] - base, [j \in 1..(n - 1) |-> j])

\* The first unit of ucs4_to_utf16, the only one that is used.
Ucs4ToUtf16(c) ==
    CASE c <= 65533 -> c
      [] c \in 65536..1114111 -> ((c - 65536) \div 1024) + 55296
      [] OTHER -> Fail

\* utf16_to_ucs4 of one unit: a unit that must have a second one fails.
Utf16ToUcs4(u) == IF u \in 55296..56319 \/ u >= 65534 THEN Fail ELSE u

\* Mutant: the second limit is one too high.
Ucs4ToUtf8OffByOne(c) ==
    CASE c < 128 -> <<c>>
      [] c < 2049 -> <<192 + (c \div 64), 128 + (c % 64)>>
      [] OTHER -> <<224 + (c \div 4096), 128 + ((c \div 64) % 64), 128 + (c % 64)>>

\* ucs4_to_utf8, for the codes of one unit.
Ucs4ToUtf8(c) ==
    CASE c < 128 -> <<c>>
      [] c < 2048 -> <<192 + (c \div 64), 128 + (c % 64)>>
      [] OTHER -> <<224 + (c \div 4096), 128 + ((c \div 64) % 64), 128 + (c % 64)>>

-----------------------------------------------------------------------------
\* AddMapping for every byte in turn: of two bytes with one code the later one
\* is found.
GetChar(page, u) ==
    LET bytes == {b \in DOMAIN page : page[b] = u}
    IN  IF bytes = {} THEN Fail ELSE Max(bytes)

Init ==
    /\ \/ mode = "from" /\ source \in Utf8Texts
       \/ mode = "section" /\ source \in Utf8Texts \ {<<>>}
       \/ mode \in {"to", "pages"} /\ source \in ByteTexts
    /\ src = source /\ at = 1 /\ out = <<>> /\ seen = 0 /\ pc = "first"

FromUtf8Phase ==
    mode # "pages" /\ pc = (IF mode = "to" THEN "second" ELSE "first")
ToUtf8Phase ==
    mode # "pages" /\ pc = (IF mode = "to" THEN "first" ELSE "second")

FailHere == pc' = "failed" /\ UNCHANGED <<mode, source, src, at, out>>

\* Mutant: the place moves by the continuation bytes only.
FromUtf8SymbolShort ==
    LET u == IF Utf8ToUcs4(src, at) = Fail THEN Fail
             ELSE Ucs4ToUtf16(Utf8ToUcs4(src, at))
    IN  /\ FromUtf8Phase /\ at <= Len(src)
        /\ seen' = Looked(src, at)
        /\ IF u = Fail \/ GetChar(Codepage, u) = Fail THEN FailHere
           ELSE /\ out' = IF Len(out) < Len(src) THEN Append(out, GetChar(Codepage, u)) ELSE out
                /\ at' = at + Utf8Size(src[at]) - 1
                /\ UNCHANGED <<mode, source, src, pc>>

\* FromUtf8 of one symbol.
FromUtf8Symbol ==
    LET u == IF Utf8ToUcs4(src, at) = Fail THEN Fail
             ELSE Ucs4ToUtf16(Utf8ToUcs4(src, at))
    IN  /\ FromUtf8Phase /\ at <= Len(src)
        /\ IF Utf8Size(src[at]) > Len(src) - at + 1
           THEN FailHere /\ UNCHANGED seen
           ELSE /\ seen' = Looked(src, at)
                /\ IF u = Fail \/ GetChar(Codepage, u) = Fail THEN FailHere
                   ELSE /\ out' = Append(out, GetChar(Codepage, u))
                        /\ at' = at + Utf8Size(src[at])
                        /\ UNCHANGED <<mode, source, src, pc>>

\* A character of ToUtf8.
ToUtf8Char ==
    /\ ToUtf8Phase /\ at <= Len(src)
    /\ IF Utf16ToUcs4(Codepage[src[at]]) = Fail THEN FailHere /\ UNCHANGED seen
       ELSE /\ out' = out \o Ucs4ToUtf8(Utf16ToUcs4(Codepage[src[at]]))
            /\ at' = at + 1
            /\ UNCHANGED <<mode, source, src, seen, pc>>

\* A character of Transcode.
TranscodeChar ==
    LET from == IF pc = "first" THEN Codepage ELSE Other
        to == IF pc = "first" THEN Other ELSE Codepage
        found == GetChar(to, from[src[at]])
    IN  /\ mode = "pages" /\ pc \in {"first", "second"} /\ at <= Len(src)
        /\ IF found = Fail THEN FailHere /\ UNCHANGED seen
           ELSE /\ out' = Append(out, found)
                /\ at' = at + 1
                /\ UNCHANGED <<mode, source, src, seen, pc>>

\* FromUtf8 with a pointer and a size has no loop.
Converted ==
    IF mode = "section" /\ pc = "first" THEN at > 1 ELSE at > Len(src)

\* The end of a conversion; its result is converted back.
Back ==
    /\ pc = "first" /\ Converted
    /\ src' = out /\ at' = 1 /\ out' = <<>> /\ pc' = "second" /\ seen' = 0
    /\ UNCHANGED <<mode, source>>

Finish ==
    /\ pc = "second" /\ Converted
    /\ pc' = "done"
    /\ UNCHANGED <<mode, source, src, at, out, seen>>

Next ==
    \/ ~Converted /\ FromUtf8Symbol
    \/ ToUtf8Char
    \/ TranscodeChar
    \/ Back \/ Finish

Spec == Init /\ [][Next]_vars /\ WF_vars(Next)

-----------------------------------------------------------------------------
\* Type invariant.
TypeOK ==
    /\ at \in 1..(Len(src) + 1)
    /\ \A i \in DOMAIN out : out[i] \in 0..255
    /\ pc \in {"first", "second", "done", "failed"}

\* Nothing beyond the byte that ends a string is looked at, whatever bytes the
\* text is made of.
ReadsWithinText == seen <= Len(src) + 1

\* A code a byte has goes to UTF-8 and comes back as a byte of the same code.
\* Only the code 0, which FromUtf8 takes for an end, and codes that are no
\* characters fail.  A byte whose code a later byte has comes back as that one.
BytesReturn ==
    mode = "to" =>
        /\ pc = "done" => /\ Len(out) = Len(source)
                          /\ \A i \in DOMAIN out : Codepage[out[i]] = Codepage[source[i]]
        /\ pc = "failed" => \E i \in DOMAIN source :
                                Codepage[source[i]] = 0 \/ Utf16ToUcs4(Codepage[source[i]]) = Fail

\* What one page makes of a text of another has the same codes: converted back
\* it is the text, or has other bytes for the same codes, and a text fails only
\* for a code the other page lacks.
PagesReturn ==
    mode = "pages" =>
        /\ pc = "done" => /\ Len(out) = Len(source)
                          /\ \A i \in DOMAIN out : Codepage[out[i]] = Codepage[source[i]]
        /\ pc = "failed" => \E i \in DOMAIN source :
                                \A b \in DOMAIN Other : Other[b] # Codepage[source[i]]

\* A first byte, or a first and a second, that only begin forms longer than
\* their code needs, or codes of two units.
LongForm(s) ==
    \E i \in DOMAIN s :
        \/ s[i] \in {192, 193}
        \/ s[i] = 224 /\ ByteAt(s, i + 1) \in 128..159
        \/ s[i] >= 240

\* What FromUtf8 accepts is UTF-8 and is converted without loss: converted back
\* it is the same text.  Only long forms, which are accepted too, come back in
\* their short form.  Of a section, which is given by a pointer and a size, a
\* beginning is converted.
TextsReturn ==
    /\ (mode = "from" /\ pc = "done" /\ ~LongForm(source)) => out = source
    /\ (mode = "section" /\ pc = "done" /\ ~LongForm(source)) => IsPrefix(out, source)

Ended == pc \in {"done", "failed"}

=============================================================================
