---------------------------------- MODULE Ini ----------------------------------
(***************************************************************************)
(* ini_parse (lib/inih/ini.c): the calls of the handler a file leads to, as *)
(* the parser finds them line by line, and a definition of the same calls   *)
(* that looks at the whole file.                                            *)
(*                                                                          *)
(* A file is the sequence of lines that fgets returns of it: a longer line  *)
(* comes in pieces, and reading may stop before the end.  A line is a       *)
(* record: whether it begins with white space; its kind ("skip" is a blank  *)
(* line or a comment, "section" [key], "open" a section without its         *)
(* bracket, "pair" key = val, "bare" neither); its key, and what is left of *)
(* it within MAX_SECTION and MAX_NAME; and its text as a whole.  Names are  *)
(* equal when strcasecmp says so.                                           *)
(***************************************************************************)
EXTENDS Integers, Sequences, SequencesExt, FiniteSetsExt

Kinds == {"skip", "section", "open", "pair", "bare"}

IniLine ==
  {line \in [indent : BOOLEAN, kind : Kinds, key : STRING, cut : STRING, val : STRING, text : STRING] :
     line.cut = "" <=> line.key = ""}

\* A call of the handler.
Call(section, name, value) == [section |-> section, name |-> name, value |-> value]

--------------------------------------------------------------------------------
(* ini_parse_stream *)

Start == [lineno |-> 0, section |-> "", prev |-> "", error |-> 0, calls |-> <<>>]

Calls(s, name, value) == [s EXCEPT !.calls = Append(@, Call(s.section, name, value))]
Errs(s) == [s EXCEPT !.error = IF @ = 0 THEN s.lineno ELSE @]

\* Mutant: a section does not end the value before it.
ParseItemKeepsName(s, line) ==
  CASE line.kind = "section" -> [s EXCEPT !.section = line.cut]
    [] line.kind = "pair"    -> Calls([s EXCEPT !.prev = line.cut], line.key, line.val)
    [] OTHER                 -> Errs(s)

\* A line read on its own, not as part of a value.
ParseItem(s, line) ==
  CASE line.kind = "section" -> [s EXCEPT !.section = line.cut, !.prev = ""]
    [] line.kind = "pair"    -> Calls([s EXCEPT !.prev = line.cut], line.key, line.val)
    [] OTHER                 -> Errs(s)

ParseLine(before, line) ==
  LET s == [before EXCEPT !.lineno = @ + 1]
  IN  CASE line.kind = "skip"            -> s
        [] line.kind # "skip" /\ line.indent /\ s.prev # "" -> Calls(s, s.prev, line.text)
        [] OTHER                         -> ParseItem(s, line)

Parse(file) == FoldLeft(ParseLine, Start, file)

--------------------------------------------------------------------------------
(* The same, looking at the whole file. *)

\* Line i of the file ends the value of the name before it.
EndsValue(file, i) ==
  ~file[i].indent /\ (file[i].kind = "section" \/ (file[i].kind = "pair" /\ file[i].key = ""))

\* Line i goes on with the value of a pair above it.
Continues(file, i) ==
  /\ file[i].indent /\ file[i].kind # "skip"
  /\ \E p \in 1 .. i - 1 : /\ file[p].kind = "pair" /\ file[p].key # ""
                           /\ \A q \in p + 1 .. i - 1 : ~EndsValue(file, q)

\* The lines before i of this kind that are not part of a value.
Before(file, i, kind) == {p \in 1 .. i - 1 : file[p].kind = kind /\ ~Continues(file, p)}

LastKey(file, lines) == IF lines = {} THEN "" ELSE file[Max(lines)].cut

CallOf(file, i) ==
  LET section == LastKey(file, Before(file, i, "section"))
  IN  IF Continues(file, i) THEN Call(section, LastKey(file, Before(file, i, "pair")), file[i].text)
                            ELSE Call(section, file[i].key, file[i].val)

\* The lines up to i that lead to a call.
CallingUpTo(file, i) == {p \in 1 .. i : file[p].kind = "pair" \/ Continues(file, p)}

\* The n-th call is that of the line up to which there are n of them.
CallsOf(file) ==
  LET lines == CallingUpTo(file, Len(file))
  IN  [n \in 1 .. Cardinality(lines) |->
         CallOf(file, CHOOSE i \in lines : Cardinality(CallingUpTo(file, i)) = n)]

\* The first line that is not understood, or 0.
ErrorOf(file) ==
  LET bad == {i \in 1 .. Len(file) : file[i].kind \in {"open", "bare"} /\ ~Continues(file, i)}
  IN  IF bad = {} THEN 0 ELSE Min(bad)
================================================================================
