------------------------------- MODULE Ini_proof -------------------------------
(***************************************************************************)
(* The parser of Ini, for files of any length: what it calls and what it    *)
(* reports is what the file as a whole says.  The proof is by induction on  *)
(* the number of lines that are parsed.                                     *)
(***************************************************************************)
EXTENDS Ini, FiniteSetTheorems, WellFoundedInduction, TLAPS

\* Induction, for a set of numbers in place of a predicate.
LEMMA NatSetInduction ==
  ASSUME NEW S, 0 \in S, \A n \in Nat : n \in S => n + 1 \in S
  PROVE  Nat \subseteq S
<1> DEFINE Less == {p \in Nat \X Nat : p[1] < p[2]}
           T == {n \in Nat : n \notin S}
<1>0. IsWellFoundedOn(Less, Nat)
  BY NatLessThanWellFounded, Zenon DEF OpToRel
<1> SUFFICES ASSUME T # {} PROVE FALSE
  OBVIOUS
<1>1. T \subseteq Nat
  OBVIOUS
<1>2. PICK x \in T : \A y \in T : ~(<<y, x>> \in Less)
  <2> HIDE DEF Less, T
  <2> QED
    BY <1>0, <1>1, WFMin
<1>3. x \in Nat /\ x \notin S /\ x # 0
  OBVIOUS
<1>4. x - 1 \in Nat /\ x - 1 + 1 = x
  BY <1>3
<1>5. x - 1 \notin S
  BY <1>3, <1>4
<1>6. x - 1 \in T /\ <<x - 1, x>> \in Less
  BY <1>3, <1>4, <1>5
<1> QED
  BY <1>2, <1>6

\* The largest of some numbers up to n + 1 is n + 1 when that is among them.
LEMMA MaxOfPrefix ==
  ASSUME NEW n \in Nat, NEW T, T \subseteq 1 .. n + 1, n + 1 \in T
  PROVE  Max(T) = n + 1
<1>1. \A y \in T : n + 1 >= y
  OBVIOUS
<1>2. \A x \in T : (\A y \in T : x >= y) => x = n + 1
  <2> TAKE x \in T
  <2> SUFFICES ASSUME \A y \in T : x >= y PROVE x = n + 1
    OBVIOUS
  <2>1. x \in 1 .. n + 1 /\ x >= n + 1
    OBVIOUS
  <2> QED
    BY <2>1
<1> QED
  BY <1>1, <1>2 DEF Max

\* g is what the fold of ParseLine is over the subsets of the first n lines.
IsFold(g, file, n) ==
  g = [s \in SUBSET (1 .. n) |->
        IF s = {} THEN Start ELSE ParseLine(g[s \ {Max(s)}], file[Max(s)])]

\* The fold is defined, whatever the number of lines.
LEMMA FoldExists ==
  ASSUME NEW file, NEW n \in Nat
  PROVE  \E g : IsFold(g, file, n)
<1> DEFINE S == {k \in Nat : \E g : IsFold(g, file, k)}
<1>1. 0 \in S
  <2> DEFINE g == [s \in SUBSET (1 .. 0) |-> Start]
  <2>1. SUBSET (1 .. 0) = {{}}
    OBVIOUS
  <2>2. IsFold(g, file, 0)
    BY <2>1 DEF IsFold
  <2> QED
    BY <2>2
<1>2. ASSUME NEW k \in Nat, NEW g, IsFold(g, file, k)
      PROVE  \E h : IsFold(h, file, k + 1)
  <2> DEFINE h == [s \in SUBSET (1 .. k + 1) |->
                    IF k + 1 \in s THEN ParseLine(g[s \ {k + 1}], file[k + 1]) ELSE g[s]]
  <2>1. ASSUME NEW s \in SUBSET (1 .. k + 1)
        PROVE  h[s] = IF s = {} THEN Start ELSE ParseLine(h[s \ {Max(s)}], file[Max(s)])
    <3>1. CASE k + 1 \in s
      <4>1. Max(s) = k + 1
        BY <3>1, MaxOfPrefix
      <4>2. s \ {k + 1} \in SUBSET (1 .. k + 1) /\ k + 1 \notin s \ {k + 1}
        OBVIOUS
      <4> QED
        BY <3>1, <4>1, <4>2
    <3>2. CASE k + 1 \notin s
      <4>1. s \in SUBSET (1 .. k)
        BY <3>2
      <4>2. s \ {Max(s)} \in SUBSET (1 .. k + 1) /\ k + 1 \notin s \ {Max(s)}
        BY <3>2
      <4>3. h[s \ {Max(s)}] = g[s \ {Max(s)}]
        BY <4>2
      <4>4. h[s] = g[s]
        BY <3>2
      <4>5. g[s] = IF s = {} THEN Start ELSE ParseLine(g[s \ {Max(s)}], file[Max(s)])
        BY <1>2, <4>1 DEF IsFold
      <4> QED
        BY <4>3, <4>4, <4>5
    <3> QED
      BY <3>1, <3>2
  <2>2. h = [s \in SUBSET (1 .. k + 1) |-> h[s]]
    OBVIOUS
  <2> HIDE DEF h
  <2>3. IsFold(h, file, k + 1)
    BY <2>1, <2>2 DEF IsFold
  <2> QED
    BY <2>3
<1>3. \A k \in Nat : k \in S => k + 1 \in S
  BY <1>2
<1>4. Nat \subseteq S
  <2> HIDE DEF S
  <2> QED
    BY <1>1, <1>3, NatSetInduction
<1> QED
  BY <1>4

\* The states of the parser after each number of lines.
IsParsing(after, file) ==
  /\ after[0] = Start
  /\ \A n \in 0 .. Len(file) - 1 : after[n + 1] = ParseLine(after[n], file[n + 1])
  /\ Parse(file) = after[Len(file)]

\* The parser takes one line after the other.
LEMMA ParsingExists ==
  ASSUME NEW file \in Seq(IniLine)
  PROVE  \E after : IsParsing(after, file)
<1> DEFINE iter == CHOOSE g : IsFold(g, file, Len(file))
           after == [n \in 0 .. Len(file) |-> iter[1 .. n]]
<1>0. Len(file) \in Nat /\ DOMAIN file = 1 .. Len(file)
  OBVIOUS
<1>1. IsFold(iter, file, Len(file))
  BY <1>0, FoldExists
<1>2. Parse(file) = iter[1 .. Len(file)]
  BY <1>0 DEF Parse, FoldLeft, MapThenFoldSet, IsFold
<1> HIDE DEF iter
<1>3. iter[1 .. 0] = Start
  <2>1. 1 .. 0 = {} /\ 1 .. 0 \in SUBSET (1 .. Len(file))
    BY <1>0
  <2> QED
    BY <1>1, <2>1 DEF IsFold
<1>4. ASSUME NEW n \in 0 .. Len(file) - 1
      PROVE  iter[1 .. n + 1] = ParseLine(iter[1 .. n], file[n + 1])
  <2>0. n \in Nat /\ n + 1 <= Len(file)
    BY <1>0
  <2>1. 1 .. n + 1 \in SUBSET (1 .. Len(file)) /\ 1 .. n + 1 # {} /\ n + 1 \in 1 .. n + 1
    <3>1. n + 1 \in 1 .. n + 1
      BY <2>0
    <3>2. \A x \in 1 .. n + 1 : x \in 1 .. Len(file)
      BY <1>0, <2>0
    <3> QED
      BY <3>1, <3>2
  <2>2. (1 .. n + 1) \ {n + 1} = 1 .. n
    BY <1>0
  <2>3. Max(1 .. n + 1) = n + 1
    BY <2>0, <2>1, MaxOfPrefix
  <2> QED
    BY <1>1, <2>1, <2>2, <2>3 DEF IsFold
<1>5. IsParsing(after, file)
  <2>1. after[0] = Start /\ Parse(file) = after[Len(file)]
    BY <1>0, <1>2, <1>3
  <2>2. ASSUME NEW n \in 0 .. Len(file) - 1
        PROVE  after[n + 1] = ParseLine(after[n], file[n + 1])
    BY <1>0, <1>4
  <2> QED
    BY <2>1, <2>2 DEF IsParsing
<1> QED
  BY <1>5

--------------------------------------------------------------------------------
(* What the whole file says of its first lines, one line at a time. *)

\* After n lines a value may go on.
Open(file, n) ==
  \E p \in 1 .. n : /\ file[p].kind = "pair" /\ file[p].key # ""
                    /\ \A q \in p + 1 .. n : ~EndsValue(file, q)

\* The lines up to n that are not understood.
Bad(file, n) == {i \in 1 .. n : file[i].kind \in {"open", "bare"} /\ ~Continues(file, i)}

\* A value is opened by a pair with a name, until a line ends it.
LEMMA OpenStep ==
  ASSUME NEW file, NEW n \in Nat
  PROVE  Open(file, n + 1) <=> \/ file[n + 1].kind = "pair" /\ file[n + 1].key # ""
                               \/ Open(file, n) /\ ~EndsValue(file, n + 1)
<1>1. ASSUME NEW p \in 1 .. n + 1, file[p].kind = "pair", file[p].key # "",
             \A q \in p + 1 .. n + 1 : ~EndsValue(file, q)
      PROVE  \/ file[n + 1].kind = "pair" /\ file[n + 1].key # ""
             \/ Open(file, n) /\ ~EndsValue(file, n + 1)
  <2>1. CASE p = n + 1
    BY <1>1, <2>1
  <2>2. CASE p # n + 1
    <3>1. p \in 1 .. n /\ n + 1 \in p + 1 .. n + 1 /\ \A q \in p + 1 .. n : q \in p + 1 .. n + 1
      BY <2>2
    <3> QED
      BY <1>1, <3>1 DEF Open
  <2> QED
    BY <2>1, <2>2
<1>2. ASSUME file[n + 1].kind = "pair", file[n + 1].key # ""
      PROVE  Open(file, n + 1)
  <2>1. n + 1 \in 1 .. n + 1 /\ n + 1 + 1 .. n + 1 = {}
    OBVIOUS
  <2> QED
    BY <1>2, <2>1 DEF Open
<1>3. ASSUME Open(file, n), ~EndsValue(file, n + 1)
      PROVE  Open(file, n + 1)
  <2>1. PICK p \in 1 .. n : /\ file[p].kind = "pair" /\ file[p].key # ""
                            /\ \A q \in p + 1 .. n : ~EndsValue(file, q)
    BY <1>3 DEF Open
  <2>2. p \in 1 .. n + 1 /\ \A q \in p + 1 .. n + 1 : q \in p + 1 .. n \/ q = n + 1
    OBVIOUS
  <2> QED
    BY <1>3, <2>1, <2>2 DEF Open
<1> QED
  BY <1>1, <1>2, <1>3 DEF Open

\* The last key of a kind is that of the last line, or as before it.
LEMMA LastKeyStep ==
  ASSUME NEW file, NEW n \in Nat, NEW kind
  PROVE  LastKey(file, Before(file, n + 1 + 1, kind)) =
           IF file[n + 1].kind = kind /\ ~Continues(file, n + 1)
           THEN file[n + 1].cut ELSE LastKey(file, Before(file, n + 1, kind))
<1>1. n + 1 + 1 - 1 = n + 1 /\ n + 1 - 1 = n
  OBVIOUS
<1>2. \A p : p \in 1 .. n + 1 <=> p \in 1 .. n \/ p = n + 1
  OBVIOUS
<1>3. CASE file[n + 1].kind = kind /\ ~Continues(file, n + 1)
  <2> DEFINE T == Before(file, n + 1 + 1, kind)
  <2>1. n + 1 \in T /\ T \subseteq 1 .. n + 1
    BY <1>1, <1>2, <1>3 DEF Before
  <2> HIDE DEF T
  <2>2. Max(T) = n + 1 /\ T # {}
    BY <2>1, MaxOfPrefix
  <2>3. LastKey(file, T) = file[n + 1].cut
    BY <2>2 DEF LastKey
  <2> QED
    BY <1>3, <2>3 DEF T
<1>4. CASE ~(file[n + 1].kind = kind /\ ~Continues(file, n + 1))
  <2>1. Before(file, n + 1 + 1, kind) = Before(file, n + 1, kind)
    BY <1>1, <1>2, <1>4 DEF Before
  <2> QED
    BY <1>4, <2>1
<1> QED
  BY <1>3, <1>4

\* So with the lines that are not understood ...
LEMMA BadStep ==
  ASSUME NEW file, NEW n \in Nat
  PROVE  Bad(file, n + 1) =
           IF file[n + 1].kind \in {"open", "bare"} /\ ~Continues(file, n + 1)
           THEN Bad(file, n) \cup {n + 1} ELSE Bad(file, n)
<1>1. \A p : p \in 1 .. n + 1 <=> p \in 1 .. n \/ p = n + 1
  OBVIOUS
<1> QED
  BY <1>1 DEF Bad

\* Line i calls the handler.
Calling(file, i) == file[i].kind = "pair" \/ Continues(file, i)

\* ... and with those that call: there is one more of them, or none.
LEMMA CallingStep ==
  ASSUME NEW file, NEW n \in Nat
  PROVE  /\ Cardinality(CallingUpTo(file, n)) \in Nat
         /\ Calling(file, n + 1) =>
              /\ CallingUpTo(file, n + 1) = CallingUpTo(file, n) \cup {n + 1}
              /\ Cardinality(CallingUpTo(file, n + 1)) = Cardinality(CallingUpTo(file, n)) + 1
         /\ ~Calling(file, n + 1) => CallingUpTo(file, n + 1) = CallingUpTo(file, n)
<1>1. \A p : p \in 1 .. n + 1 <=> p \in 1 .. n \/ p = n + 1
  OBVIOUS
<1>2. IsFiniteSet(CallingUpTo(file, n))
  <2>1. IsFiniteSet(1 .. n)
    BY FS_Interval
  <2> QED
    BY <2>1, FS_Subset DEF CallingUpTo
<1>3. n + 1 \notin CallingUpTo(file, n)
  BY DEF CallingUpTo
<1>4. Calling(file, n + 1) => CallingUpTo(file, n + 1) = CallingUpTo(file, n) \cup {n + 1}
  BY <1>1 DEF CallingUpTo, Calling
<1>5. ~Calling(file, n + 1) => CallingUpTo(file, n + 1) = CallingUpTo(file, n)
  BY <1>1 DEF CallingUpTo, Calling
<1>6. Cardinality(CallingUpTo(file, n)) \in Nat
  BY <1>2, FS_CardinalityType
<1>7. Cardinality(CallingUpTo(file, n) \cup {n + 1}) = Cardinality(CallingUpTo(file, n)) + 1
  BY <1>2, <1>3, FS_AddElement
<1> QED
  BY <1>4, <1>5, <1>6, <1>7

--------------------------------------------------------------------------------
(* What the parser makes of one line. *)

\* The provers have to be told that "" is a string.
Texts == STRING \cup {""}

CallTypes == [section : Texts, name : Texts, value : Texts]

\* The parser between two lines.
ParserStates == [lineno : Nat, section : Texts, prev : Texts, error : Nat, calls : Seq(CallTypes)]

\* The parser takes the line as part of a value.
GoesOn(s, line) == line.kind # "skip" /\ line.indent /\ s.prev # ""

\* Field by field: a line changes the section, the open name, the error, the calls.
LEMMA ParseLineFields ==
  ASSUME NEW s \in ParserStates, NEW line \in IniLine
  PROVE  /\ ParseLine(s, line) \in ParserStates
         /\ ParseLine(s, line).lineno = s.lineno + 1
         /\ ParseLine(s, line).section =
              IF line.kind = "section" /\ ~GoesOn(s, line) THEN line.cut ELSE s.section
         /\ ParseLine(s, line).prev =
              IF GoesOn(s, line) \/ line.kind \notin {"section", "pair"} THEN s.prev
              ELSE IF line.kind = "section" THEN "" ELSE line.cut
         /\ ParseLine(s, line).error =
              IF line.kind \in {"open", "bare"} /\ ~GoesOn(s, line) /\ s.error = 0
              THEN s.lineno + 1 ELSE s.error
         /\ ParseLine(s, line).calls =
              IF GoesOn(s, line) THEN Append(s.calls, Call(s.section, s.prev, line.text))
              ELSE IF line.kind = "pair" THEN Append(s.calls, Call(s.section, line.key, line.val))
              ELSE s.calls
<1> DEFINE t == [s EXCEPT !.lineno = @ + 1]
<1>1. /\ t \in ParserStates /\ t.lineno = s.lineno + 1 /\ t.section = s.section
      /\ t.prev = s.prev /\ t.error = s.error /\ t.calls = s.calls
  BY DEF ParserStates
<1>2. /\ line.kind = "skip" => ParseLine(s, line) = t
      /\ GoesOn(s, line) => ParseLine(s, line) = Calls(t, s.prev, line.text)
      /\ line.kind # "skip" /\ ~GoesOn(s, line) => ParseLine(s, line) = ParseItem(t, line)
  <2>1. CASE line.kind = "skip"
    BY <1>1, <2>1 DEF ParseLine, GoesOn
  <2>2. CASE GoesOn(s, line)
    BY <1>1, <2>2 DEF ParseLine, GoesOn
  <2>3. CASE line.kind # "skip" /\ ~GoesOn(s, line)
    BY <1>1, <2>3 DEF ParseLine, GoesOn
  <2> QED
    BY <2>1, <2>2, <2>3 DEF GoesOn
<1> HIDE DEF t
<1>3. /\ line.indent \in BOOLEAN /\ line.kind \in Kinds
      /\ line.key \in Texts /\ line.cut \in Texts /\ line.val \in Texts /\ line.text \in Texts
  BY DEF IniLine, Texts
<1>4. /\ s.lineno \in Nat /\ s.section \in Texts /\ s.prev \in Texts /\ s.error \in Nat
      /\ s.calls \in Seq(CallTypes)
  BY DEF ParserStates
<1>5. ASSUME NEW name \in Texts, NEW value \in Texts, NEW r \in ParserStates
      PROVE  /\ Calls(r, name, value) \in ParserStates
             /\ Calls(r, name, value).calls = Append(r.calls, Call(r.section, name, value))
             /\ Calls(r, name, value).lineno = r.lineno
             /\ Calls(r, name, value).section = r.section
             /\ Calls(r, name, value).prev = r.prev
             /\ Calls(r, name, value).error = r.error
  <2>1. r.section \in Texts /\ r.calls \in Seq(CallTypes)
    BY DEF ParserStates
  <2>2. Call(r.section, name, value) \in CallTypes
    BY <2>1 DEF Call, CallTypes
  <2>3. Append(r.calls, Call(r.section, name, value)) \in Seq(CallTypes)
    BY <2>1, <2>2
  <2> HIDE DEF CallTypes
  <2> QED
    BY <2>3 DEF Calls, ParserStates
<1>6. CASE line.kind = "skip"
  BY <1>1, <1>2, <1>6 DEF GoesOn
<1>7. CASE GoesOn(s, line)
  <2>1. ParseLine(s, line) = Calls(t, s.prev, line.text) /\ line.kind # "skip"
    BY <1>2, <1>7 DEF GoesOn
  <2>2. /\ ParseLine(s, line) \in ParserStates
        /\ ParseLine(s, line).calls = Append(t.calls, Call(t.section, s.prev, line.text))
        /\ ParseLine(s, line).lineno = t.lineno
        /\ ParseLine(s, line).section = t.section
        /\ ParseLine(s, line).prev = t.prev
        /\ ParseLine(s, line).error = t.error
    <3>1. /\ Calls(t, s.prev, line.text) \in ParserStates
          /\ Calls(t, s.prev, line.text).calls = Append(t.calls, Call(t.section, s.prev, line.text))
          /\ Calls(t, s.prev, line.text).lineno = t.lineno
          /\ Calls(t, s.prev, line.text).section = t.section
          /\ Calls(t, s.prev, line.text).prev = t.prev
          /\ Calls(t, s.prev, line.text).error = t.error
      <4>1. s.prev \in Texts /\ line.text \in Texts /\ t \in ParserStates
        BY <1>1, <1>3, <1>4
      <4> QED
        BY <1>5, <4>1
    <3> QED
      BY <2>1, <3>1
  <2> QED
    BY <1>1, <1>7, <2>2
<1>8. CASE line.kind # "skip" /\ ~GoesOn(s, line)
  <2>0. ParseLine(s, line) = ParseItem(t, line) /\ ~GoesOn(s, line)
    BY <1>2, <1>8
  <2>1. CASE line.kind = "section"
    <3> DEFINE u == [t EXCEPT !.section = line.cut, !.prev = ""]
    <3>1. ParseLine(s, line) = u
      BY <2>0, <2>1 DEF ParseItem
    <3>2. /\ u \in ParserStates /\ u.lineno = t.lineno /\ u.section = line.cut
          /\ u.prev = "" /\ u.error = t.error /\ u.calls = t.calls
      <4>1. "" \in Texts
        BY DEF Texts
      <4> HIDE DEF CallTypes
      <4> QED
        BY <1>1, <1>3, <4>1 DEF ParserStates
    <3> HIDE DEF u
    <3> QED
      BY <1>1, <2>0, <2>1, <3>1, <3>2
  <2>2. CASE line.kind = "pair"
    <3> DEFINE u == [t EXCEPT !.prev = line.cut]
    <3>1. ParseLine(s, line) = Calls(u, line.key, line.val)
      BY <2>0, <2>2 DEF ParseItem
    <3>2. /\ u \in ParserStates /\ u.lineno = t.lineno /\ u.section = t.section
          /\ u.prev = line.cut /\ u.error = t.error /\ u.calls = t.calls
      BY <1>1, <1>3 DEF ParserStates
    <3> HIDE DEF u
    <3>3. /\ ParseLine(s, line) \in ParserStates
          /\ ParseLine(s, line).calls = Append(u.calls, Call(u.section, line.key, line.val))
          /\ ParseLine(s, line).lineno = u.lineno
          /\ ParseLine(s, line).section = u.section
          /\ ParseLine(s, line).prev = u.prev
          /\ ParseLine(s, line).error = u.error
      BY <1>3, <1>5, <3>1, <3>2
    <3> QED
      BY <1>1, <2>0, <2>2, <3>2, <3>3
  <2>3. CASE line.kind \in {"open", "bare"}
    <3>1. ParseLine(s, line) = Errs(t)
      BY <2>0, <2>3 DEF ParseItem
    <3>2. /\ Errs(t) \in ParserStates /\ Errs(t).lineno = t.lineno /\ Errs(t).section = t.section
          /\ Errs(t).prev = t.prev /\ Errs(t).calls = t.calls
          /\ Errs(t).error = IF t.error = 0 THEN t.lineno ELSE t.error
      BY <1>1 DEF Errs, ParserStates
    <3> QED
      BY <1>1, <2>0, <2>3, <3>1, <3>2
  <2> QED
    BY <1>3, <1>8, <2>1, <2>2, <2>3 DEF Kinds
<1> QED
  BY <1>6, <1>7, <1>8

--------------------------------------------------------------------------------
(* The parser, after n lines, knows what the first n lines of the file say. *)

\* The calls are those of the lines that call, in their order.
CallsMatch(calls, file, n) ==
  /\ Len(calls) = Cardinality(CallingUpTo(file, n))
  /\ \A i \in CallingUpTo(file, n) :
       /\ Cardinality(CallingUpTo(file, i)) \in DOMAIN calls
       /\ calls[Cardinality(CallingUpTo(file, i))] = CallOf(file, i)
  /\ \A k \in DOMAIN calls :
       \E i \in CallingUpTo(file, n) : Cardinality(CallingUpTo(file, i)) = k

\* The error is the first line that is not understood.
ErrorMatches(error, file, n) ==
  \/ error = 0 /\ Bad(file, n) = {}
  \/ error \in Bad(file, n) /\ \A i \in Bad(file, n) : error <= i

\* The name is kept while a value may go on.
NameMatches(prev, file, n) ==
  /\ prev # "" <=> Open(file, n)
  /\ prev # "" => prev = LastKey(file, Before(file, n + 1, "pair"))

\* The induction's hypothesis.
Knows(s, file, n) ==
  /\ s \in ParserStates
  /\ s.lineno = n
  /\ s.section = LastKey(file, Before(file, n + 1, "section"))
  /\ NameMatches(s.prev, file, n)
  /\ ErrorMatches(s.error, file, n)
  /\ CallsMatch(s.calls, file, n)

\* No line has been read, nothing is known.
LEMMA KnowsAtStart ==
  ASSUME NEW file
  PROVE  Knows(Start, file, 0)
<1>1. Start \in ParserStates /\ Start.lineno = 0 /\ Start.section = "" /\ Start.prev = ""
      /\ Start.error = 0 /\ Start.calls = <<>>
  <2>1. "" \in Texts
    BY DEF Texts
  <2>2. <<>> \in Seq(CallTypes)
    OBVIOUS
  <2> QED
    BY <2>1, <2>2 DEF Start, ParserStates
<1>2. 1 .. 0 = {} /\ 0 + 1 - 1 = 0
  OBVIOUS
<1>3. Before(file, 0 + 1, "section") = {} /\ Bad(file, 0) = {} /\ CallingUpTo(file, 0) = {}
      /\ ~Open(file, 0)
  BY <1>2 DEF Before, Bad, CallingUpTo, Open
<1>4. LastKey(file, Before(file, 0 + 1, "section")) = ""
  BY <1>3 DEF LastKey
<1>5. Cardinality(CallingUpTo(file, 0)) = 0
  BY <1>3, FS_EmptySet
<1>6. CallsMatch(<<>>, file, 0)
  BY <1>3, <1>5 DEF CallsMatch
<1> QED
  BY <1>1, <1>3, <1>4, <1>6 DEF Knows, NameMatches, ErrorMatches

\* The parser goes on with a value where the file says so.
LEMMA GoesOnMeans ==
  ASSUME NEW file, NEW n \in Nat, NEW s, Knows(s, file, n), file[n + 1] \in IniLine
  PROVE  GoesOn(s, file[n + 1]) <=> Continues(file, n + 1)
<1>1. n + 1 - 1 = n
  OBVIOUS
<1>2. s.prev # "" <=> Open(file, n)
  BY DEF Knows, NameMatches
<1>3. Continues(file, n + 1) <=>
        file[n + 1].indent /\ file[n + 1].kind # "skip" /\ Open(file, n)
  <2>1. Continues(file, n + 1) <=>
          file[n + 1].indent /\ file[n + 1].kind # "skip" /\ Open(file, n + 1 - 1)
    BY DEF Continues, Open
  <2> QED
    BY <1>1, <2>1
<1>4. file[n + 1].indent \in BOOLEAN
  BY DEF IniLine
<1> QED
  BY <1>2, <1>3, <1>4 DEF GoesOn

\* One more call, for a line that calls.
LEMMA CallAppended ==
  ASSUME NEW file, NEW n \in Nat, NEW calls \in Seq(CallTypes), CallsMatch(calls, file, n),
         Calling(file, n + 1)
  PROVE  CallsMatch(Append(calls, CallOf(file, n + 1)), file, n + 1)
<1> DEFINE card(i) == Cardinality(CallingUpTo(file, i))
           more == Append(calls, CallOf(file, n + 1))
<1>1. /\ card(n) \in Nat /\ card(n + 1) = card(n) + 1
      /\ CallingUpTo(file, n + 1) = CallingUpTo(file, n) \cup {n + 1}
  BY CallingStep
<1>2. Len(calls) = card(n)
  BY DEF CallsMatch
<1>3. /\ Len(more) = card(n) + 1
      /\ DOMAIN more = 1 .. card(n) + 1 /\ DOMAIN calls = 1 .. card(n)
      /\ \A k \in 1 .. card(n) : more[k] = calls[k]
      /\ more[card(n) + 1] = CallOf(file, n + 1)
  BY <1>2
<1>4. /\ \A i \in CallingUpTo(file, n) : card(i) \in DOMAIN calls /\ calls[card(i)] = CallOf(file, i)
      /\ \A k \in DOMAIN calls : \E i \in CallingUpTo(file, n) : card(i) = k
  BY DEF CallsMatch
<1> HIDE DEF card, more
<1>5. ASSUME NEW i \in CallingUpTo(file, n + 1)
      PROVE  card(i) \in DOMAIN more /\ more[card(i)] = CallOf(file, i)
  <2>1. CASE i = n + 1
    BY <1>1, <1>3, <2>1
  <2>2. CASE i \in CallingUpTo(file, n)
    <3>1. card(i) \in 1 .. card(n) /\ calls[card(i)] = CallOf(file, i)
      BY <1>3, <1>4, <2>2
    <3> QED
      BY <1>1, <1>3, <3>1
  <2> QED
    BY <1>1, <2>1, <2>2
<1>6. ASSUME NEW k \in DOMAIN more
      PROVE  \E i \in CallingUpTo(file, n + 1) : card(i) = k
  <2>1. k = card(n) + 1 \/ k \in 1 .. card(n)
    BY <1>1, <1>3
  <2>2. CASE k = card(n) + 1
    BY <1>1, <2>2
  <2>3. CASE k \in 1 .. card(n)
    BY <1>1, <1>3, <1>4, <2>3
  <2> QED
    BY <2>1, <2>2, <2>3
<1>7. CallsMatch(more, file, n + 1)
  BY <1>1, <1>3, <1>5, <1>6 DEF CallsMatch, card
<1> QED
  BY <1>7 DEF more

\* One more line keeps what the parser knows up to date.
LEMMA KnowsNext ==
  ASSUME NEW file, NEW n \in Nat, NEW s, Knows(s, file, n), file[n + 1] \in IniLine
  PROVE  Knows(ParseLine(s, file[n + 1]), file, n + 1)
<1> DEFINE line == file[n + 1]
           t == ParseLine(s, line)
           on == Continues(file, n + 1)
<1>0. s \in ParserStates /\ s.lineno = n
      /\ s.section = LastKey(file, Before(file, n + 1, "section"))
  BY DEF Knows
<1>1. on <=> GoesOn(s, line)
  BY GoesOnMeans
<1>2. /\ line.indent \in BOOLEAN /\ line.kind \in Kinds
      /\ line.cut = "" <=> line.key = ""
  BY DEF IniLine
<1>3. /\ t \in ParserStates /\ t.lineno = n + 1
      /\ t.section = IF line.kind = "section" /\ ~on THEN line.cut ELSE s.section
      /\ t.prev = IF on \/ line.kind \notin {"section", "pair"} THEN s.prev
                  ELSE IF line.kind = "section" THEN "" ELSE line.cut
      /\ t.error = IF line.kind \in {"open", "bare"} /\ ~on /\ s.error = 0 THEN n + 1 ELSE s.error
      /\ t.calls = IF on THEN Append(s.calls, Call(s.section, s.prev, line.text))
                   ELSE IF line.kind = "pair" THEN Append(s.calls, Call(s.section, line.key, line.val))
                   ELSE s.calls
  BY <1>0, <1>1, ParseLineFields
<1>4. on => line.indent /\ line.kind # "skip" /\ Open(file, n) /\ s.prev # ""
             /\ s.prev = LastKey(file, Before(file, n + 1, "pair"))
  BY <1>1, <1>2 DEF GoesOn, Knows, NameMatches
<1>5. EndsValue(file, n + 1) <=>
        ~line.indent /\ (line.kind = "section" \/ (line.kind = "pair" /\ line.key = ""))
  BY <1>2 DEF EndsValue
<1> HIDE DEF line, t, on
<1>6. t.section = LastKey(file, Before(file, n + 1 + 1, "section"))
  <2>1. LastKey(file, Before(file, n + 1 + 1, "section")) =
          IF line.kind = "section" /\ ~on
          THEN line.cut ELSE LastKey(file, Before(file, n + 1, "section"))
    BY LastKeyStep DEF line, on
  <2> QED
    BY <1>0, <1>3, <2>1
<1>7. NameMatches(t.prev, file, n + 1)
  <2>1. Open(file, n + 1) <=> \/ line.kind = "pair" /\ line.key # ""
                              \/ Open(file, n) /\ ~EndsValue(file, n + 1)
    BY OpenStep DEF line
  <2>2. LastKey(file, Before(file, n + 1 + 1, "pair")) =
          IF line.kind = "pair" /\ ~on
          THEN line.cut ELSE LastKey(file, Before(file, n + 1, "pair"))
    BY LastKeyStep DEF line, on
  <2>3. /\ s.prev # "" <=> Open(file, n)
        /\ s.prev # "" => s.prev = LastKey(file, Before(file, n + 1, "pair"))
    BY DEF Knows, NameMatches
  <2>4. line.indent /\ line.kind # "skip" /\ ~on => s.prev = ""
    BY <1>1, <1>2 DEF GoesOn
  <2>5. t.prev # "" <=> Open(file, n + 1)
    <3>1. CASE on
      BY <1>3, <1>4, <1>5, <2>1, <3>1
    <3>2. CASE ~on /\ line.kind \in {"skip", "open", "bare"}
      BY <1>3, <1>5, <2>1, <2>3, <3>2
    <3>3. CASE ~on /\ line.kind = "section"
      <4>1. t.prev = ""
        BY <1>3, <3>3
      <4>2. line.indent => ~Open(file, n)
        BY <2>3, <2>4, <3>3
      <4>3. ~Open(file, n + 1)
        BY <1>2, <1>5, <2>1, <3>3, <4>2
      <4> QED
        BY <4>1, <4>3
    <3>4. CASE ~on /\ line.kind = "pair"
      BY <1>2, <1>3, <1>5, <2>1, <2>3, <2>4, <3>4
    <3> QED
      BY <1>2, <3>1, <3>2, <3>3, <3>4 DEF Kinds
  <2>6. t.prev # "" => t.prev = LastKey(file, Before(file, n + 1 + 1, "pair"))
    <3>1. CASE on
      BY <1>3, <1>4, <2>2, <3>1
    <3>2. CASE ~on /\ line.kind = "pair"
      BY <1>3, <2>2, <3>2
    <3>3. CASE ~on /\ line.kind # "pair"
      BY <1>3, <2>2, <2>3, <3>3
    <3> QED
      BY <3>1, <3>2, <3>3
  <2> QED
    BY <2>5, <2>6 DEF NameMatches
<1>8. ErrorMatches(t.error, file, n + 1)
  <2>1. Bad(file, n + 1) = IF line.kind \in {"open", "bare"} /\ ~on
                           THEN Bad(file, n) \cup {n + 1} ELSE Bad(file, n)
    BY BadStep DEF line, on
  <2>2. ErrorMatches(s.error, file, n) /\ Bad(file, n) \subseteq 1 .. n
    BY DEF Knows, Bad
  <2>3. CASE line.kind \in {"open", "bare"} /\ ~on
    <3>1. CASE s.error = 0 /\ Bad(file, n) = {}
      <4>1. t.error = n + 1 /\ Bad(file, n + 1) = {n + 1}
        BY <1>3, <2>1, <2>3, <3>1
      <4> QED
        BY <4>1 DEF ErrorMatches
    <3>2. CASE s.error \in Bad(file, n) /\ \A i \in Bad(file, n) : s.error <= i
      <4>1. s.error \in 1 .. n
        BY <2>2, <3>2
      <4>2. s.error # 0 /\ s.error <= n + 1
        BY <4>1
      <4>3. t.error = s.error
        BY <1>3, <4>2
      <4> QED
        BY <2>1, <2>3, <3>2, <4>2, <4>3 DEF ErrorMatches
    <3> QED
      BY <2>2, <3>1, <3>2 DEF ErrorMatches
  <2>4. CASE ~(line.kind \in {"open", "bare"} /\ ~on)
    <3>1. t.error = s.error /\ Bad(file, n + 1) = Bad(file, n)
      BY <1>3, <2>1, <2>4
    <3> QED
      BY <2>2, <3>1 DEF ErrorMatches
  <2> QED
    BY <2>3, <2>4
<1>9. CallsMatch(t.calls, file, n + 1)
  <2>1. CallsMatch(s.calls, file, n) /\ s.calls \in Seq(CallTypes)
    BY <1>0 DEF Knows, ParserStates
  <2>2. Calling(file, n + 1) <=> line.kind = "pair" \/ on
    BY DEF Calling, line, on
  <2>3. CASE Calling(file, n + 1)
    <3>1. t.calls = Append(s.calls, CallOf(file, n + 1))
      <4>1. CASE on
        BY <1>0, <1>3, <1>4, <4>1 DEF CallOf, on, line
      <4>2. CASE ~on /\ line.kind = "pair"
        BY <1>0, <1>3, <4>2 DEF CallOf, on, line
      <4> QED
        BY <2>2, <2>3, <4>1, <4>2
    <3> QED
      BY <2>1, <2>3, <3>1, CallAppended
  <2>4. CASE ~Calling(file, n + 1)
    <3>1. t.calls = s.calls
      BY <1>3, <2>2, <2>4
    <3>2. CallingUpTo(file, n + 1) = CallingUpTo(file, n)
      BY <2>4, CallingStep
    <3> QED
      BY <2>1, <3>1, <3>2 DEF CallsMatch
  <2> QED
    BY <2>3, <2>4
<1>10. Knows(t, file, n + 1)
  BY <1>3, <1>6, <1>7, <1>8, <1>9 DEF Knows
<1> QED
  BY <1>10 DEF t, line

--------------------------------------------------------------------------------
(* The whole file. *)

\* After each line the parser knows what the lines so far say.
LEMMA KnowsAlways ==
  ASSUME NEW file \in Seq(IniLine), NEW after, IsParsing(after, file)
  PROVE  Knows(after[Len(file)], file, Len(file))
<1> DEFINE S == {n \in Nat : n <= Len(file) => Knows(after[n], file, n)}
<1>0. Len(file) \in Nat /\ \A n \in 1 .. Len(file) : file[n] \in IniLine
  OBVIOUS
<1>1. 0 \in S
  BY KnowsAtStart DEF IsParsing
<1>2. ASSUME NEW n \in Nat, n \in S
      PROVE  n + 1 \in S
  <2> SUFFICES ASSUME n + 1 <= Len(file) PROVE Knows(after[n + 1], file, n + 1)
    OBVIOUS
  <2>1. n <= Len(file) /\ n \in 0 .. Len(file) - 1 /\ n + 1 \in 1 .. Len(file)
    BY <1>0
  <2>2. Knows(after[n], file, n)
    BY <1>2, <2>1
  <2>3. Knows(ParseLine(after[n], file[n + 1]), file, n + 1)
    BY <1>0, <2>1, <2>2, KnowsNext
  <2> QED
    BY <2>1, <2>3 DEF IsParsing
<1>3. Nat \subseteq S
  <2> HIDE DEF S
  <2> QED
    BY <1>1, <1>2, NatSetInduction
<1> QED
  BY <1>0, <1>3

\* For every file, whatever its length: the calls of the handler are those the
\* file as a whole says, with their sections, names and values, in their order.
THEOREM CallsAreTheFiles ==
  ASSUME NEW file \in Seq(IniLine)
  PROVE  Parse(file).calls = CallsOf(file)
<1>1. PICK after : IsParsing(after, file)
  BY ParsingExists
<1> DEFINE calls == Parse(file).calls
           lines == CallingUpTo(file, Len(file))
           card(i) == Cardinality(CallingUpTo(file, i))
           nth(k) == CHOOSE i \in lines : card(i) = k
<1>2. calls \in Seq(CallTypes) /\ CallsMatch(calls, file, Len(file))
  BY <1>1, KnowsAlways DEF IsParsing, Knows, ParserStates
<1>3. /\ Len(calls) = Cardinality(lines)
      /\ \A i \in lines : calls[card(i)] = CallOf(file, i)
      /\ \A k \in DOMAIN calls : \E i \in lines : card(i) = k
  BY <1>2 DEF CallsMatch
<1>4. CallsOf(file) = [k \in 1 .. Cardinality(lines) |-> CallOf(file, nth(k))]
  BY DEF CallsOf
<1>5. DOMAIN calls = 1 .. Cardinality(lines) /\ calls = [k \in DOMAIN calls |-> calls[k]]
  BY <1>2, <1>3
<1> HIDE DEF calls, lines, card
<1>6. ASSUME NEW k \in DOMAIN calls
      PROVE  calls[k] = CallOf(file, nth(k))
  <2>1. nth(k) \in lines /\ card(nth(k)) = k
    BY <1>3
  <2> QED
    BY <1>3, <2>1
<1> HIDE DEF nth
<1>7. calls = [k \in 1 .. Cardinality(lines) |-> CallOf(file, nth(k))]
  BY <1>5, <1>6
<1> QED
  BY <1>4, <1>7 DEF calls

\* ... and the line reported is the first that is neither understood nor part
\* of a value, or none.
THEOREM ErrorIsTheFiles ==
  ASSUME NEW file \in Seq(IniLine)
  PROVE  Parse(file).error = ErrorOf(file)
<1>1. PICK after : IsParsing(after, file)
  BY ParsingExists
<1> DEFINE error == Parse(file).error
           bad == Bad(file, Len(file))
<1>2. ErrorMatches(error, file, Len(file))
  BY <1>1, KnowsAlways DEF IsParsing, Knows
<1>3. (error = 0 /\ bad = {}) \/ (error \in bad /\ \A i \in bad : error <= i)
  BY <1>2 DEF ErrorMatches
<1>4. ErrorOf(file) = IF bad = {} THEN 0 ELSE Min(bad)
  BY DEF ErrorOf, Bad
<1>5. bad \subseteq Nat
  <2>1. Len(file) \in Nat
    OBVIOUS
  <2> QED
    BY <2>1 DEF Bad
<1> HIDE DEF error, bad
<1>6. ASSUME error \in bad, \A i \in bad : error <= i
      PROVE  Min(bad) = error
  <2>1. \A x \in bad : (\A y \in bad : x <= y) => x = error
    <3> TAKE x \in bad
    <3>1. x \in Nat /\ error \in Nat
      BY <1>5, <1>6
    <3> QED
      BY <1>6, <3>1
  <2> QED
    BY <1>6, <2>1 DEF Min
<1>7. error = ErrorOf(file)
  BY <1>3, <1>4, <1>6
<1> QED
  BY <1>7 DEF error

\* The calls are a sequence.
LEMMA ParsedCalls ==
  ASSUME NEW file \in Seq(IniLine)
  PROVE  Parse(file).calls \in Seq(CallTypes)
  BY ParsingExists, KnowsAlways DEF IsParsing, Knows, ParserStates
================================================================================
