------------------------------ MODULE VqlText -------------------------------
(***************************************************************************)
(* The text of an artifact call, Artifact.<Name>(key='value', ...): how    *)
(* parse_artifact_call (routes/velociraptor.rs) reads it, and how vql_quote *)
(* (connectors/velociraptor.rs) writes a value.  A text is a sequence of   *)
(* characters; those the code treats alike are one, and blanks and the     *)
(* artifact's name, which nothing here can damage, are left out.  Every    *)
(* pass over a text is a fold of a step from one character to the next.    *)
(***************************************************************************)
EXTENDS Integers, Sequences

Apostrophe == "'"
Quotation  == "q"
Backslash  == "b"
Quotes == {Apostrophe, Quotation}
Chars  == Quotes \cup {Backslash, ",", "=", "(", ")", "k", "x"}
Texts  == Seq(Chars)

(* From start, what each element of s does to it, in order.                *)
Fold(step, start, s) ==
  LET after[n \in 0..Len(s)] == IF n = 0 THEN start ELSE step[s[n]][after[n - 1]]
  IN  after[Len(s)]

-----------------------------------------------------------------------------
(* vql_quote: backslashes and apostrophes are escaped.                     *)
Escapes ==
  [c \in Chars |-> [t \in Texts |->
     IF c \in {Backslash, Apostrophe} THEN t \o <<Backslash, c>> ELSE Append(t, c)]]

Escaped(v)  == Fold(Escapes, <<>>, v)
VqlQuote(v) == <<Apostrophe>> \o Escaped(v) \o <<Apostrophe>>

(* str::replace of backslash c by c, from the left, without overlap: c     *)
(* takes the place of a backslash that is free.                            *)
Copies == [text : Texts, free : BOOLEAN]
Replaces(c) ==
  [d \in Chars |-> [r \in Copies |->
     IF r.free /\ d = c
     THEN [text |-> Append(SubSeq(r.text, 1, Len(r.text) - 1), c), free |-> FALSE]
     ELSE [text |-> Append(r.text, d), free |-> d = Backslash]]]

Copy(c, s)      == Fold(Replaces(c), [text |-> <<>>, free |-> FALSE], s)
Unescaped(s, c) == Copy(c, s).text

(* unquote_value: three replacements in this order, between quotes only.   *)
IsQuoted(v) == Len(v) >= 2 /\ v[1] \in Quotes /\ v[Len(v)] = v[1]

UnquoteRaw(v) ==                     \* mutant: backslashes stay doubled
  IF IsQuoted(v) THEN Unescaped(SubSeq(v, 2, Len(v) - 1), Apostrophe) ELSE v
Unquote(v) ==
  IF IsQuoted(v)
  THEN Unescaped(Unescaped(Unescaped(SubSeq(v, 2, Len(v) - 1), Apostrophe), Quotation),
                 Backslash)
  ELSE v

(* split_top_level_commas: the parts so far, the one that is read, and the *)
(* quote that is open; an escaped quote is taken for the end.              *)
Cuts == [parts : Seq(Texts), part : Texts, open : Quotes \cup {"none"}]
Splits ==
  [c \in Chars |-> [r \in Cuts |->
     IF c = "," /\ r.open = "none"
     THEN [parts |-> Append(r.parts, r.part), part |-> <<>>, open |-> "none"]
     ELSE [parts |-> r.parts,
           part  |-> Append(r.part, c),
           open  |-> IF c \notin Quotes THEN r.open
                     ELSE IF r.open = "none" THEN c
                     ELSE IF r.open = c THEN "none" ELSE r.open]]]

Cut(s)   == Fold(Splits, [parts |-> <<>>, part |-> <<>>, open |-> "none"], s)
Split(s) == Append(Cut(s).parts, Cut(s).part)

(* key=value of a part; a part without both is skipped.                    *)
Equals(p) == {n \in 2..(Len(p) - 1) : p[n] = "=" /\ \A m \in 1..(n - 1) : p[m] # "="}
Reads ==
  [p \in Texts |-> [ps \in Seq(Seq(Texts)) |->
     IF Equals(p) = {} THEN ps
     ELSE LET n == CHOOSE m \in Equals(p) : TRUE
          IN  Append(ps, <<SubSeq(p, 1, n - 1), Unquote(SubSeq(p, n + 1, Len(p)))>>)]]

Params(s) == Fold(Reads, <<>>, Split(s))

(* Up to the closing parenthesis at depth 0, quoted or not.                *)
Turn(c) == IF c = "(" THEN 1 ELSE IF c = ")" THEN -1 ELSE 0
Openings == [inside : Texts, depth : Int, closed : BOOLEAN]
Closes ==
  [c \in Chars |-> [r \in Openings |->
     IF r.closed THEN r
     ELSE IF c = ")" /\ r.depth = 0 THEN [r EXCEPT !.closed = TRUE]
     ELSE [inside |-> Append(r.inside, c), depth |-> r.depth + Turn(c), closed |-> FALSE]]]

Opened(s) == Fold(Closes, [inside |-> <<>>, depth |-> 0, closed |-> FALSE], s)

(* parse_artifact_call from the end of the name on; NoCall for None.       *)
NoCall == << <<>> >>
ParseCall(s) ==
  IF s = <<>> \/ s[1] # "(" THEN <<>>
  ELSE LET call == Opened(Tail(s))
       IN  IF call.closed THEN Params(call.inside) ELSE NoCall

-----------------------------------------------------------------------------
(* The form the console's clients write for one parameter (tests of        *)
(* routes/velociraptor.rs).                                                *)
CallText(v) == <<"(", "k", "=">> \o VqlQuote(v) \o <<")">>

(* Values a quoted parameter is meant to carry and does: parentheses that  *)
(* match, and not both an apostrophe and a comma.                          *)
Deepens == [c \in Chars |-> [n \in Int |-> n + Turn(c)]]
Depth(v) == Fold(Deepens, 0, v)
Has(v, c) == \E n \in 1..Len(v) : v[n] = c
Carried(v) ==
  /\ \A n \in 0..Len(v) : Depth(SubSeq(v, 1, n)) >= 0
  /\ Depth(v) = 0
  /\ ~(Has(v, Apostrophe) /\ Has(v, ","))
=============================================================================
