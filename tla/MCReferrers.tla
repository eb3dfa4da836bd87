----------------------------- MODULE MCReferrers -----------------------------
(* Small archives: one text block in four places, every way its three      *)
(* strings can be referred to, and one word that no survey finds.          *)
EXTENDS Referrers

MCCodeBits == [END |-> 1, SJIS |-> 2, CTRL |-> 1, DICT |-> 3]

Char      == [kind |-> "SJIS"]
Control   == [kind |-> "CTRL"]
Phrase(n) == [kind |-> "DICT", phrase |-> n]

MCTexts ==
  { << <<>>, <<Control>>, <<Char, Char>> >>,
    << <<Phrase(1)>>, <<>>, <<Phrase(1), Control>> >>,
    << <<Phrase(1)>>, <<Char>>, <<>> >> }
MCNewStrings == {<<Char, Control>>, <<Char, Char, Char>>}

First(strings)  == [id |-> 1, c |-> 3, strings |-> strings, entries |-> <<{"SJIS"}>>,
                    tail |-> <<>>, tree |-> TRUE]
Second(tail)    == [id |-> 2, c |-> 2, strings |-> << <<Char>>, <<Char>> >>, entries |-> <<>>,
                    tail |-> tail, tree |-> TRUE]

Cell(w)    == [kind |-> "word", word |-> w]
Holding(b) == [kind |-> "block", block |-> b]
Command    == [kind |-> "command"]
Nothing    == 0

Plain(type, body)  == [type |-> type, lzs |-> FALSE, raw |-> body]
Packed(type, body) == [type |-> type, lzs |-> TRUE, raw |-> <<[kind |-> "lzs", of |-> body]>>]

Systems == {"LOOKUP", "TABLE", "ROSTER", "SCRIPT", "none"}

\* The archive in which known[i] is the system that names string i, and a word of the code
\* names string hidden; place 4 is the residue.
Archive(strings, known, hidden) ==
  LET to(i) == Span + 3 + Starts(First(strings))[i]
      from(system, i) == IF known[i] = system THEN to(i) ELSE Nothing
      script == <<Command, Cell(from("SCRIPT", 1)), Cell(Nothing), Command, Cell(from("SCRIPT", 2)),
                  Command, Cell(from("SCRIPT", 3)), Command>>
  IN << Plain(40, <<Holding(First(strings))>>),
        Plain(42, <<Holding(Second(<<from("LOOKUP", 1), from("LOOKUP", 2), from("LOOKUP", 3), to(4)>>))>>),
        Plain(26, <<Cell(from("TABLE", 1)), Cell(Nothing), Cell(from("TABLE", 2)), Cell(Nothing),
                    Cell(from("TABLE", 3)), Cell(Nothing)>>),
        Packed(39, script),
        Packed(44, <<Cell(from("ROSTER", 1)), Holding(First(strings)), Cell(from("ROSTER", 2)),
                     Cell(from("ROSTER", 3))>>),
        Packed(46, <<Holding(First(strings)), Cell(Nothing)>>),
        Plain(39, script),
        Plain(0, <<Cell(to(hidden)), Holding(First(strings))>>) >>

\* No system names two strings; the code names one that no system does, if
\* there is one, and string 2 if not.
MCDiscs ==
  {Archive(strings, known, hidden) :
     strings \in MCTexts,
     <<known, hidden>> \in
       {<<k, h>> \in [1 .. 3 -> Systems] \X (1 .. 3) :
          /\ \A i, j \in 1 .. 3 : k[i] = k[j] => i = j \/ k[i] = "none"
          /\ k[h] = "none" \/ (h = 2 /\ \A i \in 1 .. 3 : k[i] # "none")}}
=============================================================================
