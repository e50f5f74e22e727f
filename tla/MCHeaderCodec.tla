---------------------------- MODULE MCHeaderCodec ----------------------------
(***************************************************************************)
(* Values for the constants of HeaderCodec: binary numbers up to 5, hashes *)
(* of one digit, every raw name of up to three of eight characters, and    *)
(* every text of up to four lines, good and bad ones in any order.         *)
(***************************************************************************)
EXTENDS HeaderCodec

NameChars == {"a", "/", "\\", ".", "SP", "TAB", "BEL", "="}

MCHeaders ==
  [name : BoundedSeq(NameChars, 3), size : {2}, sha256_hex : {<<"A">>}]
  \cup [name : {<<"a">>, <<"LF">>}, size : 0..5, sha256_hex : {<<"a">>, <<"1">>}]

MCBodies == {<<>>, <<"LF", "a">>}

FieldLines ==
  {<<"name", "=", "a">>, <<"name", "=">>, <<"size", "=", "1">>, <<"hash", "=", "A">>,
   <<"size", "=", "1", "1", "0">>, <<"hash", "=", "1">>, <<"mode", "=", "=">>, <<"name">>}

OddLines == {<<"size", "=">>, <<"size", "=", "1", "a">>, <<"hash", "=", "SP">>, <<"=">>,
             <<"hash", "=", "a", "a">>, <<>>}

Joined(lines) == FoldLeft(LAMBDA text, line : text \o line \o <<"LF">>, <<>>, lines)

MCOddTexts ==
  {Joined(<< <<Magic>> >> \o lines) \o <<"LF">> : lines \in BoundedSeq(FieldLines, 4)}
  \cup {Joined(<< <<Magic>> >> \o lines) \o <<"LF">> :
          lines \in BoundedSeq({<<"name", "=", "a">>, <<"size", "=", "1">>, <<"hash", "=", "a">>}
                               \cup OddLines, 3)}
  \cup {Joined(<< <<Magic>>, <<>>, <<"name", "=", "a">>, <<"size", "=", "1">>,
                  <<"hash", "=", "a">>, <<>> >>)}
  \cup {Joined(<< <<Magic>>, <<"name", "=">> \o raw, <<"size", "=", "1">>,
                  <<"hash", "=", "a">>, <<>> >>) : raw \in BoundedSeq(NameChars, 3)}
  \cup {Joined(lines) : lines \in BoundedSeq({<<Magic>>, <<"name", "=", "a">>, <<>>}, 3)}
=============================================================================
