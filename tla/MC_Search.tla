------------------------------ MODULE MC_Search ------------------------------
(* Small instances of Search, with the queries of Match.                                                *)
EXTENDS Match

\* Letters: A is the upper case of a; words are sequences of letters.
MCFold == [l \in {"a", "A", "b"} |-> IF l = "A" THEN "a" ELSE l]

a   == <<"a">>
ab  == <<"a", "b">>
b   == <<"b">>
big == <<"A">>
tooLong == <<"b", "b", "b">>

\* Two indexed columns, 1 and 2; vectors 0 .. 4.
MCContents ==
    { [text |-> <<<<a, b, big>>, <<>>>>, vec |-> 0],
      [text |-> <<<<a, tooLong, b>>, <<a>>>>, vec |-> 3],
      [text |-> <<<<b>>, <<ab, b, a>>>>, vec |-> NoVector],
      [text |-> <<<<>>, <<tooLong>>>>, vec |-> 4] }

MCQuant == [v \in 0 .. 4 |-> 2 * (v \div 2)]
MCTraining == {<<0>>, <<1, 4>>, <<4, 0>>}
MCSettings == {[nprobe |-> 2, rerank |-> FALSE], [nprobe |-> 1, rerank |-> TRUE]}

w(word) == <<"word", <<word>>>>
MCMatchTexts ==
    { <<w(a)>>,
      <<w(a), <<"*">>>>,
      <<<<"word", <<big, b>>>>>>,
      <<<<"phrase", <<b, a>>>>>>,
      <<<<"phrase", <<b, b>>>>>>,
      <<<<"near", <<a, b>>, 1>>>>,
      <<<<"near", <<b, a>>, 2>>, <<"OR">>, w(ab)>>,
      <<w(a), w(b), <<"NOT">>, w(ab)>>,
      <<<<"word", 2>>, <<":">>, <<"(">>, w(a), <<"OR">>, w(tooLong), <<")">>>>,
      <<w(b), <<"NOT">>, <<"phrase", <<a, b>>>>, <<"AND">>, w(a)>>,
      <<w(a), <<"OR">>, w(b), <<"AND">>, w(ab)>>,
      <<<<"near", <<a>>, 1>>>>,
      <<w(a), <<")">>>> }
=============================================================================
