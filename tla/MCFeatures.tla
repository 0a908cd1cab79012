----------------------------- MODULE MCFeatures -----------------------------
(* A generator over all chunks of up to MaxDocs documents of both languages. *)
EXTENDS Features

W(upos, lemma, feats) == [upos |-> upos, lemma |-> lemma, feats |-> feats]

War == W("NOUN", <<"w">>, <<"Case=Nom", "Number=Sing">>)
\* Its lemma has a colon that is erased.
Begins == W("VERB", <<":", "b">>, <<"Number=Sing", "Odd=Yes">>)
The == W("DET", <<"w">>, << >>)
Unknown == W("X", <<"q">>, <<"Number=Sing">>)

\* d1 has more sentences than the small limit, one of them without forms; d2 has
\* an empty text and d3 an empty title; d4 is in another language.
MCDocs ==
  [d1 |-> [lang |-> "ru", text |-> << <<War, Begins>>, << >>, <<The, War>>, <<Unknown>> >>,
           title |-> << <<War>>, <<Begins>>, <<War>> >>],
   d2 |-> [lang |-> "ru", text |-> << >>, title |-> << <<Begins, The>> >>],
   d3 |-> [lang |-> "en", text |-> << <<War, War>>, << >> >>, title |-> << >>],
   d4 |-> [lang |-> "de", text |-> << <<War>> >>, title |-> << <<War>> >>]]

MCUpostags == <<"NOUN", "VERB", "DET">>
MCFeats == <<"Case=Nom", "Number=Sing">>

Line(lemma, class) == [lemma |-> lemma, class |-> class]

\* The Russian list has a lemma twice, and one in both classes.
MCLemmas ==
  [ru |-> <<Line(<<"w">>, "text"), Line(<<"b">>, "title"), Line(<<"w">>, "title"),
            Line(<<"w">>, "text"), Line(<<"b">>, "text")>>,
   en |-> <<Line(<<"w">>, "text")>>]

\* -1 and a small limit, as size_t.
MCTotal == {SizeT - 1, 2}
=============================================================================
