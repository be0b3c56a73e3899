-------------------------- MODULE MCTypingContext --------------------------
(* The words, tokens and typists of the small instances of TypingContext    *)
(* and its suggestion bar.                                                 *)
EXTENDS SuggestionBar

Pills == {<<"a">>, <<"a", "b">>}

Fixes == {<<"b">>}

Snip == <<"-">>

Phrase == <<"b">>

\* A telephone number, a flat, and an address.
Phone == <<"1", "-", "1">>
Flat == <<"a", "1", "b">>
Address == <<"a", "@", "b", "1">>
AllTokens == {Phone, Flat, Address}
Values == {Phone, Address}
Hosts == {<<"b", "1">>}

Typist(room, keys) == [keys |-> keys, cap |-> 12, pillCap |-> 10, room |-> room]

\* Every kind of key there is for prose, but no going back.
Prose == Typist(6, {"letter", "digit", "dot", "comma", "dash", "space", "extraSpace",
                 "return", "extraReturn", "click", "leave", "pill", "edit",
                 "snippet", "chord"})

\* Words, numbers and pills, erased and retyped.
Editing == Typist(6, {"letter", "digit", "space", "return", "backspace", "pill", "leave"})

\* Marks erased and retyped behind a buffer that is soon cut.
Marked == [keys |-> {"letter", "comma", "dash", "space", "backspace", "pill",
                     "click", "leave"}, cap |-> 4, pillCap |-> 3, room |-> 5]

\* Numbers, typed, erased, tapped and forgotten.
Numbers == Typist(6, {"digit", "dash", "comma", "space", "backspace", "delete",
                      "tokenPill", "leave"})

\* Addresses, and words with digits in them.
Addresses == Typist(6, {"letter", "digit", "at", "comma", "space", "tokenPill",
                        "delete", "leave"})

\* Dictation between words and in the middle of one.
Dictating == Typist(5, {"letter", "digit", "space", "spoken", "spokenMidWord", "pill"})

Typists == {Prose, Editing, Marked, Numbers, Addresses, Dictating}

FormFillers == {Typist(7, {"letter", "at", "digit", "comma", "tokenPill", "space"})}

=============================================================================
