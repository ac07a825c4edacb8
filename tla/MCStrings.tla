----------------------------- MODULE MCStrings ------------------------------
(***************************************************************************)
(* The two pure parts of GenerateRandom in one run: a call of the codec or *)
(* one of the generator, and the values that the run gives to their        *)
(* constants.                                                              *)
(***************************************************************************)
EXTENDS Base64, Urandom

Strings(S, lengths) == UNION {[1 .. n -> S] : n \in lengths}

\* All bits clear and all set, and bytes and characters that mix them.
SomeBytes == {0, 27, 198, 255}
SomeChars == {0, 27, 54, Padding, Other}

ShortInputs == Strings(SomeBytes, 0 .. 5) \cup Strings({27, 255}, 6 .. 7)
ShortTexts ==
    Strings(SomeChars, 0 .. 4) \cup Strings({54, Padding, Other}, 5 .. 8)

Asking(d, l, s) == [digits |-> d, letters |-> l, symbols |-> s]
SomeRequests ==
    {Asking(2, 1, 1), Asking(1, 3, 1), Asking(0, 2, 1), Asking(0, 1, 0),
     Asking(0, 0, 0)}

SomeLengths == {0, 1, 12}

\* One thread: one call, of either part.
StringsInit == Init /\ RandomInit
StringsNext ==
    \/ stage = "idle" /\ Next /\ UNCHANGED randomVars
    \/ pc = "idle" /\ RandomNext /\ UNCHANGED vars
StringsSpec == StringsInit /\ [][StringsNext]_<<vars, randomVars>>
=============================================================================
