----------------------------- MODULE WrapLineMC -----------------------------
(***************************************************************************)
(* Argument lists for WrapLine: a tool with or without a space in its      *)
(* path, an argument of up to three characters of every kind, and a short  *)
(* one behind it.                                                          *)
(***************************************************************************)
EXTENDS WrapLine

Chars == {"a", Space, Quote, Slash}
Words == UNION {[1..n -> Chars] : n \in 0..3}
Short == {w \in Words : Len(w) <= 1} \cup {<<Line>>, <<Space, Slash>>, <<"a", Slash, Line>>}

MCArgvs == {<<<<"a", Slash, "a">>, w, v>> : w \in Words, v \in Short}
             \cup {<<<<"a", Slash, Space, "a">>, w>> : w \in Words}

=============================================================================
