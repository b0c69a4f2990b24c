---------------------------- MODULE DepfilePathMC ---------------------------
(* Instances of DepfilePath: paths of up to three short names.             *)
EXTENDS DepfilePath

A  == <<"a">>
B  == <<"b">>
AB == <<"a", "b">>
Up == <<".", ".">>
Spacey == <<"a", " ">>

\* Names with a separator before each.
Below(names, ch) == FlattenSeq([k \in DOMAIN names |-> <<ch>> \o names[k]])

Chains(S, m) == UNION {[1..k -> S] : k \in 1..m}

\* getcwd: the root, or directories with one or two names.
MCCwds == {<<"/">>} \cup {Below(ns, "/") : ns \in Chains({A, B, AB}, 2)}

Absolute == {Below(ns, "/") : ns \in Chains({A, B, AB, Up}, 3)}
Twice    == {<<"/">> \o h : h \in {Below(ns, "/") : ns \in Chains({A, B}, 2)}}
              \cup {Below(<<n, <<>>, m>>, "/") : n \in {A, AB}, m \in {A, B}}
Windows  == {Below(ns, "\\") : ns \in Chains({A, AB, B}, 2)}
Relative == {Tail(h) : h \in Absolute}
Spaces   == {Below(<<A, Spacey>>, "/"), Spacey}

MCHeaders == Absolute \cup Twice \cup Windows \cup Relative \cup Spaces

\* Clean paths, and the same with a space in some.
MCPlain  == Absolute
MCSpaces == Absolute \cup Spaces

\* Room for the longest header and for all but the longest results.
MCPathMax == 10

=============================================================================
