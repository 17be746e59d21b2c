----------------------------- MODULE MCArtwork -----------------------------
(* The poster of a title, blurred as its hero too or asked for as its        *)
(* backdrop, and another poster beside it.                                   *)
EXTENDS Artwork, TLC

CONSTANTS a, b

Image(u, kind) == [source |-> [address |-> u, kind |-> kind], blurred |-> FALSE]
Poster(u) == Image(u, "poster")
MCAddresses == {a, b}
MCRemembered == {a}
Hero == [Poster(a) EXCEPT !.blurred = TRUE]
Fanart == Image(a, "backdrop")
MCKeys == {Poster(a), Poster(b), Hero, Fanart}
MCSources == {key.source : key \in MCKeys}
MCGrids == {[drawn |-> {Poster(a)}, window |-> <<Poster(a), Poster(b)>>],
            [drawn |-> {}, window |-> <<Poster(b)>>]}
MCPages == {{Hero}, {Fanart}}
=============================================================================
