--------------------------- MODULE MCHttp11Exchange ---------------------------
(* Http11Exchange for TLC: the responses a server may give.                 *)
EXTENDS Http11Exchange

Shape(framing, body, close, flaw) ==
    [framing |-> framing, body |-> body, interim |-> FALSE, close |-> close, flaw |-> flaw]

AllFramings ==
    {Shape(f, b, c, "none") : f \in {"length", "chunked"}, b \in {0, 2}, c \in BOOLEAN}
    \cup {Shape("chunked", 2, FALSE, f) : f \in {"negative", "garbled"}}
    \cup {Shape("none", 0, FALSE, "none"), Shape("close", 2, FALSE, "none")}
=============================================================================
