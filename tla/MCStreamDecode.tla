--------------------------- MODULE MCStreamDecode ---------------------------
(* Every body of every format with up to MaxUnits units of text, each of     *)
(* which yields nothing, fits in the output buffer or overfills it; a zstd   *)
(* body has up to MaxFrameUnits units before the last, which may end frames; *)
(* a gzip body may have two members.                                         *)
EXTENDS StreamDecode, SequencesExt

CONSTANTS MaxUnits, MaxOut, MaxFrameUnits, FrameOuts

Data == {[i \in 1 .. n |-> [out |-> d[i], ends |-> FALSE]] :
            <<n, d>> \in UNION {{n} \X [1 .. n -> 0 .. MaxOut] : n \in 0 .. MaxUnits}}
Final == {<<[out |-> n, ends |-> TRUE]>> : n \in 0 .. MaxOut}
Header == <<[out |-> 0, ends |-> FALSE]>>
Trailer == <<[out |-> 0, ends |-> TRUE]>>
Members == {Header \o <<[out |-> n, ends |-> FALSE]>> \o Trailer : n \in FrameOuts}
Frames == UNION {[1 .. n -> [out : FrameOuts, ends : BOOLEAN]] : n \in 1 .. MaxFrameUnits}

Before(units, i) == FoldLeft(LAMBDA n, u : n + u.out, 0, SubSeq(units, 1, i - 1))
Body(format, sized, units) ==
    [format |-> format, sized |-> sized,
     units |-> [i \in 1 .. Len(units) |-> [from |-> Before(units, i), out |-> units[i].out, ends |-> units[i].ends]]]

MCBodies ==
    {Body("gzip", FALSE, Header \o d \o Trailer) : d \in Data}
    \cup {Body("gzip", FALSE, a \o b) : a, b \in Members}
    \cup {Body("zlib", FALSE, Header \o Header \o d \o Trailer) : d \in Data}
    \cup {Body("raw", FALSE, Header \o d \o e) : d \in Data, e \in Final}
    \cup {Body("br", FALSE, d \o e) : d \in Data, e \in Final}
    \cup {Body("zstd", sized, f \o e) : sized \in BOOLEAN, f \in Frames, e \in Final}
=============================================================================
