---------------------------- MODULE MCSourceCircuit ----------------------------
(***************************************************************************)
(* An instance of SourceCircuit for TLC: every backoff lasts one unit.  In *)
(* the documents the source has a playlist, an embedded player or nothing, *)
(* is not there, or is found in the metadata only: the server has no name, *)
(* the filename is an address, or the servers lie beside the movie.        *)
(***************************************************************************)
EXTENDS SourceCircuit

MCBackoff == [n \in 1..MaxFailures |-> 1]

MCSelectors == [x \in Sources |-> [key |-> 1, selector |-> "e1"]]

MCDocuments ==
    LET Listing(filename, hls, embed) ==
            [filename |-> filename, slug |-> "e1", name |-> "", hls |-> hls, embed |-> embed]
        Servers(name, episode) == <<[name |-> name, episodes |-> <<episode>>]>>
    IN  {[movie |-> Servers(1, Listing("", hls, embed))] :
            hls \in {"", "hls", "unsafe"}, embed \in BOOLEAN}
        \union {[movie |-> Servers(0, Listing("", "hls", FALSE))],
                [movie |-> Servers(2, Listing("", "hls", FALSE))],
                [root |-> Servers(1, Listing("url", "hls", FALSE))],
                [data |-> Servers(1, Listing("", "hls", FALSE))]}
=============================================================================
