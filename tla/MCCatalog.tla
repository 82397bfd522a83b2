------------------------------- MODULE MCCatalog -------------------------------
(***************************************************************************)
(* Instance of Catalog for TLC.                                            *)
(***************************************************************************)
EXTENDS Catalog

CONSTANTS m1, m2

MCGiven == [x \in {1, 2} |-> IF x = 2 THEN m1 ELSE None]

\* An item that moves to the second page while the first is read; a page whose items are all
\* filtered out between others; one page asked for of two.
MCScans ==
    {[pages |-> <<{1}, {1}>>, total |-> 2, max |-> 10],
     [pages |-> <<{1}, {}, {2}>>, total |-> 3, max |-> 10],
     [pages |-> <<{2}, {1}>>, total |-> None, max |-> 1]}

MCOrders ==
    {[mode |-> "discovery", item |-> None, target |-> None, scan |-> scan] : scan \in MCScans}
    \union {[mode |-> "refresh", item |-> None, target |-> None, scan |-> None],
            [mode |-> "import", item |-> 1, target |-> m1, scan |-> None]}

\* Documents of the provider: two servers, of which one has no name; a server or a selector
\* twice; an episode that no selector can name; no episode.
MCDocuments ==
    LET Listing(e) == [filename |-> e, slug |-> "", name |-> e, hls |-> "hls", embed |-> FALSE]
        Named(n, episodes) == [name |-> n, episodes |-> episodes]
    IN  {[movie |-> <<Named(5, <<Listing("e1"), Listing("e2")>>), Named(0, <<Listing("e1")>>)>>],
         [movie |-> <<Named(2, <<Listing("e1")>>), Named(0, <<Listing("e2")>>)>>],
         [data |-> <<Named(5, <<Listing("e1"), Listing("e1")>>)>>],
         [movie |-> <<Named(5, <<Listing("url")>>)>>],
         [root |-> <<Named(5, <<>>)>>]}
=============================================================================
