------------------------------- MODULE MCPmm -------------------------------
(* Small memory maps for TLC: at most ten usable frames in five entries.  *)
EXTENDS Pmm

Entry(b, l, t) == [base |-> b, len |-> l, type |-> t]

\* The first entry holds every frame taken before the bitmap, or there are not
\* enough frames for it.
MCRoomy == {<<Entry(1, 5, 1), Entry(6, 2, 2), Entry(8, 2, 1), Entry(12, 3, 1)>>,
            <<Entry(0, 2, 3), Entry(2, 4, 1), Entry(7, 1, 1), Entry(9, 3, 1)>>,
            <<Entry(0, 4, 1), Entry(4, 1, 3), Entry(5, 1, 1), Entry(6, 1, 1), Entry(8, 2, 1)>>,
            <<Entry(3, 8, 1)>>, <<Entry(1, 1, 1), Entry(2, 3, 2)>>, <<>>}

\* The first entry is too short: the frames come from the next ones as well.
MCTight == {<<Entry(1, 1, 1), Entry(4, 4, 1)>>,
            <<Entry(1, 2, 1), Entry(4, 6, 1)>>}
=============================================================================
