------------------------------- MODULE MCVmm -------------------------------
(***************************************************************************)
(* Instances of Vmm: tables of six entries and pages of four bytes.        *)
(***************************************************************************)
EXTENDS Vmm

At(page) == page * PageSize
Kmmap(page, pages) == KmmapCall(At(page), pages * PageSize, {P, W, U})
Alloc(pages) == AllocCall(pages * PageSize, {"PRESENT", "USER"})

\* Ranges that start and end anywhere in two pages, across the end of a table.
Ranges ==
    {<<KmmapCall(a, n, {P, W, U}), Kmmap(2, 7)>> :
        a \in {At(4), At(4) + 1, At(5) + 3, At(N^2 - 1) + 2}, n \in {0, 1, 3, 4, 5, 11}}

\* Holes of every shape in the first table, then two allocations.
Holes ==
    {<<Kmmap(a, n), Kmmap(b, 1), Alloc(m), Alloc(1)>> :
        a \in {1, 2}, n \in {1, 2}, b \in {4, 10}, m \in {1, 2}}

\* The devices of one table and of the next; a page of them mapped by hand.
DevicesScripts ==
    {<<MapPhysicalCall(At(m)), KmmapPhysicalCall(At(Devices + 3), PageSize),
       MapPhysicalCall(At(2)), MapPhysicalCall(At(n))>> : m \in {1, 2, 3}, n \in {1, 2, 4, 7}}

Unmaps ==
    {<<Kmmap(7, 4), UnmapCall(At(7) + off, n)>> : off \in {0, 1, 3}, n \in {3, 4, 7, 8, 9, 12}}
    \cup {<<Kmmap(7, 4), UnmapLowerCall(At(11), n)>> : n \in {3, 4, 8, 9}}
    \cup {<<Kmmap(10, 3), UnmapCall(At(10), 12)>>, <<UnmapCall(At(40), 8)>>}

Launches ==
    {entry_launch(<< <<At(1), n>>, <<At(N^2) + 1, 6>> >>) : n \in {1, 8, 16}}
    \cup {<<Kmmap(2, 1)>> \o init_protocol, <<Kmmap(2, 1), Kmmap(4, 1)>> \o init_protocol,
          <<Kmmap(1, 3), Alloc(2)>>}

\* Ranges inside one page, the next page in use or not.
Insides == {<<Kmmap(7, n), UnmapCall(At(7) + 1, 1)>> : n \in {1, 3}}

\* More pages than there are frames.
Shortages == {<<Kmmap(1, 60)>>, <<Kmmap(1, 40), MapPhysicalCall(At(2))>>}

\* Requests of more than one table: those that the searches are right about, and one
\* of each kind that they are not.
Larges ==
    {<<Kmmap(7, 1), Alloc(n)>> : n \in {5, 7}}
    \cup {<<MapPhysicalCall(At(m)), MapPhysicalCall(At(n))>> : m \in {1, 7}, n \in {6, 29, 37}}
    \cup {<<MapPhysicalCall(1), KmmapPhysicalCall(At(Devices + 36), 1), MapPhysicalCall(At(31))>>,
          <<MapPhysicalCall(At(5)), KmmapPhysicalCall(At(Devices + 6), 1),
            UnmapCall(At(Devices), PageSize), MapPhysicalCall(At(2))>>}

AllScripts ==
    Ranges \cup Holes \cup DevicesScripts \cup Unmaps \cup Launches \cup Insides \cup Shortages
    \cup Larges

\* The program's segments lie outside the first table, as a linker puts them.
StackScripts == {entry_launch(<< <<At(N^2), 6>> >>)}
=============================================================================
