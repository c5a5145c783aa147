------------------------------ MODULE MCSetup ------------------------------
(***************************************************************************)
(* Machines for Setup.  Each family varies what one part starts from and   *)
(* leaves the others as a usual machine has them.                          *)
(***************************************************************************)
EXTENDS Setup, Cells

\* Init files and names of modules.
p == Letter(1)
q == Letter(2)
r == Letter(3)

Line(i, name) == [index |-> i, sep |-> <<Space>>, name |-> name]
BlankLine == [index |-> None, sep |-> <<>>, name |-> <<>>]

\* A number alone, a line without a number, a number no core has.
Odd ==
    {[index |-> 1, sep |-> <<>>, name |-> <<>>],
     [index |-> None, sep |-> <<>>, name |-> <<p, q>>], Line(7, <<p>>)}
Lines == {Line(i, n) : i \in 0 .. 2, n \in {<<>>, <<p>>, <<p, q>>}} \cup {BlankLine} \cup Odd

MCDocs ==
    {[cores |-> 2, lines |-> s] : s \in {<<>>} \cup {<<a>> : a \in Lines}
        \cup {<<a, b>> : a \in Lines, b \in Lines}}
    \cup {[cores |-> None, lines |-> <<>>],
          [cores |-> 3, lines |-> <<Line(0, <<p>>), BlankLine, Line(2, <<q>>), Line(0, <<q>>)>>]}

MCModules ==
    {<<InitName, <<p>>, <<p, q>> >>, << <<p>>, InitName, <<p>> >>, << <<p>> >>,
     <<InitName, <<p, q, r>>, <<p, q>> >>,
     <<InitName, <<p>>, <<q>>, <<p, q>> >>}

\* RSDTs of three tables in several orders, with a wrong checksum and with an HPET
\* outside memory; MADTs of up to seven entries of every type.
Table(name) == [name |-> name, valid |-> TRUE, space |-> 0]
MCRoots ==
    {<<Table("FACP"), Table("APIC"), Table("HPET")>>, <<Table("HPET"), Table("APIC")>>,
     <<Table("APIC"), [Table("HPET") EXCEPT !.space = 1]>>,
     <<[Table("FACP") EXCEPT !.valid = FALSE], Table("APIC"), Table("HPET")>>}

E(type, a, b) == [type |-> type, a |-> a, b |-> b]
Rest == {<<E("lapic", 1, 1), E("lapic", 2, 0), E("lapic", 3, 1)>>,
         <<E("address", 7, 0), E("lapic", 1, 0), E("other", 0, 0)>>}
Overrides == {<<E("override", 0, 2)>>, <<E("override", 3, 3), E("nmi", 255, 1)>>,
              <<E("nmi", 1, 0), E("override", 2, 0)>>}
MCMadts ==
    {<<E("lapic", 0, 1), E("ioapic", 0, 0)>> \o o \o e : o \in Overrides, e \in Rest} \cup
    {<<E("lapic", 0, 1)>> \o e \o o \o <<E("ioapic", 0, 0)>> : o \in Overrides, e \in Rest}

\* Capability files.
amd64 == <<"a", "6">>
BEGIN(name) == [kind |-> "BEGIN", name |-> name]
CAPABILITY(name) == [kind |-> "CAPABILITY", name |-> name]
ADDRESS(b, e) == [kind |-> "ADDRESS", begin |-> b, end |-> e]
IOperms(perms, more) == [kind |-> "IOperms", perms |-> perms, more |-> more]
END == [kind |-> "END"]
BlankText == [kind |-> "blank"]

Body ==
    {BlankText, CAPABILITY("framebuffer"), ADDRESS(<<0>>, <<1, 0, 15>>),
     ADDRESS(<<2, 3>>, <<1, 2, 3, 4, 5>>), IOperms({"r", "w"}, FALSE), IOperms({"r"}, FALSE),
     IOperms({}, FALSE), IOperms({"w"}, TRUE)}

MCFiles ==
    {<<BEGIN(amd64), a, b, c, END, IOperms({"w"}, FALSE)>> : a \in Body, b \in Body, c \in Body}
    \cup {<<BEGIN(amd64)>>, <<BEGIN(amd64), END>>, <<BEGIN(amd64), BlankText, END>>,
          <<BEGIN(<<"a">>), BlankText, END>>, <<END, BlankText>>,
          <<BEGIN(amd64), END, CAPABILITY("serial"), END>>,
          <<BEGIN(amd64 \o <<"x">>), CAPABILITY("serial"), END>>}

\* src/src/capabilities
RepositoryFile ==
    <<BEGIN(amd64), CAPABILITY("framebuffer"), ADDRESS(<<0>>, <<0>>),
      CAPABILITY("serial"), ADDRESS(<<0>>, <<1, 0, 0, 0>>), IOperms({"r", "w"}, FALSE), END>>
Names == {"framebuffer", "serial"}

-----------------------------------------------------------------------------

Usual ==
    [mods |-> <<InitName>>, doc |-> [cores |-> 1, lines |-> <<Line(0, <<p>>)>>],
     root |-> <<Table("APIC"), Table("HPET")>>, madt |-> <<E("ioapic", 0, 0)>>,
     low |-> TRUE, hpetOn |-> FALSE, file |-> RepositoryFile, records |-> {"none"},
     calls |-> FALSE]

MCMachines ==
    {[Usual EXCEPT !.mods = m, !.doc = d] : m \in MCModules, d \in MCDocs}
    \cup {[Usual EXCEPT !.root = t, !.madt = m, !.low = l, !.hpetOn = o] :
            t \in MCRoots, m \in MCMadts, l \in BOOLEAN, o \in BOOLEAN}
    \cup {[Usual EXCEPT !.file = f, !.records = {"section"}] : f \in MCFiles}
    \cup {[Usual EXCEPT !.records = {"none", "section"}, !.calls = TRUE]}
=============================================================================
