---------------------------- MODULE RelinkDumpMC ----------------------------
(***************************************************************************)
(* Images for RelinkDump: two sections, adjoining or with a gap, whose     *)
(* file data is shorter than, as long as, or longer than the section, and  *)
(* every well-formed placing of up to two exports, two import slots and    *)
(* one string resource over them.                                          *)
(***************************************************************************)
EXTENDS RelinkDump

\* The first section starts at 10, the second at 16: the first ends at it when
\* it is 6 bytes long.
FirstSections  == {[addr |-> 10, vsize |-> d[1], dsize |-> d[2], offset |-> 40] :
                     d \in {<<0, 0>>, <<5, 8>>, <<5, 3>>, <<6, 4>>, <<6, 6>>}}
SecondSections == {[addr |-> 16, vsize |-> 9, dsize |-> d, offset |-> 60] :
                     d \in {5, 9, 12}}

Named(a)   == [addr |-> a, named |-> TRUE]
Unnamed(a) == [addr |-> a, named |-> FALSE]

ExportTables == {<<>>, <<Named(12)>>, <<Unnamed(16)>>, <<Named(16), Unnamed(16)>>,
                 <<Unnamed(21), Named(20)>>, <<Named(25)>>, <<Named(14), Named(10)>>}
ImportTables == {<<>>, <<12>>, <<16>>, <<20, 16>>, <<10, 16>>, <<17, 21>>}
String(a, n) == [addr |-> a, id |-> 7, size |-> n]
StringTables == {<<>>, <<String(11, 1)>>, <<String(16, 3)>>, <<String(20, 1)>>,
                 <<String(20, 5), [String(16, 2) EXCEPT !.id = 8]>>}

AllImages ==
  {[sections |-> <<f, g>>, exports |-> e, nameNum |-> 1, exportDll |-> TRUE,
    imports |-> i, unread |-> {}, strings |-> r] :
     f \in FirstSections, g \in SecondSections, e \in ExportTables,
     i \in ImportTables, r \in StringTables}

Readable == {img \in AllImages : WellFormed(img)}

\* Names that cannot be read, with the shortest first section.
Cut == UNION {{[img EXCEPT !.exportDll = FALSE], [img EXCEPT !.unread = {2}]} :
                img \in {i \in Readable : i.sections[1].vsize = 0}}

MCImages == Readable \cup Cut

=============================================================================
