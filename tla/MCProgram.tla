------------------------------ MODULE MCProgram ------------------------------
(* Programs and configuration files for Program.                           *)
EXTENDS Program, TLC

Header(end, load, offset, filesz, vaddr, memsz) ==
    [end |-> end, load |-> load, offset |-> offset, filesz |-> filesz, vaddr |-> vaddr, memsz |-> memsz]

Elf(main, bytes, headers) ==
    [main |-> main, bytes |-> bytes, size |-> Len(bytes), valid |-> TRUE, entry |-> 1, headers |-> headers]

\* Two segments, the second with two zeroed addresses
Two == <<Header(2, TRUE, 2, 2, 0, 2), Header(3, TRUE, 4, 1, 2, 3)>>

Other == Elf("any", <<1, 2, 3, 4, 5>>, <<Header(2, FALSE, 0, 0, 0, 0), Header(3, TRUE, 3, 2, 0, 5)>>)
Cut2 == Elf("any", <<1, 2, 6, 7>>, Two)

MCImage ==
    { Other, Cut2,
      Elf("cat", <<1, 2, 11, 12, 13>>, Two),
      Elf("write", <<1, 21, 22>>, <<Header(1, TRUE, 1, 2, 1, 4)>>),
      Elf("cp", <<1, 2, 31>>, <<Header(2, TRUE, 2, 1, 0, 2)>>),
      Elf("date", <<1, 2, 41>>, <<Header(2, TRUE, 2, 1, 0, 2)>>),
      [Other EXCEPT !.headers = <<Header(6, TRUE, 0, 1, 0, 1)>>],
      [Other EXCEPT !.entry = 0], [Other EXCEPT !.valid = FALSE],
      [Other EXCEPT !.bytes = <<>>, !.size = 0],
      [Other EXCEPT !.bytes = <<1, 2, 3, 4, 5, 6, 7>>, !.size = 7] }

\* Without the program that leaves files open
MCShipped == {p \in MCImage : p.main # "any"}

Say(v) == <<"b", "=">> \o v
MCConfFile ==
    { <<>>, Say(<<"u">>), Say(<<"v", "nl">>),
      <<"k", "=", "v", "cr", "nl", "b", "sp", "=", "sp", "u", "nl">>,
      <<"#">> \o Say(<<"v", "nl">>) \o <<"nl">> \o Say(<<"u", "u", "u", "nl">>),
      Say(<<"v", "nl">>) \o Say(<<"u", "nl">>) \o <<"b", "nl">>,
      <<"k", "k", "k", "k", "=", "v", "nl", "b", "sp", "sp", "=", "v">>,
      \* more than a cluster
      Say(<<"v", "nl">>) \o Say(<<"v", "nl">>) \o <<"#", "#", "#", "nl">> \o Say(<<"u">>) }
MCBin == <<"b">>
MCDefaultBin == <<"u">>
MCLimit == <<12, 2, 2>>
MCStart == {<<11, 1, 0>>, <<9, 0, 1>>}
MCSymmetry == Permutations(File)
=============================================================================
