------------------------------ MODULE MCImport ------------------------------
(***************************************************************************)
(* Small archives and folders for Import: the original installer with a    *)
(* repeated file and two of one full size, a ZIP with the game in a        *)
(* directory, a ZIP that lacks a file; and a folder of the player's own.   *)
(***************************************************************************)
EXTENDS Import, TLC

Content(is) == [is |-> is, lists |-> {}]
Listing(leaves) == [is |-> "manifest", lists |-> leaves]
Size(packed, full) == [packed |-> packed, full |-> full]

Entry(name, size, content) == [name |-> name, size |-> size, content |-> content]
Streams(entries) ==
    [i \in DOMAIN entries |-> [size |-> entries[i].size, content |-> entries[i].content]]

Executable(dir) == Entry(<<dir, Exe>>, Size(9, 9), Genuine)
Art(leaf) == Entry(<<"", leaf>>, Size(2, 5), Content("art"))
List(dir, leaves) == Entry(<<dir, Manifest>>, Size(1, 5), Listing(leaves))

Installed == <<Executable(""), List("", {"a", "b"}), Art("a"), Art("b")>>
Installer == [files |-> Installed, payload |-> Streams(SubSeq(Installed, 1, 3))]
Zipped == <<Executable("lf2"), List("lf2", {"a"}),
            Entry(<<"lf2", "a">>, Size(2, 5), Content("art"))>>
Zip == [files |-> Zipped, payload |-> Streams(Zipped)]
Lacking == [files |-> SubSeq(Zipped, 1, 2), payload |-> Streams(SubSeq(Zipped, 1, 2))]

MCArchives == {Installer, Zip, Lacking}
MCFolders == "mine" :> (<<"", Exe>> :> Genuine @@ <<"", Manifest>> :> Listing({"a"})
                          @@ <<"", "a">> :> Content("art"))

=============================================================================
