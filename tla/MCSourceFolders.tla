-------------------------- MODULE MCSourceFolders --------------------------
\* A small instance of SourceFolders for TLC: two volumes, folders that overlap,
\* pictures of the same name, and a folder that is not listed.
EXTENDS SourceFolders

Folder(vol, names) == [vol |-> vol, path |-> [i \in DOMAIN names |-> <<names[i]>>]]

DCIM == Folder("primary", <<"DCIM">>)
Camera == Folder("primary", <<"DCIM", "Camera">>)
Card == Folder("1234-5678", <<"DCIM">>)
Hidden == Folder("1234-5678", <<"DCIM", "SD">>)

MCWords == {"primary", "1234-5678", "DCIM", "Camera", "SD", "a", "ThumbAdder", ".bak", ".new"}
MCPictures == {Folder("primary", <<"DCIM", "a">>), Folder("primary", <<"DCIM", "Camera", "a">>),
               Folder("1234-5678", <<"DCIM", "SD", "a">>)}
MCChoices == {{DCIM, Hidden}, {DCIM, Camera}, {Camera, Card}}
MCWorkingDir == <<<<"ThumbAdder">>>>
MCExcluded == <<"SD">>
=============================================================================
