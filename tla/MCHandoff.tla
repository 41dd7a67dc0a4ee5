------------------------------- MODULE MCHandoff -------------------------------
(* A small sender's disk and the descriptors that tell the guards apart.     *)
EXTENDS Handoff, TLC

CONSTANTS s, r, q, n1, n2, clip, tool, text

MCSizeOf == clip :> 1 @@ tool :> 2 @@ text :> 1
MCSniffed == clip :> "mkv" @@ tool :> "exe" @@ text :> None
MCTypeOfName == "mkv" :> "mkv" @@ "doc" :> None @@ Trailing :> None @@ Up :> None

MCSourcePlace == {<<"mkv">>, <<"dir", "doc">>, Outside}
MCShared == <<"mkv">> :> clip @@ <<"dir", "doc">> :> tool @@ Outside :> text

NoLinks == <<>>
LinkOut == <<"dir">> :> Outside
LinkIn == <<"link">> :> <<"dir">>
MCSenderLinks == {NoLinks @@ LinkIn, LinkOut}
MCReceiverLinks ==
    {LinkIn @@ <<"mkv">> :> Outside,
     LinkOut @@ <<"mkv.part">> :> Outside,
     <<"manifests">> :> Outside @@ <<"dir", "doc.part">> :> <<"mkv">>}

File(mime, assertion) ==
    [kind |-> "file", name |-> <<"mkv">>, size |-> 1, hash |-> clip, mime |-> mime,
     assertion |-> assertion]

Entry(rel, size, content) == [rel |-> rel, size |-> size, hash |-> content]

Folder(root, entries) ==
    [kind |-> "folder", name |-> <<"dir">>, root |-> Encode(root), entries |-> entries,
     assertion |-> NoAssertion]

Vouched == [npub |-> "npub", sig |-> [by |-> "npub", card |-> CardOf(s), nonce |-> n2]]

Video == Entry(<<"mkv">>, 1, clip)
Tool == Entry(<<"dir", "doc">>, 2, tool)
Linked == Entry(<<"link", "doc">>, 2, tool)
Lost == Entry(<<"dir", "doc">>, 1, text)
Above == Entry(<<Up, "mkv">>, 1, clip)

MCDescriptor ==
    {File("mkv", NoAssertion), File("exe", NoAssertion), File("mkv", Vouched)}
    \cup {Folder(entries, entries) : entries \in
             {<<Video, Tool>>, <<Lost, Tool>>, <<Linked, Tool>>, <<Above>>, <<Video, Video, Video>>}}
    \cup {Folder(<<Video>>, <<Lost>>)}

MCPastedCard == {CardOf(r), Card(r, q, q)}

MCBytes == {NotManifest, Encode(<<Lost>>), Encode(<<Lost, Tool>>)}
=============================================================================
