------------------------------ MODULE MCStartup ------------------------------
(* Two servers, one of whose names begins with the other's, so that a tool *)
(* b__c of the one and a tool c of the other have the same public name;    *)
(* and skills whose files are any few lines of those that matter.          *)
EXTENDS Startup

MCServers == {<<"a">>, <<"a", "b">>}
MCRemotes == {<<"c">>, <<"b", "c">>, <<"read_file">>}
MCLocals == {<<"read_file">>, <<"bash">>}

MCWords == {"---", "name:", "description:", "${SKILL_DIR}", "w"}

SomeLines ==
  {<<>>, <<"w">>, <<"---">>, <<"---", "cr">>, <<"sp", "name:", "sp", "w">>,
   <<"description:", "w", "---", "w">>, <<"${SKILL_DIR}", "w">>}

Contents == {Joined(ls) : ls \in UNION {[1..n -> SomeLines] : n \in 1..4}}

File(kind, dir, content) == [kind |-> kind, dir |-> dir, content |-> content]

(* One skill of any content, or three entries of any kind.                 *)
OneSkill == {<<File("skill", "d1", c)>> : c \in Contents}

Kinds == {"skill", "unreadable", "locked", "other"}

ThreeEntries ==
  {<<File(k1, "d1", <<"w">>), File(k2, "d2", <<"w">>), File(k3, "d3", <<"w">>)>> :
     k1, k2, k3 \in Kinds}

MCDisks ==
  [agents : {NoFile}, tree : OneSkill]
    \cup [agents : {NoFile, <<"w">>}, tree : ThreeEntries \cup {<<>>}]

=============================================================================
