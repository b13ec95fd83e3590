-------------------------- MODULE MCGeneratedClient --------------------------
EXTENDS GeneratedClient

MCIds == {<<"{import_id}", "/", "?", ".">>, <<".", ".">>}
MCWords == {Absent, <<"a", "&", "b", "=", " ", "%">>}
MCCursors == {Absent, <<"cursor", "=">>}
MCTexts == {<<"w">>, <<"a", "|", "=">>, <<".", " ", ",", "%", ";", "&", "/">>}
=============================================================================
