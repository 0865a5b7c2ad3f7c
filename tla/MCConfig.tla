------------------------------ MODULE MCConfig ------------------------------
\* Config with sections for two nested folders and files in and beside them.
EXTENDS Config

NestedFolders == {<<"a">>, <<"a", "b">>}
SomeFiles == {<<"a", "f">>, <<"a", "b", "f">>, <<"ab", "f">>}
=============================================================================
