----------------------------- MODULE MCFileStore -----------------------------
(***************************************************************************)
(* Instances of FileStore for TLC.                                         *)
(***************************************************************************)
EXTENDS FileStore

Abs(parts) == [abs |-> TRUE, parts |-> parts]
Rel(parts) == [abs |-> FALSE, parts |-> parts]

\* /a is the first root, /b/a the second, /b is in none.
MCRoots == << <<"a">>, <<"b", "a">> >>
MCLocations == {<<"a">>, <<"a", "a">>, <<"a", "b">>, <<"a", "b", "a">>,
                <<"b">>, <<"b", "a">>}

\* A link to a directory outside the roots, one to an entry of the root, and
\* one to an entry of it that may lead back.
MCLinkTargets == {<<"b">>, <<"a", "b">>}

\* "." and /a/a, a path through a directory that may be a link, a ".." behind
\* one, a path that leaves the root by its name, and the second root.
MCPaths == {Rel(<<>>), Abs(<<"a", "a">>), Rel(<<"b", "a">>),
            Rel(<<"b", "..", "a">>), Rel(<<"..", "b">>), Abs(<<"b", "a">>)}
=============================================================================
