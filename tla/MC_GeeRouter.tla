---------------------------- MODULE MC_GeeRouter ----------------------------
(* Model values for checking GeeRouter with TLC.                           *)
EXTENDS GeeRouter

\* Group("/a").
MCGroupPrefixes == {<<"/", "a">>}

\* GET/POST("/:b"), ("/*b") and ("/ab"): a parameter route, a wildcard
\* route, and a static route whose first segment extends "a".
MCComps == {<<"/", ":", "b">>, <<"/", "*", "b">>, <<"/", "a", "b">>}

\* Static("/") and Static("/b"): the wildcard at the group's own prefix,
\* and under one more segment (the example server's Static("/assets")).
MCStaticPaths == {<<"/">>, <<"/", "b">>}

=============================================================================
