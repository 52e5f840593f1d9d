---------------------------- MODULE MCStaticFs ----------------------------
(***************************************************************************)
(* File names for model checking: without a dot, with one and with two, at  *)
(* the end and in the directory, with a known extension and without.        *)
(***************************************************************************)
EXTENDS StaticFs

MCPaths ==
    {<<"text">>, <<"html">>, <<"text", ".">>, <<".", "html">>,
     <<"text", ".", "html">>, <<"text", ".", "text">>,
     <<".", "html", ".", "text">>, <<".", "text", ".", "html">>,
     <<".", "/", "html">>, <<".", "html", "/", "text">>,
     <<".", "html", "/", "html">>, <<".", "html", "/", "text", ".", "html">>}
===========================================================================
