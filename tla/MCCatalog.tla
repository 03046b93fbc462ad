------------------------------ MODULE MCCatalog -----------------------------
(***************************************************************************)
(* Inputs for TLC: two acronyms, two tags listed in both orders, and one   *)
(* input for each way of being refused.                                    *)
(***************************************************************************)
EXTENDS Catalog

MCInput(key, tags, flaw) == [key |-> key, tags |-> tags, flaw |-> flaw]

MCFlawed == { MCInput("icse", <<"ai">>, "track"), MCInput("fse", <<>>, "blank"),
              MCInput("icse", <<>>, "unordered") }

MCInputs == { MCInput("icse", <<"ai", "se">>, "none"), MCInput("fse", <<"se", "ai">>, "none"),
              MCInput("icse", <<>>, "none") } \cup MCFlawed

\* Two conferences, one conference twice, and a document that ends badly.
MCImports ==
    {<<MCInput("icse", <<"ai", "se">>, "none"), MCInput("fse", <<"se", "ai">>, "none")>>,
     <<MCInput("icse", <<>>, "none"), MCInput("icse", <<"ai", "se">>, "none")>>}
    \cup {<<MCInput("icse", <<>>, "none"), bad>> : bad \in MCFlawed}
=============================================================================
