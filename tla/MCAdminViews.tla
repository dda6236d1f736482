----------------------------- MODULE MCAdminViews -----------------------------
(* Instances of AdminViews: the routes of MCGateway's hot swap. *)
EXTENDS MCGateway, AdminViews

CONSTANTS blank, relative, padded

Padded == [text \in {padded} |-> <<"/", "v", "/", "u">>]

Filled(path, method) == [host |-> blank, path |-> path, method |-> method]

\* A path with padding around it, and fields that are refused.
ViewsForms ==
    {Filled(padded, "get"), Filled(<<"/", "v", "w">>, "get"), Filled(relative, "get"), Filled(blank, "get"),
     Filled(<<"/", "v", "w">>, blank)}

OneRequest == {r1}
ReloaderSymmetry == Permutations(MCReloaders)
RelativePaths == {relative}
=============================================================================
