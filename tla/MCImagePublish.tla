--------------------------- MODULE MCImagePublish ---------------------------
(***************************************************************************)
(* Two flavors, one operator's build script beside flavors-reconcile, and  *)
(* the console.                                                            *)
(***************************************************************************)
EXTENDS ImagePublish

MCCatalog == <<"base", "node">>
MCForeign == "ubuntu-latest"
Start(images, published, listed, requests, mishaps) ==
  [image |-> images, arn |-> published, labels |-> listed, requests |-> requests,
   mishaps |-> mishaps]

Images == {i \in [Flavors -> {Absent, "CREATED", "UPDATE_FAILED"}] : i["base"] # Absent}

HalfBuilt == [f \in Flavors |-> IF f = "base" THEN "CREATED" ELSE Absent]

(* Two requests and a mishap from many planes; three requests from one.    *)
MCStarts ==
  {Start(i, a, l, 2, 1) :
     i \in Images, a \in {{}, {"base"}},
     l \in {None, {MCForeign}, {MCForeign, "base"}, {"base", "node"}}}
  \union {Start(HalfBuilt, {"base"}, l, 3, 0) : l \in {None, {MCForeign}}}

=============================================================================
