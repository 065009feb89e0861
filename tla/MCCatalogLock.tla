---------------------------- MODULE MCCatalogLock ----------------------------
(* Definitions that each name an image of their own, and definitions that     *)
(* share the image of the embedded one: with these, one catalog and no fault, *)
(* OverrideIsRendered fails.                                                  *)
EXTENDS CatalogLock

CONSTANTS u1, u2, r1, r2, unsigned

Git(url, ref, granted) == [url |-> url, ref |-> ref, granted |-> granted]
MCCatalogs ==
    {Git(u1, r1, TRUE), Git(u1, r2, TRUE), Git(u2, r1, TRUE), Git(u1, unsigned, TRUE),
     Git(u1, r1, FALSE), Git(Local, None, TRUE)}
MCOneCatalog == {Git(u1, r1, TRUE)}
MCOwnImage == [d \in Definitions |-> d]
MCSameImage == [d \in Definitions |-> Embedded]
=============================================================================
