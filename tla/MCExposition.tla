----------------------------- MODULE MCExposition ------------------------------
(* An instance of Exposition for TLC.                                        *)
EXTENDS Exposition

MCCallers == (1 .. MaxBuilds) \X (1 .. NumStores)
MCFamilies == 1 .. NumFamilies
MCVersions == 1 .. MaxAdds
================================================================================
