--------------------------- MODULE MCDesktopTabs ---------------------------
(* Instances of DesktopTabs for TLC.                                        *)
EXTENDS DesktopTabs, TLC

\* Devices are interchangeable in every safety property.
Interchangeable == Permutations(Keys)
=============================================================================
