--------------------------- MODULE MCInstalledApps ---------------------------
(* InstalledApps for TLC: one app is installed, another can be; the page   *)
(* finds an image for the first one only.                                  *)
EXTENDS InstalledApps

CONSTANTS p, q

MCIds == {p, q}
OneApp == <<p>>
OnlyP == {p}
=============================================================================
