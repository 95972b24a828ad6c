--------------------------- MODULE MCRegistryPull ---------------------------
(* An instance of RegistryPull for TLC: two images of Docker Hub and one of  *)
(* ghcr; a request of each kind, one for each image.                         *)
EXTENDS RegistryPull

CONSTANTS r1, r2, d1, x, y, g   \* r2 serves a tunnel

Ask(kind, image) == [kind |-> kind, image |-> image]
MCRequests == {Ask("blob", x), Ask("head", y), Ask("manifest", g)}
=============================================================================
