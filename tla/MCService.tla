----------------------------- MODULE MCService ------------------------------
(* Two modules, and a package that has no pipeline.py.                     *)
EXTENDS Service
MCPackages == <<{"network"}, {}, {"visual"}>>
MCThread == {"network", "visual"}
=============================================================================
