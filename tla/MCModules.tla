----------------------------- MODULE MCModules ------------------------------
(* The catalogues of the runs of Modules.                                  *)
EXTENDS Modules

ThreeModules == {"keyword_reply", "post_templates", "auto_reply"}
=============================================================================
