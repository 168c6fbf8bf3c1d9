---------------------------- MODULE MCBootstrap ----------------------------
(***************************************************************************)
(* One run of the script, over any two files, which sshd accepts all.      *)
(***************************************************************************)
EXTENDS Bootstrap
MCContent == {"old"}
MCValid == {"old", "new", "absent", "link"}
=============================================================================
